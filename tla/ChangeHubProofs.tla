-------------------------- MODULE ChangeHubProofs --------------------------
(***************************************************************************)
(* What the change feed keeps, for every number of consumers, commits,     *)
(* restores, crashes and reports.                                          *)
(***************************************************************************)
EXTENDS ChangeHubInv, FiniteSetTheorems, TLAPS

-----------------------------------------------------------------------------
(* Sequences and the longest prefixes the model chooses.                   *)

\* Induction over the places of a sequence, as the least of a set of them.
LEMMA LeastOf ==
  ASSUME NEW N \in Nat, NEW X \in SUBSET (1 .. N), X # {}
  PROVE  \E m \in X : \A n \in X : m <= n
<1> DEFINE T == {1 .. m : m \in X}
<1>1. IsFiniteSet(1 .. N)
  BY FS_Interval
<1>2. IsWellFoundedOn(StrictSubsetOrdering(1 .. N), SUBSET (1 .. N))
  BY <1>1, FS_StrictSubsetOrderingWellFounded, FS_FiniteSubsetsOfFinite, Zenon
<1>3. \A t \in T : t \subseteq 1 .. N
  OBVIOUS
<1>4. T # {}
  OBVIOUS
<1> HIDE DEF T
<1>5. PICK t \in T : \A u \in T : ~(<<u, t>> \in StrictSubsetOrdering(1 .. N))
  <2> DEFINE R == StrictSubsetOrdering(1 .. N)
             P == SUBSET (1 .. N)
  <2>1. IsWellFoundedOn(R, P) /\ T \subseteq P /\ T # {}
    BY <1>2, <1>3, <1>4
  <2> HIDE DEF R, P
  <2>2. \E x \in T : \A y \in T : ~(<<y, x>> \in R)
    BY <2>1, WFMin
  <2> QED
    BY <2>2 DEF R
<1>6. PICK m \in X : t = 1 .. m
  BY DEF T
<1>7. \A n \in X : m <= n
  <2> SUFFICES ASSUME NEW n \in X, n < m PROVE FALSE
    OBVIOUS
  <2>1. 1 .. n \in T
    BY DEF T
  <2>2. 1 .. n \subseteq 1 .. m /\ m \in 1 .. m /\ m \notin 1 .. n
    OBVIOUS
  <2>3. <<1 .. n, t>> \in StrictSubsetOrdering(1 .. N)
    BY <1>3, <1>5, <1>6, <2>1, <2>2 DEF StrictSubsetOrdering
  <2> QED
    BY <1>5, <2>1, <2>3
<1> QED
  BY <1>7

\* So there is a longest prefix of 1 .. N on which a set B of positions is not
\* entered.
LEMMA PrefixOutside ==
  ASSUME NEW N \in Nat, NEW B
  PROVE  \E n \in 0 .. N : (\A i \in 1 .. n : i \notin B) /\ (n < N => n + 1 \in B)
<1> DEFINE X == {i \in 1 .. N : i \in B}
<1>1. CASE X = {}
  <2>1. \A i \in 1 .. N : i \notin B
    BY <1>1
  <2> QED
    BY <2>1
<1>2. CASE X # {}
  <2>1. PICK m \in X : \A i \in X : m <= i
    BY <1>2, LeastOf
  <2>2. m - 1 \in 0 .. N /\ m - 1 + 1 = m /\ m \in B /\ m \in 1 .. N
    OBVIOUS
  <2>3. \A i \in 1 .. m - 1 : i \notin B
    BY <2>1, <2>2
  <2> QED
    BY <2>2, <2>3
<1> QED
  BY <1>1, <1>2


\* UpTo really is the longest prefix with LSNs up to l.
LEMMA UpToFacts ==
  ASSUME NEW s, Len(s) \in Nat, \A i \in 1 .. Len(s) : s[i].lsn \in Int, NEW l \in Int
  PROVE  /\ UpTo(s, l) \in 0 .. Len(s)
         /\ \A i \in 1 .. UpTo(s, l) : s[i].lsn <= l
         /\ UpTo(s, l) < Len(s) => s[UpTo(s, l) + 1].lsn > l
<1> DEFINE N == Len(s)
           B == {i \in 1 .. N : s[i].lsn > l}
           P(n) == /\ \A i \in 1 .. n : s[i].lsn <= l
                   /\ n < N => s[n + 1].lsn > l
<1>1. \A i \in 1 .. N : i \in B <=> ~(s[i].lsn <= l)
  OBVIOUS
<1>2. \A i \in B : s[i].lsn > l
  OBVIOUS
<1>3. N \in Nat
  OBVIOUS
<1>4. UpTo(s, l) = CHOOSE m \in 0 .. N : P(m)
  BY DEF UpTo
<1> HIDE DEF B
<1>5. PICK n \in 0 .. N : (\A i \in 1 .. n : i \notin B) /\ (n < N => n + 1 \in B)
  BY <1>3, PrefixOutside
<1>6. P(n)
  <2>1. \A i \in 1 .. n : i \in 1 .. N
    BY <1>3
  <2> QED
    BY <1>1, <1>2, <1>5, <2>1
<1> HIDE DEF P
<1>7. UpTo(s, l) \in 0 .. N /\ P(UpTo(s, l))
  BY <1>4, <1>6
<1> QED
  BY <1>7 DEF P

\* Ready really is the longest prefix of `parked` that waits for nothing past d.
LEMMA ReadyFacts ==
  ASSUME parked \in Seq(Waiting), NEW d \in Nat
  PROVE  /\ Ready(d) \in 0 .. Len(parked)
         /\ \A i \in 1 .. Ready(d) : parked[i].needs <= d
         /\ Ready(d) < Len(parked) => parked[Ready(d) + 1].needs > d
<1> DEFINE N == Len(parked)
           B == {i \in 1 .. N : parked[i].needs > d}
           P(n) == /\ \A i \in 1 .. n : parked[i].needs <= d
                   /\ n < N => parked[n + 1].needs > d
<1>1. N \in Nat /\ \A i \in 1 .. N : parked[i].needs \in Nat
  <2>1. \A i \in 1 .. N : parked[i] \in Waiting
    OBVIOUS
  <2> QED
    BY <2>1 DEF Waiting
<1>2. \A i \in 1 .. N : i \in B <=> ~(parked[i].needs <= d)
  BY <1>1
<1>3. \A i \in B : parked[i].needs > d
  OBVIOUS
<1>4. Ready(d) = CHOOSE m \in 0 .. N : P(m)
  BY DEF Ready
<1> HIDE DEF B
<1>5. PICK n \in 0 .. N : (\A i \in 1 .. n : i \notin B) /\ (n < N => n + 1 \in B)
  BY <1>1, PrefixOutside
<1>6. P(n)
  <2>1. \A i \in 1 .. n : i \in 1 .. N
    BY <1>1
  <2> QED
    BY <1>2, <1>3, <1>5, <2>1
<1> HIDE DEF P
<1>7. Ready(d) \in 0 .. N /\ P(Ready(d))
  BY <1>4, <1>6
<1> QED
  BY <1>7 DEF P

\* A concatenation, place by place.
LEMMA JoinFacts ==
  ASSUME NEW S, NEW s \in Seq(S), NEW t \in Seq(S), NEW u, u = s \o t
  PROVE  /\ u \in Seq(S) /\ Len(u) = Len(s) + Len(t) /\ Len(s) \in Nat /\ Len(t) \in Nat
         /\ DOMAIN u = 1 .. Len(s) + Len(t)
         /\ \A k \in 1 .. Len(s) : u[k] = s[k]
         /\ \A k \in 1 .. Len(t) : u[Len(s) + k] = t[k]
  OBVIOUS

\* A part of a sequence.
LEMMA PartFacts ==
  ASSUME NEW S, NEW s \in Seq(S), NEW n \in 0 .. Len(s)
  PROVE  /\ SubSeq(s, 1, n) \in Seq(S) /\ Len(SubSeq(s, 1, n)) = n
         /\ DOMAIN SubSeq(s, 1, n) = 1 .. n
         /\ \A k \in 1 .. n : SubSeq(s, 1, n)[k] = s[k]
         /\ SubSeq(s, n + 1, Len(s)) \in Seq(S)
         /\ Len(SubSeq(s, n + 1, Len(s))) = Len(s) - n
         /\ DOMAIN SubSeq(s, n + 1, Len(s)) = 1 .. Len(s) - n
         /\ \A k \in 1 .. Len(s) - n : SubSeq(s, n + 1, Len(s))[k] = s[n + k]
  OBVIOUS

\* The batches of what is parked, and everything announced.
LEMMA BatchesFacts ==
  ASSUME NEW ps \in Seq(Waiting)
  PROVE  /\ Batches(ps) \in Seq(Batch) /\ Len(Batches(ps)) = Len(ps)
         /\ \A k \in 1 .. Len(ps) : Batches(ps)[k] = ps[k].batch
<1>1. DOMAIN ps = 1 .. Len(ps) /\ Len(ps) \in Nat
  OBVIOUS
<1>2. \A k \in 1 .. Len(ps) : ps[k].batch \in Batch
  <2>1. \A k \in 1 .. Len(ps) : ps[k] \in Waiting
    OBVIOUS
  <2> QED
    BY <2>1 DEF Waiting
<1>3. Batches(ps) = [k \in 1 .. Len(ps) |-> ps[k].batch]
  BY <1>1 DEF Batches
<1> QED
  BY <1>1, <1>2, <1>3

LEMMA AnnouncedFacts ==
  parked \in Seq(Waiting) /\ stream \in Seq(Batch) =>
    /\ Announced \in Seq(Batch) /\ Len(Announced) = Len(stream) + Len(parked)
    /\ Len(stream) \in Nat /\ Len(parked) \in Nat
    /\ DOMAIN Announced = 1 .. Len(stream) + Len(parked)
    /\ \A k \in 1 .. Len(stream) : Announced[k] = stream[k]
    /\ \A k \in 1 .. Len(parked) : Announced[Len(stream) + k] = parked[k].batch
<1> SUFFICES ASSUME parked \in Seq(Waiting), stream \in Seq(Batch)
             PROVE  /\ Announced \in Seq(Batch) /\ Len(Announced) = Len(stream) + Len(parked)
                    /\ Len(stream) \in Nat /\ Len(parked) \in Nat
                    /\ DOMAIN Announced = 1 .. Len(stream) + Len(parked)
                    /\ \A k \in 1 .. Len(stream) : Announced[k] = stream[k]
                    /\ \A k \in 1 .. Len(parked) : Announced[Len(stream) + k] = parked[k].batch
  OBVIOUS
<1>1. /\ Batches(parked) \in Seq(Batch) /\ Len(Batches(parked)) = Len(parked)
      /\ \A k \in 1 .. Len(parked) : Batches(parked)[k] = parked[k].batch
  BY BatchesFacts
<1> DEFINE b == Batches(parked)
<1> HIDE DEF b
<1>2. b \in Seq(Batch) /\ Len(b) = Len(parked)
      /\ \A k \in 1 .. Len(parked) : b[k] = parked[k].batch
  BY <1>1 DEF b
<1>3. /\ stream \o b \in Seq(Batch) /\ Len(stream \o b) = Len(stream) + Len(b)
      /\ Len(stream) \in Nat /\ Len(b) \in Nat
      /\ DOMAIN (stream \o b) = 1 .. Len(stream) + Len(b)
      /\ \A k \in 1 .. Len(stream) : (stream \o b)[k] = stream[k]
      /\ \A k \in 1 .. Len(b) : (stream \o b)[Len(stream) + k] = b[k]
  <2>1. stream \in Seq(Batch) /\ b \in Seq(Batch)
    BY <1>2
  <2> QED
    BY ONLY <2>1
<1>4. Announced = stream \o b
  BY DEF Announced, b
<1> QED
  BY <1>2, <1>3, <1>4

LEMMA HeadTail ==
  ASSUME NEW S, NEW s \in Seq(S), s # <<>>
  PROVE  /\ Head(s) \in S /\ Tail(s) \in Seq(S) /\ Len(s) \in Nat /\ Len(s) >= 1
         /\ Head(s) = s[1] /\ Len(Tail(s)) = Len(s) - 1
         /\ \A k \in 1 .. Len(s) - 1 : Tail(s)[k] = s[k + 1]
  OBVIOUS

LEMMA AppendFacts ==
  ASSUME NEW S, NEW s \in Seq(S), NEW e \in S
  PROVE  /\ Append(s, e) \in Seq(S) /\ Len(s) \in Nat /\ Len(Append(s, e)) = Len(s) + 1
         /\ DOMAIN s = 1 .. Len(s) /\ DOMAIN Append(s, e) = 1 .. Len(s) + 1
         /\ \A k \in 1 .. Len(s) : Append(s, e)[k] = s[k]
         /\ Append(s, e)[Len(s) + 1] = e
  OBVIOUS

\* Sequences are equal when they agree place by place.
LEMMA SameSeq ==
  ASSUME NEW S, NEW s \in Seq(S), NEW t \in Seq(S), Len(s) = Len(t),
         \A k \in 1 .. Len(s) : s[k] = t[k]
  PROVE  s = t
  OBVIOUS

-----------------------------------------------------------------------------
(* Feeds.                                                                  *)

\* The fields of a feed have their types, and updates keep them.
LEMMA FeedFields ==
  ASSUME NEW F \in FeedState
  PROVE  /\ F.status \in Statuses /\ F.queue \in Seq(Batch) /\ F.backlog \in Seq(Batch)
         /\ F.last \in Places /\ F.errored \in BOOLEAN /\ F.asleep \in BOOLEAN
         /\ F.joined \in Nat /\ F.hist \in Hists /\ F.after \in Nat /\ F.upto \in Nat
         /\ F.base \in Nat /\ F.seen \in SUBSET Ids /\ F.pos \in Nat /\ F.from \in Nat
         /\ F.fresh \in BOOLEAN
  BY DEF FeedState, Statuses, Hists

LEMMA FeedPushed ==
  ASSUME NEW F \in FeedState, NEW q \in Seq(Batch), NEW s \in Statuses,
         NEW G, G = Pushed(F, q, s)
  PROVE  /\ G \in FeedState /\ G.queue = q /\ G.status = s
         /\ G.backlog = F.backlog /\ G.last = F.last /\ G.errored = F.errored
         /\ G.joined = F.joined /\ G.hist = F.hist /\ G.after = F.after /\ G.upto = F.upto
         /\ G.base = F.base /\ G.seen = F.seen /\ G.pos = F.pos /\ G.from = F.from
         /\ G.fresh = F.fresh
<1>1. G = [status |-> s, queue |-> q, backlog |-> F.backlog, last |-> F.last,
           errored |-> F.errored, asleep |-> FALSE, joined |-> F.joined, hist |-> F.hist,
           after |-> F.after, upto |-> F.upto, base |-> F.base, seen |-> F.seen,
           pos |-> F.pos, from |-> F.from, fresh |-> F.fresh]
  BY DEF FeedState, Pushed
<1>2. \A a \in BOOLEAN :
        [status |-> s, queue |-> q, backlog |-> F.backlog, last |-> F.last,
         errored |-> F.errored, asleep |-> a, joined |-> F.joined, hist |-> F.hist,
         after |-> F.after, upto |-> F.upto, base |-> F.base, seen |-> F.seen,
         pos |-> F.pos, from |-> F.from, fresh |-> F.fresh] \in FeedState
  BY FeedFields DEF FeedState, Statuses, Hists
<1>3. G \in FeedState
  BY <1>1, <1>2, Zenon
<1> QED
  BY <1>1, <1>3

\* Pushing: what fits goes to the end of the queue, the rest makes the feed lag.
LEMMA PushCases ==
  ASSUME NEW F \in FeedState, NEW bs \in Seq(Batch)
  PROVE  \/ Push(F, bs) = F /\ (F.status # "open" \/ bs = <<>>)
         \/ /\ F.status = "open"
            /\ \E n \in 0 .. Len(bs), s \in {"open", "lagged"} : Fits(F, bs, n, s, Push(F, bs))
<1> DEFINE room == Capacity - Len(F.queue)
<1>1. /\ F.queue \in Seq(Batch) /\ Len(F.queue) \in Nat /\ Len(bs) \in Nat /\ Capacity \in Nat
  BY FeedFields, ChangeHubAssumption
<1>2. SubSeq(bs, 1, Len(bs)) = bs /\ Len(bs) \in 0 .. Len(bs)
      /\ \A n \in 0 .. Len(bs) : F.queue \o SubSeq(bs, 1, n) \in Seq(Batch)
  BY <1>1
<1>3. CASE F.status # "open" \/ bs = <<>>
  BY <1>3 DEF Push
<1>4. CASE F.status = "open" /\ bs # <<>> /\ Len(bs) <= room
  <2>1. Push(F, bs) = [F EXCEPT !.queue = F.queue \o bs, !.asleep = FALSE]
    BY <1>4 DEF Push
  <2>2. [F EXCEPT !.queue = F.queue \o bs, !.asleep = FALSE] = Pushed(F, F.queue \o bs, "open")
    BY <1>4 DEF FeedState, Pushed
  <2>3. Fits(F, bs, Len(bs), "open", Push(F, bs))
    BY <1>2, <2>1, <2>2 DEF Fits, Statuses
  <2> QED
    BY <1>2, <1>4, <2>3
<1>5. CASE F.status = "open" /\ bs # <<>> /\ ~(Len(bs) <= room)
  <2>1. Push(F, bs) = Pushed(F, F.queue \o SubSeq(bs, 1, room), "lagged")
    BY <1>5 DEF Push, Pushed
  <2>2. \E n \in 0 .. Len(bs) : SubSeq(bs, 1, room) = SubSeq(bs, 1, n)
    <3>1. CASE room >= 0
      <4>1. room \in 0 .. Len(bs)
        BY <1>1, <1>5, <3>1
      <4> QED
        BY <4>1
    <3>2. CASE room < 0
      <4>1. SubSeq(bs, 1, room) = <<>> /\ SubSeq(bs, 1, 0) = <<>> /\ 0 \in 0 .. Len(bs)
        BY <1>1, <3>2
      <4> QED
        BY <4>1
    <3> QED
      BY <1>1, <3>1, <3>2
  <2>3. PICK n \in 0 .. Len(bs) : Push(F, bs) = Pushed(F, F.queue \o SubSeq(bs, 1, n), "lagged")
    BY <2>1, <2>2
  <2>4. Fits(F, bs, n, "lagged", Push(F, bs))
    BY <1>2, <2>3 DEF Fits, Statuses
  <2> QED
    BY <1>5, <2>4
<1> QED
  BY <1>3, <1>4, <1>5

LEMMA PushKeeps ==
  ASSUME NEW F \in FeedState, NEW bs \in Seq(Batch), NEW G, G = Push(F, bs)
  PROVE  /\ G \in FeedState
         /\ G.backlog = F.backlog /\ G.last = F.last /\ G.errored = F.errored
         /\ G.joined = F.joined /\ G.hist = F.hist /\ G.after = F.after /\ G.upto = F.upto
         /\ G.base = F.base /\ G.seen = F.seen /\ G.pos = F.pos /\ G.from = F.from
         /\ G.fresh = F.fresh
<1>1. CASE \E n \in 0 .. Len(bs), s \in {"open", "lagged"} : Fits(F, bs, n, s, G)
  <2>1. PICK q \in Seq(Batch), s \in Statuses : G = Pushed(F, q, s)
    BY <1>1 DEF Fits
  <2> QED
    BY <2>1, FeedPushed
<1> QED
  BY <1>1, PushCases

LEMMA PushOpen ==
  ASSUME NEW F \in FeedState, NEW bs \in Seq(Batch)
  PROVE  PushedTo(F, bs, Push(F, bs))
<1> DEFINE G == Push(F, bs)
<1> HIDE DEF G
<1>1. ASSUME F.status = "open", NEW n \in 0 .. Len(bs), NEW s \in {"open", "lagged"},
             Fits(F, bs, n, s, G)
      PROVE  PushedTo(F, bs, G)
  <2> DEFINE q == F.queue \o SubSeq(bs, 1, n)
  <2>1. q \in Seq(Batch) /\ s \in Statuses /\ G = Pushed(F, q, s) /\ (s = "open" => n = Len(bs))
    BY <1>1 DEF Fits
  <2> HIDE DEF q
  <2>2. G.queue = q /\ G.status = s
    BY <2>1, FeedPushed
  <2>3. G.queue = F.queue \o SubSeq(bs, 1, n)
    BY <2>2 DEF q
  <2> QED
    BY <1>1, <2>1, <2>2, <2>3 DEF PushedTo
<1> QED
  BY <1>1, PushCases DEF G, PushedTo

LEMMA PushStatus ==
  ASSUME NEW F \in FeedState, NEW bs \in Seq(Batch), NEW G, G = Push(F, bs)
  PROVE  \/ G = F
         \/ F.status = "open" /\ G.status \in {"open", "lagged"}
  BY PushOpen DEF PushedTo

LEMMA FeedEnded ==
  ASSUME NEW F \in FeedState, NEW q \in Seq(Batch),
         NEW G, G = Ended(F, q)
  PROVE
    /\ G \in FeedState /\ G.queue = q /\ G.status = "closed" /\ G.errored
    /\ G.backlog = F.backlog /\ G.last = F.last /\ G.asleep = F.asleep
    /\ G.joined = F.joined /\ G.hist = F.hist /\ G.after = F.after /\ G.upto = F.upto
    /\ G.base = F.base /\ G.seen = F.seen /\ G.pos = F.pos /\ G.from = F.from
    /\ G.fresh = F.fresh
<1>1. G = [status |-> "closed", queue |-> q, backlog |-> F.backlog, last |-> F.last,
           errored |-> TRUE, asleep |-> F.asleep, joined |-> F.joined, hist |-> F.hist,
           after |-> F.after, upto |-> F.upto, base |-> F.base, seen |-> F.seen,
           pos |-> F.pos, from |-> F.from, fresh |-> F.fresh]
  BY DEF FeedState, Ended
<1>2. \A e \in BOOLEAN :
        [status |-> "closed", queue |-> q, backlog |-> F.backlog, last |-> F.last,
         errored |-> e, asleep |-> F.asleep, joined |-> F.joined, hist |-> F.hist,
         after |-> F.after, upto |-> F.upto, base |-> F.base, seen |-> F.seen,
         pos |-> F.pos, from |-> F.from, fresh |-> F.fresh] \in FeedState
  BY FeedFields DEF FeedState, Statuses, Hists
<1>3. G \in FeedState
  BY <1>1, <1>2, Zenon
<1> QED
  BY <1>1, <1>3

LEMMA FeedMoved ==
  ASSUME NEW F \in FeedState, NEW h \in Hists, NEW b \in Nat, NEW s \in SUBSET Ids, NEW p \in Nat, NEW r \in Nat,
         NEW G, G = Moved(F, h, b, s, p, r)
  PROVE
    /\ G \in FeedState /\ G.hist = h /\ G.base = b /\ G.seen = s /\ G.pos = p
    /\ G.from = r
    /\ G.status = F.status /\ G.queue = F.queue /\ G.backlog = F.backlog
    /\ G.last = F.last /\ G.errored = F.errored /\ G.asleep = F.asleep
    /\ G.joined = F.joined /\ G.after = F.after /\ G.upto = F.upto /\ G.fresh = F.fresh
<1>1. G = [status |-> F.status, queue |-> F.queue, backlog |-> F.backlog,
           last |-> F.last, errored |-> F.errored, asleep |-> F.asleep,
           joined |-> F.joined, hist |-> h, after |-> F.after, upto |-> F.upto,
           base |-> b, seen |-> s, pos |-> p, from |-> r, fresh |-> F.fresh]
  BY DEF FeedState, Moved
<1>2. G \in FeedState
  BY <1>1, FeedFields DEF FeedState, Statuses, Hists
<1> QED
  BY <1>1, <1>2

LEMMA FeedTook ==
  ASSUME NEW F \in FeedState, NEW q \in Seq(Batch), NEW b \in Seq(Batch), NEW l \in Places, NEW s \in SUBSET Ids, NEW p \in Nat,
         NEW G, G = Took(F, q, b, l, s, p)
  PROVE
    /\ G \in FeedState /\ G.queue = q /\ G.backlog = b /\ G.last = l /\ G.seen = s
    /\ G.pos = p
    /\ G.status = F.status /\ G.errored = F.errored /\ G.asleep = F.asleep
    /\ G.joined = F.joined /\ G.hist = F.hist /\ G.after = F.after /\ G.upto = F.upto
    /\ G.base = F.base /\ G.from = F.from /\ G.fresh = F.fresh
<1>1. G = [status |-> F.status, queue |-> q, backlog |-> b, last |-> l,
           errored |-> F.errored, asleep |-> F.asleep, joined |-> F.joined,
           hist |-> F.hist, after |-> F.after, upto |-> F.upto, base |-> F.base,
           seen |-> s, pos |-> p, from |-> F.from, fresh |-> F.fresh]
  BY DEF FeedState, Took
<1>2. G \in FeedState
  BY <1>1, FeedFields DEF FeedState, Statuses, Hists
<1> QED
  BY <1>1, <1>2

LEMMA FeedSlept ==
  ASSUME NEW F \in FeedState,
         NEW G, G = Slept(F)
  PROVE
    /\ G \in FeedState /\ G.asleep
    /\ G.status = F.status /\ G.queue = F.queue /\ G.backlog = F.backlog
    /\ G.last = F.last /\ G.errored = F.errored /\ G.joined = F.joined
    /\ G.hist = F.hist /\ G.after = F.after /\ G.upto = F.upto /\ G.base = F.base
    /\ G.seen = F.seen /\ G.pos = F.pos /\ G.from = F.from /\ G.fresh = F.fresh
<1>1. G = [status |-> F.status, queue |-> F.queue, backlog |-> F.backlog,
           last |-> F.last, errored |-> F.errored, asleep |-> TRUE, joined |-> F.joined,
           hist |-> F.hist, after |-> F.after, upto |-> F.upto, base |-> F.base,
           seen |-> F.seen, pos |-> F.pos, from |-> F.from, fresh |-> F.fresh]
  BY DEF FeedState, Slept
<1>2. \A a \in BOOLEAN :
        [status |-> F.status, queue |-> F.queue, backlog |-> F.backlog, last |-> F.last,
         errored |-> F.errored, asleep |-> a, joined |-> F.joined, hist |-> F.hist,
         after |-> F.after, upto |-> F.upto, base |-> F.base, seen |-> F.seen,
         pos |-> F.pos, from |-> F.from, fresh |-> F.fresh] \in FeedState
  BY FeedFields DEF FeedState, Statuses, Hists
<1>3. G \in FeedState
  BY <1>1, <1>2, Zenon
<1> QED
  BY <1>1, <1>3

LEMMA FeedFresh ==
  ASSUME NEW j \in Nat, NEW a \in Nat, NEW G, G = FreshFeed(j, a)
  PROVE  /\ G \in FeedState /\ G.status = "open" /\ G.queue = <<>> /\ G.backlog = <<>>
         /\ G.last = NoLsn /\ ~G.errored /\ G.hist = "no" /\ G.after = a /\ G.upto = 0
<1>1. G = [status |-> "open", queue |-> <<>>, backlog |-> <<>>, last |-> NoLsn,
           errored |-> FALSE, asleep |-> FALSE, joined |-> j, hist |-> "no", after |-> a,
           upto |-> 0, base |-> 0, seen |-> {}, pos |-> 0, from |-> 0, fresh |-> TRUE]
  BY DEF FreshFeed, NoFeed
<1>2. \A e, s, r \in BOOLEAN :
        [status |-> "open", queue |-> <<>>, backlog |-> <<>>, last |-> NoLsn,
         errored |-> e, asleep |-> s, joined |-> j, hist |-> "no", after |-> a,
         upto |-> 0, base |-> 0, seen |-> {}, pos |-> 0, from |-> 0, fresh |-> r]
          \in FeedState
  BY DEF FeedState, Places, NoLsn
<1>3. G \in FeedState
  BY <1>1, <1>2, Zenon
<1> QED
  BY <1>1, <1>3

LEMMA FeedResumed ==
  ASSUME NEW j \in Nat, NEW a \in Nat, NEW u \in Nat, NEW b \in Seq(Batch), NEW h \in Hists,
         NEW G, G = ResumedFeed(j, a, u, b, h)
  PROVE  /\ G \in FeedState /\ G.status = "open" /\ G.queue = <<>> /\ G.backlog = b
         /\ G.last = a /\ ~G.errored /\ G.hist = h /\ G.after = a /\ G.upto = u
<1>1. G = [status |-> "open", queue |-> <<>>, backlog |-> b, last |-> a,
           errored |-> FALSE, asleep |-> FALSE, joined |-> j, hist |-> h, after |-> a,
           upto |-> u, base |-> 0, seen |-> {}, pos |-> 0, from |-> 0, fresh |-> FALSE]
  BY DEF ResumedFeed, NoFeed
<1>2. \A e, s, r \in BOOLEAN :
        [status |-> "open", queue |-> <<>>, backlog |-> b, last |-> a,
         errored |-> e, asleep |-> s, joined |-> j, hist |-> h, after |-> a,
         upto |-> u, base |-> 0, seen |-> {}, pos |-> 0, from |-> 0, fresh |-> r]
          \in FeedState
  BY DEF FeedState, Places, NoLsn, Hists
<1>3. G \in FeedState
  BY <1>1, <1>2, Zenon
<1> QED
  BY <1>1, <1>3

\* What a feed that is not open looks like.
LEMMA NoFeedFields ==
  /\ NoFeed \in FeedState /\ NoFeed.status = "none" /\ NoFeed.queue = <<>>
  /\ NoFeed.backlog = <<>> /\ NoFeed.last = NoLsn /\ ~NoFeed.errored /\ NoFeed.hist = "no"
  /\ NoFeed.after = 0 /\ NoFeed.upto = 0
<1>1. NoFeed = [status |-> "none", queue |-> <<>>, backlog |-> <<>>, last |-> NoLsn,
           errored |-> FALSE, asleep |-> FALSE, joined |-> 0, hist |-> "no", after |-> 0,
           upto |-> 0, base |-> 0, seen |-> {}, pos |-> 0, from |-> 0, fresh |-> FALSE]
  BY DEF NoFeed
<1>2. \A e, s, r \in BOOLEAN :
        [status |-> "none", queue |-> <<>>, backlog |-> <<>>, last |-> NoLsn,
         errored |-> e, asleep |-> s, joined |-> 0, hist |-> "no", after |-> 0,
         upto |-> 0, base |-> 0, seen |-> {}, pos |-> 0, from |-> 0, fresh |-> r]
          \in FeedState
  BY DEF FeedState, Places, NoLsn
<1>3. NoFeed \in FeedState
  BY <1>1, <1>2, Zenon
<1> QED
  BY <1>1, <1>3
-----------------------------------------------------------------------------
(* What each step of a consumer does to its feed.                          *)

LEMMA FeedSet ==
  ASSUME feed \in [Feeds -> FeedState], NEW f \in Feeds, NEW G \in FeedState,
         feed' = [feed EXCEPT ![f] = G]
  PROVE  Becomes(f, G)
  BY DEF Becomes

\* What is after an LSN in a sequence.
LEMMA AfterFacts ==
  ASSUME NEW s \in Seq(Batch), NEW l \in Int
  PROVE  /\ After(s, l) \in Seq(Batch) /\ UpTo(s, l) \in 0 .. Len(s)
         /\ Len(After(s, l)) = Len(s) - UpTo(s, l)
         /\ \A k \in 1 .. Len(After(s, l)) : After(s, l)[k] = s[UpTo(s, l) + k]
         /\ \A i \in 1 .. UpTo(s, l) : s[i].lsn <= l
         /\ UpTo(s, l) < Len(s) => s[UpTo(s, l) + 1].lsn > l
<1>1. Len(s) \in Nat /\ \A i \in 1 .. Len(s) : s[i].lsn \in Int
  <2>1. \A i \in 1 .. Len(s) : s[i] \in Batch
    OBVIOUS
  <2> QED
    BY <2>1 DEF Batch
<1>2. /\ UpTo(s, l) \in 0 .. Len(s)
      /\ \A i \in 1 .. UpTo(s, l) : s[i].lsn <= l
      /\ UpTo(s, l) < Len(s) => s[UpTo(s, l) + 1].lsn > l
  BY <1>1, UpToFacts
<1> DEFINE n == UpTo(s, l)
<1> HIDE DEF n
<1>3. After(s, l) = SubSeq(s, n + 1, Len(s))
  BY DEF After, n
<1>4. n \in 0 .. Len(s)
  BY <1>2 DEF n
<1>5. /\ SubSeq(s, n + 1, Len(s)) \in Seq(Batch)
      /\ Len(SubSeq(s, n + 1, Len(s))) = Len(s) - n
      /\ \A k \in 1 .. Len(s) - n : SubSeq(s, n + 1, Len(s))[k] = s[n + k]
  BY <1>4
<1> QED
  BY <1>2, <1>3, <1>5 DEF n

LEMMA SubscribeFacts ==
  ASSUME TypeOK, NEW f \in Feeds, Subscribe(f)
  PROVE  /\ active /\ ~closed /\ feed[f].status = "none"
         /\ UNCHANGED <<log, ids, wal, reports, writer, process, hub>>
         /\ \/ StartOver(f) /\ UNCHANGED feed /\ token[f] # NoLsn /\ token[f] > last_lsn
            \/ /\ UNCHANGED <<token, got>> /\ token[f] = NoLsn
               /\ begun' = [begun EXCEPT ![f] = NoLsn]
               /\ Becomes(f, FreshFeed(ids, last_lsn))
            \/ /\ UNCHANGED <<token, got>>
               /\ \E from \in Nat : ResumesFrom(f, from)
<1> USE DEF TypeOK, ResumesFrom
<1>1. /\ active /\ ~closed /\ feed[f].status = "none"
      /\ UNCHANGED <<log, ids, wal, reports, writer, process, hub>>
  BY DEF Subscribe
<1>2. PICK from \in IF token[f] = NoLsn THEN {NoLsn, 0} ELSE {token[f]} :
       IF from > last_lsn
       THEN StartOver(f) /\ UNCHANGED feed
       ELSE /\ begun' = [begun EXCEPT ![f] = IF token[f] = NoLsn THEN from ELSE @]
            /\ feed' = [feed EXCEPT ![f] =
                 IF from = NoLsn THEN [Opened EXCEPT !.fresh = TRUE]
                 ELSE [Opened EXCEPT
                   !.last = from, !.backlog = After(ring, from),
                   !.hist = IF from >= ring_floor THEN "no" ELSE "wanted",
                   !.after = from, !.upto = ring_floor]]
            /\ UNCHANGED <<token, got>>
  BY DEF Subscribe
<1>3. token[f] \in Places /\ last_lsn \in Nat /\ ring_floor \in Nat /\ ids \in Nat
  OBVIOUS
<1>4. from \in Places /\ (token[f] # NoLsn => from = token[f])
  BY <1>3 DEF Places
<1>5. CASE from > last_lsn
  <2>1. from # NoLsn /\ from # 0
    BY <1>3, <1>4, <1>5 DEF NoLsn
  <2> QED
    BY <1>1, <1>2, <1>4, <1>5, <2>1
<1>6. CASE ~(from > last_lsn) /\ from = NoLsn
  <2>1. token[f] = NoLsn
    BY <1>4, <1>6
  <2>2. FreshFeed(ids, last_lsn) \in FeedState
    BY <1>3, FeedFresh
  <2>3. [Opened EXCEPT !.fresh = TRUE] = FreshFeed(ids, last_lsn)
    BY DEF Opened, FreshFeed, NoFeed
  <2>4. feed' = [feed EXCEPT ![f] = FreshFeed(ids, last_lsn)]
    BY <1>2, <1>6, <2>3
  <2>5. Becomes(f, FreshFeed(ids, last_lsn))
    BY <2>2, <2>4, FeedSet
  <2> QED
    BY <1>1, <1>2, <1>6, <2>1, <2>5
<1>7. CASE ~(from > last_lsn) /\ from # NoLsn
  <2> DEFINE b == After(ring, from)
             h == IF from >= ring_floor THEN "no" ELSE "wanted"
             G == ResumedFeed(ids, from, ring_floor, b, h)
  <2>1. from \in Nat /\ from <= last_lsn
    BY <1>3, <1>4, <1>7 DEF Places
  <2>2. b \in Seq(Batch)
    BY <2>1, AfterFacts
  <2>3. h \in Hists
    BY DEF Hists
  <2>4. feed' = [feed EXCEPT ![f] = [Opened EXCEPT !.last = from, !.backlog = b, !.hist = h,
                                       !.after = from, !.upto = ring_floor]]
    BY <1>2, <1>7
  <2> HIDE DEF b, h
  <2>5. [Opened EXCEPT !.last = from, !.backlog = b, !.hist = h, !.after = from,
                       !.upto = ring_floor] = G
    <3>1. NoFeed \in FeedState
      BY NoFeedFields
    <3> QED
      BY ONLY <3>1 DEF Opened, ResumedFeed, FeedState, G
  <2>6. G \in FeedState
    <3>1. ids \in Nat /\ from \in Nat /\ ring_floor \in Nat
      BY <1>3, <2>1
    <3> QED
      BY ONLY <2>2, <2>3, <3>1, FeedResumed
  <2>7. feed' = [feed EXCEPT ![f] = G]
    BY <2>4, <2>5
  <2> HIDE DEF G
  <2>8. Becomes(f, G)
    BY <2>6, <2>7, FeedSet
  <2>9. from = IF token[f] = NoLsn THEN 0 ELSE token[f]
    BY <1>7
  <2>10. \E n \in Nat :
           /\ n <= last_lsn /\ n = (IF token[f] = NoLsn THEN 0 ELSE token[f])
           /\ begun' = [begun EXCEPT ![f] = IF token[f] = NoLsn THEN n ELSE @]
           /\ After(ring, n) \in Seq(Batch)
           /\ Becomes(f, ResumedFeed(ids, n, ring_floor, After(ring, n),
                           IF n >= ring_floor THEN "no" ELSE "wanted"))
    <3>1. begun' = [begun EXCEPT ![f] = IF token[f] = NoLsn THEN from ELSE @]
      BY <1>2, <1>7
    <3>2. After(ring, from) \in Seq(Batch)
      BY <2>2 DEF b
    <3>3. Becomes(f, ResumedFeed(ids, from, ring_floor, After(ring, from),
                       IF from >= ring_floor THEN "no" ELSE "wanted"))
      BY <2>8 DEF G, b, h
    <3> QED
      BY <2>1, <2>9, <3>1, <3>2, <3>3
  <2> QED
    BY <1>1, <1>2, <1>7, <2>10
<1> QED
  BY <1>5, <1>6, <1>7

LEMMA PlanFacts ==
  ASSUME TypeOK, NEW f \in Feeds, Plan(f)
  PROVE  /\ feed[f].hist = "wanted"
         /\ UNCHANGED <<log, ids, wal, reports, writer, process, hub>>
         /\ \/ Becomes(f, NoFeed) /\ StartOver(f)
            \/ /\ wal_backed /\ UNCHANGED eaten
               /\ \E b \in bases \cup {EmptyBase} : PlannedOn(f, b)
<1> USE DEF TypeOK, PlannedOn
<1> DEFINE fit == IF wal_backed THEN {b \in bases \cup {EmptyBase} : Covers(b, feed[f].after)}
                  ELSE {}
<1>1. /\ feed[f].hist = "wanted"
      /\ UNCHANGED <<log, ids, wal, reports, writer, process, hub>>
      /\ IF fit = {}
         THEN feed' = [feed EXCEPT ![f] = NoFeed] /\ StartOver(f)
         ELSE /\ \E b \in fit :
                   /\ \A o \in fit : o.lsn <= b.lsn
                   /\ feed' = [feed EXCEPT ![f].hist = "planned", ![f].base = b.lsn,
                                           ![f].seen = b.has]
              /\ UNCHANGED eaten
  BY DEF Plan
<1>2. CASE fit = {}
  BY <1>1, <1>2, NoFeedFields, FeedSet
<1>3. CASE fit # {}
  <2>1. PICK b \in fit : feed' = [feed EXCEPT ![f].hist = "planned", ![f].base = b.lsn,
                                              ![f].seen = b.has]
    BY <1>1, <1>3
  <2>2. wal_backed /\ b \in bases \cup {EmptyBase} /\ Covers(b, feed[f].after)
    BY <1>3
  <2> HIDE DEF fit
  <2>3. b.lsn \in Nat /\ b.has \in SUBSET Ids
    BY <2>2 DEF EmptyBase
  <2> DEFINE F == feed[f]
             G == Moved(F, "planned", b.lsn, b.has, F.pos, F.from)
  <2>4. F \in FeedState
    OBVIOUS
  <2>5. G \in FeedState
    <3>1. "planned" \in Hists /\ F.pos \in Nat /\ F.from \in Nat
      BY <2>4, FeedFields DEF Hists
    <3> QED
      BY <2>3, <2>4, <3>1, FeedMoved
  <2>6. [F EXCEPT !.hist = "planned", !.base = b.lsn, !.seen = b.has] = G
    BY <2>4 DEF Moved, FeedState
  <2>7. feed' = [feed EXCEPT ![f] = [F EXCEPT !.hist = "planned", !.base = b.lsn,
                                              !.seen = b.has]]
    BY <2>1
  <2> HIDE DEF G, F
  <2>8. Becomes(f, G)
    BY <2>5, <2>6, <2>7, FeedSet
  <2> QED
    BY <1>1, <1>3, <2>2, <2>3, <2>8 DEF G, F
<1> QED
  BY <1>2, <1>3

LEMMA FailsFacts ==
  ASSUME feed \in [Feeds -> FeedState], NEW f \in Feeds, feed' = Fails(f)
  PROVE  Becomes(f, Ended(feed[f], <<>>))
<1> DEFINE F == feed[f]
           G == Ended(F, <<>>)
<1>1. F \in FeedState
  OBVIOUS
<1>2. G \in FeedState
  <2>1. <<>> \in Seq(Batch)
    OBVIOUS
  <2> QED
    BY <1>1, <2>1, FeedEnded, Zenon
<1>3. feed' = [feed EXCEPT ![f] = [F EXCEPT !.errored = TRUE, !.status = "closed", !.queue = <<>>]]
  BY DEF Fails
<1>4. [F EXCEPT !.errored = TRUE, !.status = "closed", !.queue = <<>>] = G
  BY <1>1 DEF Ended, FeedState
<1> HIDE DEF F, G
<1> QED
  BY <1>2, <1>3, <1>4, FeedSet DEF G, F

LEMMA HistoryStartFacts ==
  ASSUME TypeOK, NEW f \in Feeds, HistoryStart(f)
  PROVE  /\ feed[f].hist = "planned" /\ ~feed[f].errored
         /\ UNCHANGED <<log, ids, next_lsn, oldest, bases, bg_failure, listener, writer,
                        process, hub, eaten>>
         /\ \/ UNCHANGED <<durable_lsn, disk, reports>> /\ Becomes(f, Ended(feed[f], <<>>))
            \/ /\ \/ durable_lsn >= feed[f].upto /\ UNCHANGED <<durable_lsn, disk, reports>>
                  \/ /\ durable_lsn < feed[f].upto /\ durable_lsn' = next_lsn - 1
                     /\ disk' = Bigger(disk, next_lsn - 1) /\ Report(next_lsn - 1)
               /\ \E s \in SUBSET Ids :
                    /\ s = feed[f].seen \/ \E b \in bases : b.lsn = feed[f].base /\ s = b.has
                    /\ Becomes(f, Moved(feed[f], "running", feed[f].base, s, feed[f].base,
                                        oldest))
            \/ /\ durable_lsn < feed[f].upto /\ durable_lsn' = next_lsn - 1
               /\ disk' = Bigger(disk, next_lsn - 1) /\ Report(next_lsn - 1)
               /\ Becomes(f, Ended(feed[f], <<>>))
<1> USE DEF TypeOK
<1> DEFINE fsyncs == durable_lsn < feed[f].upto
           file   == {b \in bases : b.lsn = feed[f].base}
           lost   == Marker /\ feed[f].base # 0 /\ file = {}
           seen   == IF Marker /\ file # {} THEN (CHOOSE b \in file : TRUE).has
                     ELSE feed[f].seen
           F      == feed[f]
           G      == Moved(F, "running", F.base, seen, F.base, oldest)
<1>1. /\ feed[f].hist = "planned" /\ ~feed[f].errored
      /\ UNCHANGED <<log, ids, next_lsn, oldest, bases, bg_failure, listener, writer,
                     process, hub, eaten>>
  BY DEF HistoryStart
<1>2. IF fsyncs /\ ~bg_failure
      THEN /\ durable_lsn' = next_lsn - 1 /\ disk' = Bigger(disk, next_lsn - 1)
           /\ Report(next_lsn - 1)
      ELSE UNCHANGED <<durable_lsn, disk, reports>>
  BY DEF HistoryStart
<1>3. feed' = IF (fsyncs /\ bg_failure) \/ lost THEN Fails(f)
              ELSE [feed EXCEPT ![f].hist = "running", ![f].seen = seen,
                                ![f].pos = feed[f].base, ![f].from = oldest]
  BY DEF HistoryStart
<1>4. F \in FeedState /\ F.upto \in Nat /\ F.base \in Nat /\ F.seen \in SUBSET Ids
  <2>1. F \in FeedState
    OBVIOUS
  <2> QED
    BY <2>1, FeedFields
<1>5. CASE (fsyncs /\ bg_failure) \/ lost
  <2>1. Becomes(f, Ended(feed[f], <<>>))
    BY <1>3, <1>5, FailsFacts
  <2>2. \/ UNCHANGED <<durable_lsn, disk, reports>>
        \/ /\ durable_lsn < feed[f].upto /\ durable_lsn' = next_lsn - 1
           /\ disk' = Bigger(disk, next_lsn - 1) /\ Report(next_lsn - 1)
    BY <1>2
  <2> QED
    BY <1>1, <2>1, <2>2
<1>6. CASE ~((fsyncs /\ bg_failure) \/ lost)
  <2>1. feed' = [feed EXCEPT ![f] = [F EXCEPT !.hist = "running", !.seen = seen,
                                              !.pos = F.base, !.from = oldest]]
    BY <1>3, <1>6
  <2>2. /\ seen \in SUBSET Ids
        /\ seen = F.seen \/ \E b \in bases : b.lsn = F.base /\ seen = b.has
    <3>1. CASE Marker /\ file # {}
      <4>1. (CHOOSE b \in file : TRUE) \in file
        BY <3>1
      <4>2. PICK b \in bases : b.lsn = F.base /\ b = CHOOSE c \in file : TRUE
        BY <4>1
      <4>3. seen = b.has
        BY <3>1, <4>2
      <4> QED
        BY <4>2, <4>3
    <3>2. CASE ~(Marker /\ file # {})
      BY <1>4, <3>2
    <3> QED
      BY <3>1, <3>2
  <2>3. \/ durable_lsn >= feed[f].upto /\ UNCHANGED <<durable_lsn, disk, reports>>
        \/ /\ durable_lsn < feed[f].upto /\ durable_lsn' = next_lsn - 1
           /\ disk' = Bigger(disk, next_lsn - 1) /\ Report(next_lsn - 1)
    BY <1>2, <1>4, <1>6
  <2> HIDE DEF seen
  <2>4. G \in FeedState
    <3>1. "running" \in Hists
      BY DEF Hists
    <3> QED
      BY <1>4, <2>2, <3>1, FeedMoved
  <2>5. [F EXCEPT !.hist = "running", !.seen = seen, !.pos = F.base, !.from = oldest] = G
    BY <1>4 DEF Moved, FeedState
  <2> HIDE DEF G, F
  <2>6. Becomes(f, G)
    BY <2>1, <2>4, <2>5, FeedSet
  <2> QED
    BY <1>1, <2>2, <2>3, <2>6 DEF G, F
<1> QED
  BY <1>5, <1>6

\* What next_batch reads next is the first transaction not read yet.
LEMMA ToReadFacts ==
  ASSUME TypeOK, NEW f \in Feeds, ToRead(f) # {}
  PROVE  \E i \in ToRead(f) : /\ i = CHOOSE m \in ToRead(f) : \A j \in ToRead(f) : m <= j
                              /\ \A j \in ToRead(f) : i <= j
                              /\ i \in DOMAIN log
<1>1. ToRead(f) \in SUBSET (1 .. Len(log)) /\ Len(log) \in Nat
  BY DEF ToRead, TypeOK
<1>2. \E i \in ToRead(f) : \A j \in ToRead(f) : i <= j
  BY <1>1, LeastOf
<1> DEFINE c == CHOOSE m \in ToRead(f) : \A j \in ToRead(f) : m <= j
<1>3. c \in ToRead(f) /\ \A j \in ToRead(f) : c <= j
  BY <1>2
<1>4. c \in DOMAIN log
  BY <1>3 DEF ToRead
<1> QED
  BY <1>3, <1>4

LEMMA HistoryNextFacts ==
  ASSUME TypeOK, NEW f \in Feeds, HistoryNext(f)
  PROVE  /\ feed[f].hist = "running" /\ ~feed[f].errored
         /\ UNCHANGED <<log, ids, wal, reports, writer, process, hub>>
         /\ \/ ReadOut(f)
            \/ UNCHANGED eaten /\ Becomes(f, Ended(feed[f], <<>>))
            \/ \E i \in ToRead(f) : ReadsPast(f, i)
            \/ \E i \in ToRead(f) : ReadsOn(f, i)
<1> USE DEF TypeOK, ReadOut, ReadsPast, ReadsOn, Reads
<1> DEFINE F == feed[f]
<1>1. F.hist = "running" /\ ~F.errored
      /\ UNCHANGED <<log, ids, wal, reports, writer, process, hub>>
  BY DEF HistoryNext
<1>2. F \in FeedState
  OBVIOUS
<1>3. /\ F.queue \in Seq(Batch) /\ F.backlog \in Seq(Batch) /\ F.last \in Places
      /\ F.seen \in SUBSET Ids /\ F.base \in Nat /\ F.pos \in Nat /\ F.from \in Nat
      /\ F.after \in Nat
  BY <1>2, FeedFields
<1>4. CASE F.status = "closed" \/ ToRead(f) = {}
  <2> DEFINE G == Moved(F, "no", F.base, F.seen, F.pos, F.from)
  <2>1. feed' = [feed EXCEPT ![f] = [F EXCEPT !.hist = "no"]] /\ UNCHANGED eaten
    BY <1>4 DEF HistoryNext
  <2>2. [F EXCEPT !.hist = "no"] = G
    BY <1>2 DEF Moved, FeedState
  <2>3. G \in FeedState
    <3>1. "no" \in Hists
      BY DEF Hists
    <3> QED
      BY <1>2, <1>3, <3>1, FeedMoved
  <2> HIDE DEF G, F
  <2>4. Becomes(f, G)
    BY <2>1, <2>2, <2>3, FeedSet
  <2> QED
    BY <1>1, <1>4, <2>1, <2>4 DEF G, F
<1>5. CASE ~(F.status = "closed" \/ ToRead(f) = {})
  <2>1. PICK i \in ToRead(f) : /\ i = CHOOSE m \in ToRead(f) : \A j \in ToRead(f) : m <= j
                               /\ \A j \in ToRead(f) : i <= j
                               /\ i \in DOMAIN log
    BY <1>5, ToReadFacts
  <2> DEFINE t == log[i]
             good == F.seen = GraphAt(i - 1)
             read == [feed EXCEPT ![f].pos = t.lsn, ![f].seen = @ \cup {t.id}]
  <2>2. \/ /\ ~good \/ t.lsn < oldest
           /\ feed' = Fails(f) /\ UNCHANGED eaten
        \/ /\ t.lsn <= F.after
           /\ feed' = read /\ UNCHANGED eaten
        \/ /\ t.lsn > F.after
           /\ feed' = [read EXCEPT ![f].last = t.lsn, ![f].backlog = After(@, t.lsn)]
           /\ Deliver(f, [lsn |-> t.lsn, id |-> t.id, good |-> good])
    BY <1>5, <2>1 DEF HistoryNext
  <2>3. t.lsn \in Nat /\ t.id \in Ids
    <3>1. t \in Items
      BY <2>1
    <3> QED
      BY <3>1 DEF Items
  <2>4. CASE feed' = Fails(f) /\ UNCHANGED eaten
    BY <1>1, <2>4, FailsFacts
  <2>5. CASE t.lsn <= F.after /\ feed' = read /\ UNCHANGED eaten
    <3> DEFINE s == F.seen \cup {t.id}
               l == t.lsn
               G == Took(F, F.queue, F.backlog, F.last, s, l)
    <3>1. feed' = [feed EXCEPT ![f] = [F EXCEPT !.pos = t.lsn, !.seen = F.seen \cup {t.id}]]
      BY <2>5
    <3>2. [F EXCEPT !.pos = t.lsn, !.seen = F.seen \cup {t.id}] = G
      BY <1>2 DEF Took, FeedState
    <3>a. s \in SUBSET Ids /\ l \in Nat /\ F \in FeedState
      BY <1>2, <1>3, <2>3
    <3>3. G \in FeedState
      <4> HIDE DEF s, l, t, F
      <4> QED
        BY ONLY <1>3, <3>a, FeedTook
    <3> HIDE DEF G
    <3>4. Becomes(f, G)
      BY <3>1, <3>2, <3>3, FeedSet
    <3> QED
      BY <1>1, <1>5, <2>1, <2>5, <3>4 DEF G
  <2>6. CASE /\ t.lsn > F.after
             /\ feed' = [read EXCEPT ![f].last = t.lsn, ![f].backlog = After(@, t.lsn)]
             /\ Deliver(f, [lsn |-> t.lsn, id |-> t.id, good |-> good])
    <3> DEFINE b == After(F.backlog, t.lsn)
               G == Took(F, F.queue, b, t.lsn, F.seen \cup {t.id}, t.lsn)
    <3>1. b \in Seq(Batch)
      <4> DEFINE q == F.backlog
                 l == t.lsn
      <4>1. q \in Seq(Batch) /\ l \in Int
        BY <1>3, <2>3
      <4> HIDE DEF q, l
      <4>2. After(q, l) \in Seq(Batch)
        BY <4>1, AfterFacts
      <4> QED
        BY <4>2 DEF q, l
    <3>2. feed' = [feed EXCEPT ![f] = [F EXCEPT !.pos = t.lsn, !.seen = F.seen \cup {t.id},
                                                !.last = t.lsn, !.backlog = b]]
      <4>1. read = [feed EXCEPT ![f] = [F EXCEPT !.pos = t.lsn, !.seen = F.seen \cup {t.id}]]
        OBVIOUS
      <4>2. read[f] = [F EXCEPT !.pos = t.lsn, !.seen = F.seen \cup {t.id}]
        BY <4>1
      <4>3. feed' = [read EXCEPT ![f] = [read[f] EXCEPT !.last = t.lsn,
                                                        !.backlog = After(read[f].backlog, t.lsn)]]
        <5> HIDE DEF read, t, good, b
        <5> QED
          BY ONLY <2>6
      <4>4. read[f].backlog = F.backlog
        BY <1>2, <4>2 DEF FeedState
      <4> HIDE DEF b
      <4>5. b = After(read[f].backlog, t.lsn)
        BY <4>4 DEF b
      <4>6. [read[f] EXCEPT !.last = t.lsn, !.backlog = b]
            = [F EXCEPT !.pos = t.lsn, !.seen = F.seen \cup {t.id}, !.last = t.lsn, !.backlog = b]
        BY <1>2, <4>2 DEF FeedState
      <4> DEFINE H == [F EXCEPT !.pos = t.lsn, !.seen = F.seen \cup {t.id}, !.last = t.lsn,
                                !.backlog = b]
                 K == [F EXCEPT !.pos = t.lsn, !.seen = F.seen \cup {t.id}]
      <4>7. feed' = [read EXCEPT ![f] = H] /\ read = [feed EXCEPT ![f] = K]
        BY <4>1, <4>3, <4>5, <4>6
      <4> HIDE DEF H, K, read
      <4>8. feed' = [feed EXCEPT ![f] = H]
        BY <4>7
      <4> QED
        BY <4>8 DEF H
    <3> HIDE DEF b
    <3>3. [F EXCEPT !.pos = t.lsn, !.seen = F.seen \cup {t.id}, !.last = t.lsn, !.backlog = b] = G
      BY <1>2 DEF Took, FeedState
    <3>4. G \in FeedState
      <4>1. t.lsn \in Places
        BY <2>3 DEF Places
      <4> QED
        <5> DEFINE s == F.seen \cup {t.id}
                   l == t.lsn
        <5>1. s \in SUBSET Ids /\ l \in Nat /\ l \in Places /\ F \in FeedState
          BY <1>2, <1>3, <2>3, <4>1
        <5>2. G = Took(F, F.queue, b, l, s, l)
          OBVIOUS
        <5> HIDE DEF s, l, t, F, G
        <5> QED
          BY ONLY <1>3, <3>1, <5>1, <5>2, FeedTook
    <3> HIDE DEF G
    <3>5. Becomes(f, G)
      BY <3>2, <3>3, <3>4, FeedSet
    <3> QED
      BY <1>1, <1>5, <2>1, <2>6, <3>1, <3>5 DEF G, b
  <2> QED
    BY <2>2, <2>4, <2>5, <2>6
<1> QED
  BY <1>4, <1>5

\* The feeds a poll, a sleep and the end of a feed leave.
LEMMA PollBacklogFacts ==
  ASSUME TypeOK, NEW f \in Feeds, PollBacklog(f)
  PROVE  /\ CaughtUp(f) /\ feed[f].backlog # <<>>
         /\ UNCHANGED <<log, ids, wal, reports, writer, process, hub>>
         /\ Head(feed[f].backlog) \in Batch /\ Tail(feed[f].backlog) \in Seq(Batch)
         /\ \/ /\ NewTo(f, Head(feed[f].backlog)) /\ Deliver(f, Live(Head(feed[f].backlog)))
               /\ Becomes(f, Took(feed[f], feed[f].queue, Tail(feed[f].backlog),
                                  Head(feed[f].backlog).lsn, feed[f].seen, feed[f].pos))
            \/ /\ ~NewTo(f, Head(feed[f].backlog)) /\ UNCHANGED eaten
               /\ Becomes(f, Took(feed[f], feed[f].queue, Tail(feed[f].backlog),
                                  feed[f].last, feed[f].seen, feed[f].pos))
<1> USE DEF TypeOK
<1> DEFINE F == feed[f]
           b == Head(F.backlog)
           r == Tail(F.backlog)
<1>1. /\ CaughtUp(f) /\ F.backlog # <<>>
      /\ UNCHANGED <<log, ids, wal, reports, writer, process, hub>>
      /\ IF NewTo(f, b)
         THEN /\ feed' = [feed EXCEPT ![f] = [F EXCEPT !.backlog = r, !.last = b.lsn]]
              /\ Deliver(f, Live(b))
         ELSE feed' = [feed EXCEPT ![f] = [F EXCEPT !.backlog = r]] /\ UNCHANGED eaten
  BY DEF PollBacklog
<1>2. F \in FeedState
  OBVIOUS
<1>3. /\ F.queue \in Seq(Batch) /\ F.backlog \in Seq(Batch) /\ F.last \in Places
      /\ F.seen \in SUBSET Ids /\ F.pos \in Nat
  BY <1>2, FeedFields
<1>4. b \in Batch /\ r \in Seq(Batch)
  BY <1>1, <1>3, HeadTail
<1> HIDE DEF b, r
<1>5. b.lsn \in Places
  BY <1>4 DEF Batch, Places
<1>6. CASE NewTo(f, b)
  <2> DEFINE G == Took(F, F.queue, r, b.lsn, F.seen, F.pos)
  <2>1. [F EXCEPT !.backlog = r, !.last = b.lsn] = G
    BY <1>2 DEF Took, FeedState
  <2>2. G \in FeedState
    BY <1>2, <1>3, <1>4, <1>5, FeedTook
  <2>3. feed' = [feed EXCEPT ![f] = G]
    BY <1>1, <1>6, <2>1
  <2> HIDE DEF G
  <2>4. Becomes(f, G)
    BY <2>2, <2>3, FeedSet
  <2> QED
    BY <1>1, <1>4, <1>6, <2>4 DEF G, b, r
<1>7. CASE ~NewTo(f, b)
  <2> DEFINE G == Took(F, F.queue, r, F.last, F.seen, F.pos)
  <2>1. [F EXCEPT !.backlog = r] = G
    BY <1>2 DEF Took, FeedState
  <2>2. G \in FeedState
    BY <1>2, <1>3, <1>4, FeedTook
  <2>3. feed' = [feed EXCEPT ![f] = G]
    BY <1>1, <1>7, <2>1
  <2> HIDE DEF G
  <2>4. Becomes(f, G)
    BY <2>2, <2>3, FeedSet
  <2> QED
    BY <1>1, <1>4, <1>7, <2>4 DEF G, b, r
<1> QED
  BY <1>6, <1>7

LEMMA PollQueueFacts ==
  ASSUME TypeOK, NEW f \in Feeds, PollQueue(f)
  PROVE  /\ CaughtUp(f) /\ feed[f].backlog = <<>> /\ feed[f].queue # <<>>
         /\ UNCHANGED <<log, ids, wal, reports, writer, process, hub>>
         /\ Head(feed[f].queue) \in Batch /\ Tail(feed[f].queue) \in Seq(Batch)
         /\ Deliver(f, Live(Head(feed[f].queue)))
         /\ Becomes(f, Took(feed[f], Tail(feed[f].queue), feed[f].backlog,
                            Head(feed[f].queue).lsn, feed[f].seen, feed[f].pos))
<1> USE DEF TypeOK
<1> DEFINE F == feed[f]
           b == Head(F.queue)
           r == Tail(F.queue)
           G == Took(F, r, F.backlog, b.lsn, F.seen, F.pos)
<1>1. /\ CaughtUp(f) /\ F.backlog = <<>> /\ F.queue # <<>>
      /\ UNCHANGED <<log, ids, wal, reports, writer, process, hub>>
      /\ feed' = [feed EXCEPT ![f] = [F EXCEPT !.queue = r, !.last = b.lsn]]
      /\ Deliver(f, Live(b))
  BY DEF PollQueue
<1>2. F \in FeedState
  OBVIOUS
<1>3. /\ F.queue \in Seq(Batch) /\ F.backlog \in Seq(Batch) /\ F.last \in Places
      /\ F.seen \in SUBSET Ids /\ F.pos \in Nat
  BY <1>2, FeedFields
<1>4. b \in Batch /\ r \in Seq(Batch)
  BY <1>1, <1>3, HeadTail
<1> HIDE DEF b, r
<1>5. b.lsn \in Places
  BY <1>4 DEF Batch, Places
<1>6. [F EXCEPT !.queue = r, !.last = b.lsn] = G
  BY <1>2 DEF Took, FeedState
<1>7. G \in FeedState
  BY <1>2, <1>3, <1>4, <1>5, FeedTook
<1>8. feed' = [feed EXCEPT ![f] = G]
  BY <1>1, <1>6
<1> HIDE DEF G
<1>9. Becomes(f, G)
  BY <1>7, <1>8, FeedSet
<1> QED
  BY <1>1, <1>4, <1>9 DEF G, b, r

LEMMA PollLaggedFacts ==
  ASSUME TypeOK, NEW f \in Feeds, PollLagged(f)
  PROVE  /\ CaughtUp(f) /\ feed[f].backlog = <<>> /\ feed[f].queue = <<>>
         /\ feed[f].status = "lagged"
         /\ UNCHANGED <<log, ids, wal, reports, writer, process, hub, eaten>>
         /\ Becomes(f, Ended(feed[f], <<>>))
<1> USE DEF TypeOK
<1> DEFINE F == feed[f]
           G == Ended(F, <<>>)
<1>1. /\ CaughtUp(f) /\ F.backlog = <<>> /\ F.queue = <<>> /\ F.status = "lagged"
      /\ UNCHANGED <<log, ids, wal, reports, writer, process, hub, eaten>>
      /\ feed' = [feed EXCEPT ![f] = [F EXCEPT !.status = "closed", !.errored = TRUE]]
  BY DEF PollLagged
<1>2. F \in FeedState
  OBVIOUS
<1>3. [F EXCEPT !.status = "closed", !.errored = TRUE] = G
  BY <1>1, <1>2 DEF Ended, FeedState
<1>4. G \in FeedState
  <2>1. <<>> \in Seq(Batch)
    OBVIOUS
  <2> QED
    BY <1>2, <2>1, FeedEnded, Zenon
<1> HIDE DEF G
<1>5. Becomes(f, G)
  BY <1>1, <1>3, <1>4, FeedSet
<1> QED
  BY <1>1, <1>5 DEF G

LEMMA SleepFacts ==
  ASSUME TypeOK, NEW f \in Feeds, Sleep(f)
  PROVE  /\ CaughtUp(f)
         /\ UNCHANGED <<log, ids, wal, reports, writer, process, hub, eaten>>
         /\ Becomes(f, Slept(feed[f]))
<1> USE DEF TypeOK
<1> DEFINE F == feed[f]
           G == Slept(F)
<1>1. /\ CaughtUp(f)
      /\ UNCHANGED <<log, ids, wal, reports, writer, process, hub, eaten>>
      /\ feed' = [feed EXCEPT ![f] = [F EXCEPT !.asleep = TRUE]]
  BY DEF Sleep
<1>2. F \in FeedState
  OBVIOUS
<1>3. [F EXCEPT !.asleep = TRUE] = G
  BY DEF Slept
<1>4. G \in FeedState
  BY <1>2, FeedSlept, Zenon
<1> HIDE DEF G
<1>5. Becomes(f, G)
  BY <1>1, <1>3, <1>4, FeedSet
<1> QED
  BY <1>1, <1>5 DEF G

\* Closing a feed.
LEMMA ClosedFacts ==
  ASSUME NEW F \in FeedState
  PROVE  /\ Closed(F) \in FeedState
         /\ F.status \in {"none", "closed"} => Closed(F) = F
         /\ F.status \notin {"none", "closed"} => Closed(F) = Pushed(F, <<>>, "closed")
<1>1. <<>> \in Seq(Batch) /\ "closed" \in Statuses
  BY DEF Statuses
<1>2. Pushed(F, <<>>, "closed") \in FeedState
  BY <1>1, FeedPushed, Zenon
<1>3. F.status \in {"none", "closed"} => Closed(F) = F
  BY DEF Closed
<1>4. F.status \notin {"none", "closed"} => Closed(F) = Pushed(F, <<>>, "closed")
  BY DEF Closed, Pushed, FeedState
<1> QED
  BY <1>2, <1>3, <1>4

LEMMA CloseFeedFacts ==
  ASSUME TypeOK, NEW f \in Feeds, close_feed(f)
  PROVE  /\ "close" \in Ops /\ feed[f].status \notin {"none", "closed"}
         /\ feed[f].hist # "wanted"
         /\ UNCHANGED <<log, ids, wal, reports, writer, process, hub, eaten>>
         /\ Becomes(f, Pushed(feed[f], <<>>, "closed"))
<1> USE DEF TypeOK
<1> DEFINE F == feed[f]
           G == Pushed(F, <<>>, "closed")
<1>1. /\ "close" \in Ops /\ F.status \notin {"none", "closed"} /\ F.hist # "wanted"
      /\ UNCHANGED <<log, ids, wal, reports, writer, process, hub, eaten>>
      /\ feed' = [feed EXCEPT ![f] = Closed(F)]
  BY DEF close_feed, May
<1>2. F \in FeedState
  OBVIOUS
<1>3. Closed(F) = G /\ G \in FeedState
  <2>1. Closed(F) \in FeedState /\ Closed(F) = G
    BY <1>1, <1>2, ClosedFacts
  <2> QED
    BY <2>1
<1> HIDE DEF G
<1>4. Becomes(f, G)
  BY <1>1, <1>3, FeedSet
<1> QED
  BY <1>1, <1>4 DEF G

LEMMA DropFacts ==
  ASSUME TypeOK, NEW f \in Feeds, Drop(f)
  PROVE  /\ feed[f].status # "none" /\ feed[f].hist # "wanted"
         /\ UNCHANGED <<log, ids, wal, reports, writer, process, hub, eaten>>
         /\ Becomes(f, NoFeed)
<1> USE DEF TypeOK
<1>1. /\ feed[f].status # "none" /\ feed[f].hist # "wanted"
      /\ UNCHANGED <<log, ids, wal, reports, writer, process, hub, eaten>>
      /\ feed' = [feed EXCEPT ![f] = NoFeed]
  BY DEF Drop
<1> QED
  BY <1>1, NoFeedFields, FeedSet

-----------------------------------------------------------------------------
(* What the hub's steps do.                                                *)

\* The window after batches were added to it or its limit changed.
LEMMA TrimFacts ==
  ASSUME NEW r \in Seq(Batch), NEW limit \in Nat, NEW fl \in Nat
  PROVE  /\ Trimmed(r, limit) \in Seq(Batch) /\ FloorAfter(r, limit, fl) \in Nat
         /\ \E n \in 0 .. Len(r) :
              /\ Len(Trimmed(r, limit)) = Len(r) - n
              /\ \A k \in 1 .. Len(r) - n : Trimmed(r, limit)[k] = r[n + k]
              /\ FloorAfter(r, limit, fl) = IF n = 0 THEN fl ELSE r[n].lsn
<1> DEFINE n == Bigger(Len(r) - limit, 0)
<1>1. Len(r) \in Nat /\ \A k \in 1 .. Len(r) : r[k] \in Batch
  OBVIOUS
<1>2. n \in 0 .. Len(r) /\ (Len(r) > limit <=> n # 0) /\ (Len(r) > limit => n = Len(r) - limit)
  BY <1>1 DEF Bigger
<1>3. Trimmed(r, limit) = SubSeq(r, n + 1, Len(r))
  BY DEF Trimmed
<1>4. FloorAfter(r, limit, fl) = IF n = 0 THEN fl ELSE r[n].lsn
  BY <1>2 DEF FloorAfter
<1> HIDE DEF n
<1>5. /\ SubSeq(r, n + 1, Len(r)) \in Seq(Batch)
      /\ Len(SubSeq(r, n + 1, Len(r))) = Len(r) - n
      /\ \A k \in 1 .. Len(r) - n : SubSeq(r, n + 1, Len(r))[k] = r[n + k]
  BY <1>2
<1>6. FloorAfter(r, limit, fl) \in Nat
  BY <1>1, <1>2, <1>4 DEF Batch
<1> QED
  BY <1>2, <1>3, <1>4, <1>5, <1>6

LEMMA ReleaseFacts ==
  ASSUME TypeOK, NEW bs \in Seq(Batch), Release(bs)
  PROVE  /\ stream' = stream \o bs /\ stream' \in Seq(Batch)
         /\ ring \o bs \in Seq(Batch)
         /\ ring' = Trimmed(ring \o bs, retention) /\ ring' \in Seq(Batch)
         /\ ring_floor' = FloorAfter(ring \o bs, retention, ring_floor) /\ ring_floor' \in Nat
         /\ last_lsn' = (IF bs = <<>> THEN last_lsn ELSE bs[Len(bs)].lsn) /\ last_lsn' \in Nat
         /\ feed' \in [Feeds -> FeedState]
         /\ \A f \in Feeds : feed'[f] = Push(feed[f], bs)
<1> USE DEF TypeOK
<1>1. stream \o bs \in Seq(Batch) /\ ring \o bs \in Seq(Batch)
  OBVIOUS
<1>2. retention \in Nat
  BY ChangeHubAssumption
<1>3. /\ Trimmed(ring \o bs, retention) \in Seq(Batch)
      /\ FloorAfter(ring \o bs, retention, ring_floor) \in Nat
  BY <1>1, <1>2, TrimFacts
<1>4. bs # <<>> => bs[Len(bs)].lsn \in Nat
  <2>1. bs # <<>> => bs[Len(bs)] \in Batch
    OBVIOUS
  <2> QED
    BY <2>1 DEF Batch
<1>5. feed' = [f \in Feeds |-> Push(feed[f], bs)]
  BY DEF Release
<1>6. \A f \in Feeds : Push(feed[f], bs) \in FeedState
  <2> TAKE f \in Feeds
  <2>1. feed[f] \in FeedState
    OBVIOUS
  <2> QED
    BY <2>1, PushKeeps
<1> QED
  BY <1>1, <1>3, <1>4, <1>5, <1>6 DEF Release

LEMMA PublishFacts ==
  ASSUME TypeOK, Modes, NEW lsn \in Nat, NEW id \in Ids, NEW needs \in Nat,
         active, publish_when_durable(lsn, id, needs)
  PROVE  LET b == [lsn |-> lsn, id |-> id] IN
         \/ closed /\ UNCHANGED <<hub, feed>>
         \/ SendsOn(b, needs)
         \/ Parks(b, needs)
<1> USE DEF TypeOK, SendsOn, Parks
<1> DEFINE b == [lsn |-> lsn, id |-> id]
           w == [needs |-> needs, batch |-> b]
<1>1. CASE closed
  BY <1>1 DEF publish_when_durable
<1>2. CASE ~closed
  <2>1. /\ last_assigned' = lsn
        /\ IF MayRelease(needs)
           THEN Release(<<b>>) /\ UNCHANGED parked
           ELSE /\ parked' = Append(parked, w)
                /\ UNCHANGED <<last_lsn, ring, ring_floor, stream, feed>>
        /\ UNCHANGED <<active, closed, deferred, durable, retention, since>>
    BY <1>2 DEF publish_when_durable
  <2>2. b \in Batch /\ w \in Waiting
    BY DEF Batch, Waiting
  <2> HIDE DEF b, w
  <2>a. w.batch = b
    BY DEF w
  <2>3. parked \in Seq(Waiting) /\ stream \in Seq(Batch)
    OBVIOUS
  <2>4. CASE MayRelease(needs)
    <3>1. parked = <<>>
      BY <2>4 DEF MayRelease, Modes
    <3>2. <<b>> \in Seq(Batch) /\ Len(<<b>>) = 1 /\ <<b>>[1] = b
      BY <2>2
    <3>3. Release(<<b>>) /\ UNCHANGED parked
      BY <2>1, <2>4
    <3>4. stream' = stream \o <<b>> /\ stream' \in Seq(Batch)
      BY <3>2, <3>3, ReleaseFacts
    <3>5. /\ Len(stream') = Len(stream) + 1 /\ stream'[Len(stream) + 1] = b
          /\ \A k \in 1 .. Len(stream) : stream'[k] = stream[k]
      BY <2>2, <3>4
    <3>6. Len(parked) = 0 /\ Len(parked') = 0 /\ parked' \in Seq(Waiting)
      BY <2>3, <3>1, <3>3
    <3>7. /\ Len(Announced) = Len(stream) /\ Len(stream) \in Nat
          /\ \A k \in 1 .. Len(stream) : Announced[k] = stream[k]
      BY <2>3, <3>6, AnnouncedFacts
    <3>8. (parked \in Seq(Waiting) /\ stream \in Seq(Batch) =>
            /\ Len(Announced) = Len(stream) + Len(parked)
            /\ \A k \in 1 .. Len(stream) : Announced[k] = stream[k])'
      BY AnnouncedFacts, PTL
    <3>9. Len(Announced') = Len(stream') /\ \A k \in 1 .. Len(stream') : Announced'[k] = stream'[k]
      BY <3>4, <3>5, <3>6, <3>7, <3>8
    <3>10. Announces(b)
      BY <3>5, <3>7, <3>9 DEF Announces
    <3> QED
      BY <1>2, <2>1, <2>2, <2>4, <3>1, <3>2, <3>3, <3>10 DEF b
  <2>5. CASE ~MayRelease(needs)
    <3>1. deferred
      BY <2>5 DEF MayRelease
    <3>2. parked' = Append(parked, w) /\ UNCHANGED <<last_lsn, ring, ring_floor, stream, feed>>
      BY <2>1, <2>5
    <3>3. /\ parked' \in Seq(Waiting) /\ Len(parked') = Len(parked) + 1
          /\ \A k \in 1 .. Len(parked) : parked'[k] = parked[k]
          /\ parked'[Len(parked) + 1] = w /\ Len(parked) \in Nat
      BY <2>2, <2>3, <3>2, AppendFacts
    <3>4. /\ Len(Announced) = Len(stream) + Len(parked) /\ Len(stream) \in Nat
          /\ \A k \in 1 .. Len(stream) : Announced[k] = stream[k]
          /\ \A k \in 1 .. Len(parked) : Announced[Len(stream) + k] = parked[k].batch
      BY <2>3, AnnouncedFacts
    <3>5. (parked \in Seq(Waiting) /\ stream \in Seq(Batch) =>
            /\ Len(Announced) = Len(stream) + Len(parked)
            /\ \A k \in 1 .. Len(stream) : Announced[k] = stream[k]
            /\ \A k \in 1 .. Len(parked) : Announced[Len(stream) + k] = parked[k].batch)'
      BY AnnouncedFacts, PTL
    <3>6. /\ Len(Announced') = Len(stream) + Len(parked')
          /\ \A k \in 1 .. Len(stream) : Announced'[k] = stream[k]
          /\ \A k \in 1 .. Len(parked') : Announced'[Len(stream) + k] = parked'[k].batch
      BY <2>3, <3>2, <3>3, <3>5
    <3>7. ASSUME NEW k \in 1 .. Len(Announced)
          PROVE  Announced'[k] = Announced[k]
      <4>1. CASE k <= Len(stream)
        BY <3>4, <3>6, <4>1
      <4>2. CASE k > Len(stream)
        <5> DEFINE j == k - Len(stream)
        <5>1. j \in 1 .. Len(parked) /\ k = Len(stream) + j
          BY <3>4, <4>2
        <5>2. j \in 1 .. Len(parked')
          BY <3>3, <5>1
        <5> HIDE DEF j
        <5>3. Announced[k] = parked[j].batch
          BY <3>4, <5>1
        <5>4. Announced'[k] = parked'[j].batch
          BY <3>6, <5>1, <5>2
        <5> QED
          BY <3>3, <5>1, <5>3, <5>4
      <4> QED
        BY <3>4, <4>1, <4>2
    <3>8. Announced'[Len(Announced) + 1] = b
      <4>1. Len(parked) + 1 \in 1 .. Len(parked')
        BY <3>3
      <4>2. Announced'[Len(stream) + (Len(parked) + 1)] = b
        BY <2>a, <3>3, <3>6, <4>1
      <4> QED
        BY <3>3, <3>4, <4>2
    <3>9. Announces(b)
      BY <3>3, <3>4, <3>6, <3>7, <3>8 DEF Announces
    <3> QED
      BY <1>2, <2>1, <2>2, <2>5, <3>1, <3>2, <3>9 DEF b, w
  <2> QED
    BY <2>4, <2>5
<1> QED
  BY <1>1, <1>2

\* A report hands out the front of what is parked and changes nothing else of
\* what is announced.
LEMMA OnDurableFacts ==
  ASSUME TypeOK, on_durable
  PROVE  /\ UNCHANGED <<log, ids, wal, writer, process, eaten>>
         /\ \E d \in reports :
              /\ reports' = reports \ {d}
              /\ \/ d <= durable /\ UNCHANGED <<hub, feed>>
                 \/ /\ d > durable /\ durable' = d
                    /\ Reaches(d)
<1> USE DEF TypeOK, HandsOut, Reaches
<1>1. UNCHANGED <<log, ids, wal, writer, process, eaten>>
  BY DEF on_durable
<1>2. PICK d \in reports :
        /\ reports' = reports \ {d}
        /\ IF d <= durable
           THEN UNCHANGED <<hub, feed>>
           ELSE LET n == Ready(d) IN
                /\ durable' = d
                /\ parked' = SubSeq(parked, n + 1, Len(parked))
                /\ Release(SubSeq(Batches(parked), 1, n))
                /\ UNCHANGED <<active, closed, last_assigned, deferred, retention, since>>
  BY DEF on_durable
<1>3. CASE d <= durable
  BY <1>1, <1>2, <1>3
<1>4. CASE ~(d <= durable)
  <2> DEFINE n == Ready(d)
             bt == Batches(parked)
             bs == SubSeq(bt, 1, n)
  <2>1. /\ durable' = d
        /\ parked' = SubSeq(parked, n + 1, Len(parked))
        /\ Release(bs)
        /\ UNCHANGED <<active, closed, last_assigned, deferred, retention, since>>
    BY <1>2, <1>4
  <2>2. d \in Nat /\ parked \in Seq(Waiting) /\ stream \in Seq(Batch)
    OBVIOUS
  <2>3. /\ n \in 0 .. Len(parked)
        /\ \A i \in 1 .. n : parked[i].needs <= d
        /\ n < Len(parked) => parked[n + 1].needs > d
    BY <2>2, ReadyFacts
  <2> HIDE DEF n
  <2>4. /\ bt \in Seq(Batch) /\ Len(bt) = Len(parked)
        /\ \A k \in 1 .. Len(parked) : bt[k] = parked[k].batch
    BY <2>2, BatchesFacts
  <2> HIDE DEF bt
  <2>5. bs \in Seq(Batch) /\ Len(bs) = n /\ \A k \in 1 .. n : bs[k] = bt[k]
    BY <2>3, <2>4, PartFacts
  <2>6. bs \in Seq(Batch) /\ Len(bs) = n /\ \A k \in 1 .. n : bs[k] = parked[k].batch
    <3>1. \A k \in 1 .. n : k \in 1 .. Len(parked)
      BY <2>2, <2>3
    <3> QED
      BY <2>4, <2>5, <3>1
  <2> HIDE DEF bs
  <2>7. /\ parked' \in Seq(Waiting) /\ Len(parked') = Len(parked) - n
        /\ \A k \in 1 .. Len(parked') : parked'[k] = parked[n + k]
    <3>1. /\ SubSeq(parked, n + 1, Len(parked)) \in Seq(Waiting)
          /\ Len(SubSeq(parked, n + 1, Len(parked))) = Len(parked) - n
          /\ \A k \in 1 .. Len(parked) - n :
               SubSeq(parked, n + 1, Len(parked))[k] = parked[n + k]
      BY <2>2, <2>3
    <3> QED
      BY <2>1, <3>1
  <2>8. Len(parked') > 0 => parked'[1].needs > d
    <3> SUFFICES ASSUME Len(parked') > 0 PROVE parked'[1].needs > d
      OBVIOUS
    <3>1. n < Len(parked) /\ 1 \in 1 .. Len(parked')
      BY <2>2, <2>3, <2>7
    <3> QED
      BY <2>3, <2>7, <3>1
  <2>9. stream' = stream \o bs /\ stream' \in Seq(Batch)
    BY <2>1, <2>6, ReleaseFacts
  <2>10. Announced' = Announced
    <3>1. /\ Announced \in Seq(Batch) /\ Len(Announced) = Len(stream) + Len(parked)
          /\ Len(stream) \in Nat /\ Len(parked) \in Nat
          /\ \A k \in 1 .. Len(stream) : Announced[k] = stream[k]
          /\ \A k \in 1 .. Len(parked) : Announced[Len(stream) + k] = parked[k].batch
      BY <2>2, AnnouncedFacts
    <3>2. (parked \in Seq(Waiting) /\ stream \in Seq(Batch) =>
            /\ Announced \in Seq(Batch) /\ Len(Announced) = Len(stream) + Len(parked)
            /\ \A k \in 1 .. Len(stream) : Announced[k] = stream[k]
            /\ \A k \in 1 .. Len(parked) : Announced[Len(stream) + k] = parked[k].batch)'
      BY AnnouncedFacts, PTL
    <3>3. /\ Announced' \in Seq(Batch) /\ Len(Announced') = Len(stream') + Len(parked')
          /\ \A k \in 1 .. Len(stream') : Announced'[k] = stream'[k]
          /\ \A k \in 1 .. Len(parked') : Announced'[Len(stream') + k] = parked'[k].batch
      BY <2>7, <2>9, <3>2
    <3>4. /\ Len(stream') = Len(stream) + n
          /\ \A k \in 1 .. Len(stream) : stream'[k] = stream[k]
          /\ \A k \in 1 .. n : stream'[Len(stream) + k] = bs[k]
      <4>1. /\ Len(stream') = Len(stream) + Len(bs)
            /\ \A k \in 1 .. Len(stream) : stream'[k] = stream[k]
            /\ \A k \in 1 .. Len(bs) : stream'[Len(stream) + k] = bs[k]
        <5>1. stream \in Seq(Batch) /\ bs \in Seq(Batch) /\ stream' = stream \o bs
          BY <2>2, <2>6, <2>9
        <5>2. /\ Len(stream \o bs) = Len(stream) + Len(bs)
              /\ \A k \in 1 .. Len(stream) : (stream \o bs)[k] = stream[k]
              /\ \A k \in 1 .. Len(bs) : (stream \o bs)[Len(stream) + k] = bs[k]
          BY ONLY <5>1
        <5> QED
          BY <5>1, <5>2
      <4> QED
        BY <2>6, <4>1
    <3>5. Len(Announced') = Len(Announced)
      BY <2>3, <2>7, <3>1, <3>3, <3>4
    <3>6. ASSUME NEW k \in 1 .. Len(Announced) PROVE Announced'[k] = Announced[k]
      <4>1. CASE k <= Len(stream)
        <5>1. k \in 1 .. Len(stream) /\ k \in 1 .. Len(stream')
          BY <2>3, <3>1, <3>4, <4>1
        <5> QED
          BY <3>1, <3>3, <3>4, <5>1
      <4>2. CASE k > Len(stream) /\ k <= Len(stream) + n
        <5> DEFINE j == k - Len(stream)
        <5>a. /\ n \in Nat /\ n <= Len(parked) /\ Len(parked) \in Nat /\ Len(stream) \in Nat
              /\ k \in Nat /\ Len(stream') = Len(stream) + n
          BY <2>3, <3>1, <3>4
        <5>1. j \in 1 .. n /\ j \in 1 .. Len(parked) /\ k = Len(stream) + j /\ k \in 1 .. Len(stream')
          BY ONLY <5>a, <4>2
        <5> HIDE DEF j
        <5>2. Announced'[k] = stream'[k] /\ stream'[k] = bs[j]
          BY <3>3, <3>4, <5>1
        <5>3. bs[j] = parked[j].batch
          BY <2>6, <5>1
        <5>4. Announced[k] = parked[j].batch
          BY <3>1, <5>1
        <5> QED
          BY <5>2, <5>3, <5>4
      <4>3. CASE k > Len(stream) + n
        <5> DEFINE j == k - (Len(stream) + n)
        <5>a. n \in Nat /\ k \in Nat /\ k <= Len(stream) + Len(parked)
          BY <2>3, <3>1
        <5>1. j \in 1 .. Len(parked') /\ n + j \in 1 .. Len(parked)
              /\ k = Len(stream') + j /\ k = Len(stream) + (n + j)
          <6>1. Len(parked') = Len(parked) - n /\ Len(stream') = Len(stream) + n
                /\ Len(stream) \in Nat /\ Len(parked) \in Nat
            BY <2>7, <3>1, <3>4
          <6> QED
            BY ONLY <5>a, <6>1, <4>3
        <5> HIDE DEF j
        <5>2. Announced'[k] = parked'[j].batch
          BY <3>3, <5>1
        <5>3. Announced[k] = parked[n + j].batch
          BY <3>1, <5>1
        <5> QED
          BY <2>7, <5>1, <5>2, <5>3
      <4> QED
        BY <2>3, <3>1, <4>1, <4>2, <4>3
    <3> QED
      BY <3>1, <3>3, <3>5, <3>6, SameSeq
  <2>11. d > durable
    BY <1>4
  <2> QED
    BY <1>1, <1>2, <2>1, <2>3, <2>6, <2>7, <2>8, <2>10, <2>11
<1> QED
  BY <1>3, <1>4

-----------------------------------------------------------------------------
(* HubInv: batches come out in commit order and nothing durable is kept    *)
(* from the hub.                                                           *)

LEMMA WriterFields ==
  ASSUME writer \in WriterState
  PROVE  /\ writer.at \in {"idle", "publish", "reset", "read", "activate"}
         /\ writer.lsn \in Nat /\ writer.id \in Ids \cup {0}
  BY DEF WriterState

LEMMA IdleType == Idle \in WriterState /\ Idle.at = "idle"
  BY DEF Idle, WriterState

\* An item at the end of the log.
LEMMA LogGrows ==
  ASSUME TypeOK, LogOrder, ids < MaxItems, NEW kind \in {"tx", "restore"}, NEW lsn \in Nat,
         log' = Append(log, Item(kind, lsn)), ids' = ids + 1, wal_backed' = wal_backed,
         next_lsn' \in Nat, next_lsn' >= next_lsn,
         wal_backed => /\ lsn < next_lsn' /\ lsn >= next_lsn - 1
                       /\ kind = "tx" => lsn >= next_lsn
  PROVE  /\ log' \in Seq(Items) /\ ids' \in 0 .. MaxItems /\ LogOrder'
         /\ Len(log) \in Nat /\ Len(log') = Len(log) + 1
         /\ DOMAIN log = 1 .. Len(log) /\ DOMAIN log' = 1 .. Len(log) + 1
         /\ \A i \in DOMAIN log : i \in DOMAIN log' /\ log'[i] = log[i]
         /\ log'[Len(log) + 1] = Item(kind, lsn) /\ Item(kind, lsn) \in Items
<1> DEFINE e == Item(kind, lsn)
<1>1. MaxItems \in Int /\ ids \in Nat /\ next_lsn \in Nat /\ log \in Seq(Items)
  BY ChangeHubAssumption DEF TypeOK
<1>2. e \in Items /\ e.id = ids + 1 /\ e.lsn = lsn /\ e.kind = kind
  BY <1>1 DEF Item, Items, Ids
<1>3. log' = Append(log, e)
  OBVIOUS
<1> HIDE DEF e
<1>4. /\ log' \in Seq(Items) /\ Len(log) \in Nat /\ Len(log') = Len(log) + 1
      /\ DOMAIN log = 1 .. Len(log) /\ DOMAIN log' = 1 .. Len(log) + 1
      /\ \A i \in DOMAIN log : log'[i] = log[i]
      /\ log'[Len(log) + 1] = e
  BY <1>1, <1>2, <1>3, AppendFacts
<1>5. \A i \in DOMAIN log : i \in DOMAIN log' /\ log'[i] = log[i]
  BY <1>4
<1>6. \A i \in DOMAIN log' : i \in DOMAIN log \/ i = Len(log) + 1
  BY <1>4
<1>7. \A i \in DOMAIN log : log[i].id \in Nat /\ log[i].lsn \in Nat
  <2>1. \A i \in DOMAIN log : log[i] \in Items
    BY <1>1
  <2> QED
    BY <2>1 DEF Items, Ids
<1>8. \A i \in DOMAIN log' : log'[i].id <= ids'
  BY <1>1, <1>2, <1>4, <1>6, <1>7 DEF LogOrder
<1>9. ASSUME NEW i \in DOMAIN log', NEW j \in DOMAIN log', i < j
      PROVE  /\ log'[i].id < log'[j].id
             /\ wal_backed => /\ log'[i].lsn <= log'[j].lsn
                              /\ log'[j].kind = "tx" => log'[i].lsn < log'[j].lsn
  <2>1. i \in DOMAIN log
    BY <1>4, <1>9
  <2>2. CASE j \in DOMAIN log
    BY <1>9, <1>4, <2>1, <2>2 DEF LogOrder
  <2>3. CASE j = Len(log) + 1
    <3>1. log'[i] = log[i] /\ log'[j] = e
      BY <1>4, <2>1, <2>3
    <3>2. log[i].id <= ids /\ (wal_backed => log[i].lsn < next_lsn)
      BY <2>1 DEF LogOrder
    <3>3. log[i].id \in Nat /\ log[i].lsn \in Nat
      BY <1>7, <2>1
    <3>4. /\ e.id = ids + 1 /\ e.lsn = lsn /\ e.kind = kind
          /\ ids \in Nat /\ next_lsn \in Nat
          /\ (wal_backed => lsn >= next_lsn - 1 /\ (kind = "tx" => lsn >= next_lsn))
      BY <1>1, <1>2
    <3> QED
      BY ONLY <3>1, <3>2, <3>3, <3>4, lsn \in Nat
  <2> QED
    BY <1>6, <2>2, <2>3
<1>10. wal_backed => \A i \in DOMAIN log' : log'[i].lsn < next_lsn'
  <2> SUFFICES ASSUME wal_backed, NEW i \in DOMAIN log' PROVE log'[i].lsn < next_lsn'
    OBVIOUS
  <2>1. CASE i \in DOMAIN log
    BY <1>1, <1>4, <1>7, <2>1 DEF LogOrder
  <2>2. CASE i = Len(log) + 1
    BY <1>2, <1>4, <2>2
  <2> QED
    BY <1>6, <2>1, <2>2
<1>11. wal_backed => \A i \in DOMAIN log' : log'[i].kind = "tx" => log'[i].lsn > 0
  <2> SUFFICES ASSUME wal_backed, NEW i \in DOMAIN log', log'[i].kind = "tx"
               PROVE  log'[i].lsn > 0
    OBVIOUS
  <2>1. CASE i \in DOMAIN log
    BY <1>4, <2>1 DEF LogOrder
  <2>2. CASE i = Len(log) + 1
    <3>1. next_lsn > 0
      BY DEF TypeOK
    <3> QED
      BY <1>1, <1>2, <1>4, <2>2, <3>1
  <2> QED
    BY <1>6, <2>1, <2>2
<1>12. LogOrder'
  BY <1>8, <1>9, <1>10, <1>11 DEF LogOrder
<1>13. ids' \in 0 .. MaxItems
  BY <1>1
<1> QED
  BY <1>2, <1>4, <1>5, <1>12, <1>13 DEF e

\* Nothing announced changes when the hub does not.
LEMMA AnnouncedKept ==
  ASSUME UNCHANGED <<stream, parked>>
  PROVE  Announced' = Announced
  BY DEF Announced, Batches

LEMMA InitHub == Init => HubInv
<1> SUFFICES ASSUME Init PROVE HubInv
  OBVIOUS
<1>1. TypeOK
  <2>1. \A f \in Feeds : feed[f] = NoFeed
    BY DEF Init
  <2>2. feed \in [Feeds -> FeedState]
    BY NoFeedFields DEF Init
  <2>3. NoLsn \in Places
    BY DEF Places
  <2>4. /\ token \in [Feeds -> Places] /\ begun \in [Feeds -> Places]
        /\ got \in [Feeds -> Seq(Delivered)]
    BY <2>3 DEF Init
  <2>5. /\ log \in Seq(Items) /\ parked \in Seq(Waiting) /\ ring \in Seq(Batch)
        /\ stream \in Seq(Batch)
    BY DEF Init
  <2>6. /\ bg_failure \in BOOLEAN /\ listener \in BOOLEAN /\ active \in BOOLEAN
        /\ closed \in BOOLEAN /\ deferred \in BOOLEAN
    BY Zenon DEF Init
  <2>7. wal_backed \in BOOLEAN /\ retention \in Retentions
    BY ChangeHubAssumption DEF Init
  <2>8. writer \in WriterState
    BY IdleType DEF Init
  <2>9. /\ ids \in 0 .. MaxItems /\ next_lsn \in Nat \ {0} /\ durable_lsn \in Nat
        /\ disk \in Nat /\ oldest \in Nat
        /\ bases \subseteq [lsn : Nat, has : SUBSET Ids] /\ reports \subseteq Nat
        /\ crashes \in Nat /\ last_lsn \in Nat /\ last_assigned \in Nat /\ durable \in Nat
        /\ ring_floor \in Nat /\ since \in Nat
    BY ChangeHubAssumption DEF Init
  <2> QED
    BY <2>2, <2>4, <2>5, <2>6, <2>7, <2>8, <2>9 DEF TypeOK
<1>2. DOMAIN log = {} /\ stream = <<>> /\ parked = <<>>
  BY DEF Init
<1>3. Announced = <<>> /\ DOMAIN Announced = {} /\ Len(Announced) = 0
  <2>1. DOMAIN Announced = 1 .. 0 /\ Announced \in Seq(Batch) /\ Len(Announced) = 0
    BY <1>1, <1>2, AnnouncedFacts DEF TypeOK
  <2> QED
    BY <2>1
<1>4. Modes
  <2>1. \A f \in Feeds : feed[f] = NoFeed
    BY DEF Init
  <2> QED
    BY <2>1, IdleType, NoFeedFields DEF Init, Modes
<1>5. LogOrder /\ WalOrder
  BY <1>2 DEF Init, LogOrder, WalOrder
<1>6. StreamInOrder /\ Numbers
  BY <1>2, <1>3, IdleType DEF Init, StreamInOrder, Numbers, Increasing
<1>7. Hears
  BY IdleType DEF Init, Hears
<1> QED
  BY <1>1, <1>4, <1>5, <1>6, <1>7 DEF HubInv

\* A writer that only appends to the WAL and the log changes nothing of the hub.
LEMMA CommitHub == ASSUME HubInv, Commit PROVE HubInv'
<1>0. TypeOK /\ Modes /\ LogOrder /\ WalOrder /\ StreamInOrder /\ Numbers /\ Hears
  BY DEF HubInv
<1>1. /\ ~closed /\ writer.at = "idle" /\ wal_backed /\ ids < MaxItems
      /\ log' = Append(log, Item("tx", next_lsn + 2)) /\ ids' = ids + 1
      /\ next_lsn' = next_lsn + 3
      /\ writer' = IF active THEN [at |-> "publish", lsn |-> next_lsn + 2, id |-> ids + 1]
                   ELSE Idle
  BY DEF Commit, Up
<1>2. /\ UNCHANGED <<durable_lsn, disk, oldest, bases, bg_failure, listener, reports>>
      /\ UNCHANGED <<process, hub, feed, eaten>>
  BY DEF Commit
<1>3. UNCHANGED <<crashes, wal_backed, active, closed, last_lsn, last_assigned, deferred,
                  durable, parked, ring, ring_floor, retention, stream, since, token,
                  begun, got>>
  BY <1>2 DEF process, hub, eaten
<1>4. next_lsn \in Nat /\ next_lsn + 2 \in Nat /\ next_lsn' \in Nat \ {0}
      /\ ids \in Nat /\ ids + 1 \in Ids
  BY <1>0, <1>1, ChangeHubAssumption DEF TypeOK, Ids
<1>5. log' \in Seq(Items) /\ ids' \in 0 .. MaxItems /\ LogOrder'
  BY <1>0, <1>1, <1>3, <1>4, LogGrows
<1>6. /\ writer' \in WriterState /\ writer'.at \in {"idle", "publish"}
      /\ writer'.at = "publish" => active /\ writer'.lsn = next_lsn' - 1 /\ writer'.id = ids'
  <2>1. CASE active
    <3>1. writer' = [at |-> "publish", lsn |-> next_lsn + 2, id |-> ids + 1]
      BY <1>1, <2>1
    <3> QED
      BY <1>1, <1>4, <2>1, <3>1 DEF WriterState
  <2>2. CASE ~active
    BY <1>1, <2>2, IdleType
  <2> QED
    BY <2>1, <2>2
<1>7. TypeOK'
  BY <1>0, <1>2, <1>3, <1>4, <1>5, <1>6 DEF TypeOK
<1>8. Modes'
  BY <1>0, <1>1, <1>2, <1>3, <1>6 DEF Modes
<1>9. WalOrder'
  BY <1>0, <1>1, <1>2, <1>4 DEF WalOrder, TypeOK
<1>10. Announced' = Announced
  BY <1>3, AnnouncedKept
<1>11. StreamInOrder'
  BY <1>0, <1>3, <1>10 DEF StreamInOrder, Increasing
<1>12. Numbers'
  <2>1. last_lsn' <= last_assigned'
    BY <1>0, <1>3 DEF Numbers
  <2>2. ASSUME NEW k \in DOMAIN Announced'
        PROVE  /\ Announced'[k].lsn <= last_assigned' /\ Announced'[k].id <= ids'
               /\ IF k <= Len(stream') THEN Announced'[k].lsn <= last_lsn'
                  ELSE Announced'[k].lsn > last_lsn'
               /\ writer'.at \in {"publish", "reset"} => Announced'[k].id < writer'.id
    <3>1. k \in DOMAIN Announced /\ Announced[k].id \in Nat
      <4>1. Announced \in Seq(Batch)
        BY <1>0, AnnouncedFacts DEF TypeOK
      <4>2. k \in DOMAIN Announced
        BY <1>10
      <4>3. Announced[k] \in Batch
        BY <4>1, <4>2
      <4> QED
        BY <4>2, <4>3 DEF Batch, Ids
    <3>2. /\ Announced[k].lsn <= last_assigned /\ Announced[k].id <= ids
          /\ IF k <= Len(stream) THEN Announced[k].lsn <= last_lsn
             ELSE Announced[k].lsn > last_lsn
      BY <1>0, <3>1 DEF Numbers
    <3> QED
      BY <1>1, <1>3, <1>4, <1>6, <1>10, <3>1, <3>2
  <2>3. wal_backed' /\ active' => last_assigned' <= (IF Marker THEN next_lsn' ELSE next_lsn' + 1)
    BY <1>0, <1>1, <1>3, <1>4 DEF Numbers, TypeOK
  <2>4. writer'.at = "publish" => last_assigned' < writer'.lsn
    BY <1>0, <1>1, <1>3, <1>4, <1>6 DEF Numbers, TypeOK
  <2> QED
    BY <1>1, <1>4, <1>6, <2>1, <2>2, <2>3, <2>4 DEF Numbers
<1>13. Hears'
  BY <1>0, <1>1, <1>2, <1>3, <1>6 DEF Hears
<1> QED
  BY <1>5, <1>7, <1>8, <1>9, <1>11, <1>12, <1>13 DEF HubInv

LEMMA AnnouncedTypes ==
  TypeOK => /\ Announced \in Seq(Batch) /\ DOMAIN Announced = 1 .. Len(stream) + Len(parked)
            /\ Len(stream) \in Nat /\ Len(parked) \in Nat
            /\ \A k \in DOMAIN Announced : Announced[k].id \in Nat /\ Announced[k].lsn \in Nat
<1> SUFFICES ASSUME TypeOK
             PROVE  /\ Announced \in Seq(Batch)
                    /\ DOMAIN Announced = 1 .. Len(stream) + Len(parked)
                    /\ Len(stream) \in Nat /\ Len(parked) \in Nat
                    /\ \A k \in DOMAIN Announced :
                         Announced[k].id \in Nat /\ Announced[k].lsn \in Nat
  OBVIOUS
<1>1. /\ Announced \in Seq(Batch) /\ DOMAIN Announced = 1 .. Len(stream) + Len(parked)
      /\ Len(stream) \in Nat /\ Len(parked) \in Nat
  BY AnnouncedFacts DEF TypeOK
<1>2. \A k \in DOMAIN Announced : Announced[k] \in Batch
  BY <1>1
<1> QED
  BY <1>1, <1>2 DEF Batch, Ids

\* Steps that announce nothing.
LEMMA NumbersKept ==
  ASSUME TypeOK, Numbers, UNCHANGED <<ids, stream, parked, last_lsn, last_assigned, wal_backed>>,
         active' = active, next_lsn' \in Nat, next_lsn' >= next_lsn,
         \/ writer'.at \notin {"publish", "reset"}
         \/ UNCHANGED <<writer, next_lsn>>
  PROVE  Numbers' /\ Announced' = Announced
<1>1. Announced' = Announced
  BY AnnouncedKept
<1>2. /\ last_lsn' <= last_assigned'
      /\ \A k \in DOMAIN Announced' :
           /\ Announced'[k].lsn <= last_assigned' /\ Announced'[k].id <= ids'
           /\ IF k <= Len(stream') THEN Announced'[k].lsn <= last_lsn'
              ELSE Announced'[k].lsn > last_lsn'
           /\ writer'.at \in {"publish", "reset"} => Announced'[k].id < writer'.id
  BY <1>1 DEF Numbers
<1>3. wal_backed' /\ active' => last_assigned' <= (IF Marker THEN next_lsn' ELSE next_lsn' + 1)
  BY DEF Numbers, TypeOK
<1>4. /\ writer'.at \in {"publish", "reset"} => writer'.id = ids' /\ ids' > 0
      /\ writer'.at = "publish" => writer'.lsn = next_lsn' - 1 /\ last_assigned' < writer'.lsn
      /\ writer'.at = "reset" =>
           writer'.lsn = next_lsn' /\ (Marker => last_assigned' < writer'.lsn)
  BY DEF Numbers
<1> QED
  BY <1>1, <1>2, <1>3, <1>4 DEF Numbers

LEMMA StreamKept ==
  ASSUME StreamInOrder, UNCHANGED <<stream, parked, last_lsn, last_assigned, closed>>
  PROVE  StreamInOrder'
  BY AnnouncedKept DEF StreamInOrder, Increasing

LEMMA LogKept ==
  ASSUME TypeOK, LogOrder, UNCHANGED <<log, ids, wal_backed>>, next_lsn' \in Nat,
         next_lsn' >= next_lsn
  PROVE  LogOrder'
<1>1. \A i \in DOMAIN log : log[i].lsn \in Nat
  <2>1. \A i \in DOMAIN log : log[i] \in Items
    BY DEF TypeOK
  <2> QED
    BY <2>1 DEF Items
<1>2. wal_backed => \A i \in DOMAIN log : log[i].lsn < next_lsn'
  BY <1>1 DEF LogOrder, TypeOK
<1> QED
  BY <1>2 DEF LogOrder

LEMMA CatalogHub == ASSUME HubInv, CatalogCommit PROVE HubInv'
<1> USE DEF process, hub, eaten
<1>0. TypeOK /\ Modes /\ LogOrder /\ WalOrder /\ StreamInOrder /\ Numbers /\ Hears
  BY DEF HubInv
<1>1. /\ next_lsn' = next_lsn + 3 /\ writer.at = "idle"
      /\ UNCHANGED <<log, ids, durable_lsn, disk, oldest, bases, bg_failure, listener,
                     reports, writer, process, hub, feed, eaten>>
  BY DEF CatalogCommit, Up
<1>2. next_lsn \in Nat /\ next_lsn' \in Nat \ {0} /\ next_lsn' >= next_lsn
  BY <1>0, <1>1 DEF TypeOK
<1>3. TypeOK' /\ Modes'
  BY <1>0, <1>1, <1>2 DEF TypeOK, Modes
<1>4. LogOrder'
  BY <1>0, <1>1, <1>2, LogKept
<1>5. WalOrder'
  BY <1>0, <1>1, <1>2 DEF WalOrder, TypeOK
<1>6. StreamInOrder'
  BY <1>0, <1>1, StreamKept
<1>7. Numbers'
  BY <1>0, <1>1, <1>2, NumbersKept
<1>8. Hears'
  BY <1>0, <1>1 DEF Hears
<1> QED
  BY <1>3, <1>4, <1>5, <1>6, <1>7, <1>8 DEF HubInv

LEMMA FsyncHub == ASSUME HubInv, Fsync PROVE HubInv'
<1> USE DEF process, hub, eaten
<1>0. TypeOK /\ Modes /\ LogOrder /\ WalOrder /\ StreamInOrder /\ Numbers /\ Hears
  BY DEF HubInv
<1>1. /\ wal_backed
      /\ UNCHANGED <<log, ids, next_lsn, oldest, bases, bg_failure, listener, writer,
                     process, hub, feed, eaten>>
  BY DEF Fsync
<1>2. PICK l \in {t.lsn : t \in Txs} \cup {next_lsn - 1} :
        /\ l > durable_lsn /\ durable_lsn' = l /\ disk' = Bigger(disk, l) /\ Report(l)
  BY DEF Fsync
<1>3. l \in Nat /\ l < next_lsn
  <2>1. CASE l = next_lsn - 1
    BY <1>0, <2>1 DEF TypeOK
  <2>2. CASE l \in {t.lsn : t \in Txs}
    <3>1. PICK i \in DOMAIN log : l = log[i].lsn
      BY <2>2 DEF Txs
    <3>2. log[i] \in Items
      BY <1>0 DEF TypeOK
    <3>3. log[i].lsn < next_lsn
      BY <1>0, <1>1 DEF LogOrder
    <3> QED
      BY <3>1, <3>2, <3>3 DEF Items
  <2> QED
    BY <2>1, <2>2
<1>4. reports' = IF listener THEN reports \cup {l} ELSE reports
  BY <1>2 DEF Report
<1>5. /\ next_lsn \in Nat /\ durable_lsn \in Nat /\ disk \in Nat /\ durable \in Nat
      /\ reports \subseteq Nat /\ disk' = l
  BY <1>0, <1>2, <1>3 DEF TypeOK, WalOrder, Bigger
<1>6. TypeOK'
  BY <1>0, <1>1, <1>2, <1>3, <1>4, <1>5 DEF TypeOK
<1>7. Modes'
  BY <1>0, <1>1 DEF Modes
<1>8. LogOrder' /\ StreamInOrder' /\ Numbers'
  BY <1>0, <1>1, <1>5, LogKept, StreamKept, NumbersKept
<1>9. WalOrder'
  <2>1. \A b \in bases : b.lsn \in Nat
    BY <1>0 DEF TypeOK
  <2> QED
    BY <1>0, <1>1, <1>2, <1>3, <1>5, <2>1 DEF WalOrder
<1>10. Hears'
  <2>1. writer.at = "activate" => writer.lsn \in Nat
    BY <1>0, WriterFields DEF TypeOK
  <2> QED
    BY <1>0, <1>1, <1>2, <1>3, <1>4, <1>5, <2>1 DEF Hears
<1> QED
  BY <1>6, <1>7, <1>8, <1>9, <1>10 DEF HubInv

LEMMA FsyncFailsHub == ASSUME HubInv, FsyncFails PROVE HubInv'
<1> USE DEF process, hub, eaten
<1>0. TypeOK /\ Modes /\ LogOrder /\ WalOrder /\ StreamInOrder /\ Numbers /\ Hears
  BY DEF HubInv
<1>1. /\ UNCHANGED <<log, ids, next_lsn, durable_lsn, disk, oldest, bases, listener,
                     reports, writer, process, hub, feed, eaten>>
      /\ bg_failure' \in BOOLEAN
  <2>1. bg_failure' = TRUE
    BY DEF FsyncFails
  <2> QED
    BY <2>1, Zenon DEF FsyncFails
<1>2. next_lsn \in Nat /\ next_lsn' \in Nat /\ next_lsn' >= next_lsn
  BY <1>0, <1>1 DEF TypeOK
<1>3. TypeOK' /\ Modes' /\ WalOrder' /\ Hears'
  BY <1>0, <1>1 DEF TypeOK, Modes, WalOrder, Hears
<1>4. LogOrder' /\ StreamInOrder' /\ Numbers'
  BY <1>0, <1>1, <1>2, LogKept, StreamKept, NumbersKept
<1> QED
  BY <1>3, <1>4 DEF HubInv

LEMMA ActivateListenHub == ASSUME HubInv, ActivateListen PROVE HubInv'
<1> USE DEF process, hub, eaten
<1>0. TypeOK /\ Modes /\ LogOrder /\ WalOrder /\ StreamInOrder /\ Numbers /\ Hears
  BY DEF HubInv
<1>1. /\ UNCHANGED <<log, ids, next_lsn, durable_lsn, disk, oldest, bases, bg_failure,
                     reports, process, feed, eaten>>
      /\ ~active /\ ~closed /\ writer.at = "idle"
  BY DEF ActivateListen, Up
<1>2. next_lsn \in Nat /\ next_lsn' \in Nat /\ next_lsn' >= next_lsn
  BY <1>0, <1>1 DEF TypeOK
<1>3. CASE wal_backed
  <2>1. listener' = TRUE /\ writer' = [Idle EXCEPT !.at = "read"] /\ UNCHANGED hub
    BY <1>3 DEF ActivateListen
  <2>2. listener' \in BOOLEAN
    BY <2>1, Zenon
  <2>3. writer' \in WriterState /\ writer'.at = "read"
    BY <2>1 DEF Idle, WriterState
  <2>4. TypeOK'
    BY <1>0, <1>1, <2>1, <2>2, <2>3 DEF TypeOK
  <2>5. Modes'
    BY <1>0, <1>1, <1>3, <2>1, <2>3 DEF Modes
  <2>6. WalOrder'
    BY <1>0, <1>1 DEF WalOrder
  <2>7. LogOrder' /\ StreamInOrder' /\ Numbers'
    BY <1>0, <1>1, <1>2, <2>1, <2>3, LogKept, StreamKept, NumbersKept
  <2>8. Hears'
    BY <1>0, <1>1, <2>1, <2>3 DEF Hears
  <2> QED
    BY <2>4, <2>5, <2>6, <2>7, <2>8 DEF HubInv
<1>4. CASE ~wal_backed
  <2>1. /\ active' = TRUE /\ since' = ids
        /\ UNCHANGED <<listener, writer, closed, last_lsn, last_assigned, deferred,
                       durable, parked, ring, ring_floor, retention, stream>>
    BY <1>4 DEF ActivateListen
  <2>2. active' \in BOOLEAN /\ since' \in Nat
    <3>1. active' \in BOOLEAN
      BY <2>1, Zenon
    <3> QED
      BY <1>0, <2>1, <3>1 DEF TypeOK
  <2>3. TypeOK'
    BY <1>0, <1>1, <2>1, <2>2 DEF TypeOK
  <2>4. Modes'
    BY <1>0, <1>1, <1>4, <2>1 DEF Modes
  <2>5. WalOrder'
    BY <1>0, <1>1 DEF WalOrder
  <2>6. LogOrder' /\ StreamInOrder'
    BY <1>0, <1>1, <1>2, <2>1, LogKept, StreamKept
  <2>7. Announced' = Announced
    BY <2>1, AnnouncedKept
  <2>8. Numbers'
    BY <1>0, <1>1, <1>4, <2>1, <2>7 DEF Numbers
  <2>9. Hears'
    BY <1>0, <1>1, <2>1 DEF Hears
  <2> QED
    BY <2>3, <2>4, <2>5, <2>6, <2>8, <2>9 DEF HubInv
<1> QED
  BY <1>3, <1>4

LEMMA ActivateReadHub == ASSUME HubInv, ActivateRead PROVE HubInv'
<1> USE DEF process, hub, eaten, wal
<1>0. TypeOK /\ Modes /\ LogOrder /\ WalOrder /\ StreamInOrder /\ Numbers /\ Hears
  BY DEF HubInv
<1>1. /\ UNCHANGED <<log, ids, wal, reports, process, hub, feed, eaten>>
      /\ writer.at = "read" /\ writer' = [at |-> "activate", lsn |-> durable_lsn, id |-> 0]
  BY DEF ActivateRead
<1>2. next_lsn \in Nat /\ next_lsn' \in Nat /\ next_lsn' >= next_lsn /\ durable_lsn \in Nat
  BY <1>0, <1>1 DEF TypeOK
<1>3. writer' \in WriterState /\ writer'.at = "activate" /\ writer'.lsn = durable_lsn
  BY <1>1, <1>2 DEF WriterState
<1>4. TypeOK'
  BY <1>0, <1>1, <1>3 DEF TypeOK
<1>5. Modes'
  BY <1>0, <1>1, <1>3 DEF Modes
<1>6. WalOrder'
  BY <1>0, <1>1 DEF WalOrder
<1>7. LogOrder' /\ StreamInOrder' /\ Numbers'
  BY <1>0, <1>1, <1>2, <1>3, LogKept, StreamKept, NumbersKept
<1>8. Hears'
  BY <1>0, <1>1, <1>2, <1>3 DEF Hears
<1> QED
  BY <1>4, <1>5, <1>6, <1>7, <1>8 DEF HubInv

LEMMA ActivateHub == ASSUME HubInv, Activate PROVE HubInv'
<1> USE DEF process, hub, eaten, wal
<1>0. TypeOK /\ Modes /\ LogOrder /\ WalOrder /\ StreamInOrder /\ Numbers /\ Hears
  BY DEF HubInv
<1>1. /\ writer.at = "activate" /\ deferred' = TRUE /\ durable' = Bigger(durable, writer.lsn)
      /\ last_lsn' = Bigger(next_lsn - 1, last_lsn) /\ last_assigned' = last_lsn'
      /\ ring_floor' = last_lsn' /\ active' = TRUE /\ since' = ids /\ writer' = Idle
      /\ UNCHANGED <<log, ids, wal, reports, process, closed, parked, ring, retention,
                     stream, feed, eaten>>
  BY DEF Activate
<1>2. ~active /\ wal_backed /\ stream = <<>> /\ parked = <<>> /\ last_lsn = 0 /\ ~closed
  BY <1>0, <1>1 DEF Modes
<1>3. /\ next_lsn \in Nat \ {0} /\ writer.lsn \in Nat /\ durable \in Nat /\ ids \in Nat
      /\ durable_lsn \in Nat /\ stream \in Seq(Batch) /\ parked \in Seq(Waiting)
  BY <1>0, WriterFields DEF TypeOK
<1>4. last_lsn' = next_lsn - 1 /\ last_lsn' \in Nat /\ durable' \in Nat
  BY <1>1, <1>2, <1>3 DEF Bigger
<1>5. active' \in BOOLEAN /\ deferred' \in BOOLEAN
  BY <1>1, Zenon
<1>6. TypeOK'
  BY <1>0, <1>1, <1>3, <1>4, <1>5, IdleType DEF TypeOK
<1>7. Modes'
  BY <1>0, <1>1, <1>2, IdleType DEF Modes
<1>8. WalOrder'
  BY <1>0, <1>1 DEF WalOrder
<1>9. LogOrder'
  BY <1>0, <1>1 DEF LogOrder
<1>10. Announced' = Announced /\ Announced = <<>> /\ DOMAIN Announced = {}
  <2>1. Announced \in Seq(Batch) /\ Len(Announced) = 0 /\ DOMAIN Announced = 1 .. 0
    BY <1>2, <1>3, AnnouncedFacts
  <2>2. Announced' = Announced
    BY <1>1, AnnouncedKept
  <2> QED
    BY <2>1, <2>2
<1>11. StreamInOrder'
  BY <1>1, <1>2, <1>10 DEF StreamInOrder, Increasing
<1>12. Numbers'
  BY <1>1, <1>3, <1>4, <1>10, IdleType DEF Numbers
<1>13. Hears'
  <2>1. durable' <= durable_lsn' /\ durable_lsn' \in reports' \cup {durable'}
    BY <1>0, <1>1, <1>3 DEF Hears, Bigger
  <2> QED
    BY <1>0, <1>1, <1>2, <2>1, IdleType DEF Hears
<1> QED
  BY <1>6, <1>7, <1>8, <1>9, <1>11, <1>12, <1>13 DEF HubInv

\* What a release does to the feeds keeps their states.
LEMMA FeedsPushed ==
  ASSUME TypeOK, Modes, NEW bs \in Seq(Batch), active,
         \A f \in Feeds : feed'[f] = Push(feed[f], bs)
  PROVE  \A f \in Feeds :
           /\ feed'[f].status = "none" => feed'[f] = NoFeed
           /\ feed'[f].hist \in {"planned", "running"} => wal_backed
<1> SUFFICES ASSUME NEW f \in Feeds
             PROVE  /\ feed'[f].status = "none" => feed'[f] = NoFeed
                    /\ feed'[f].hist \in {"planned", "running"} => wal_backed
  OBVIOUS
<1>1. feed[f] \in FeedState
  BY DEF TypeOK
<1>2. feed'[f] = Push(feed[f], bs)
  OBVIOUS
<1> DEFINE F == feed[f]
           G == feed'[f]
<1>3. /\ F.status = "none" => F = NoFeed
      /\ F.hist \in {"planned", "running"} => wal_backed
  BY DEF Modes
<1> HIDE DEF F, G
<1>4. F \in FeedState /\ G = Push(F, bs)
  BY <1>1, <1>2 DEF F, G
<1>5. G.hist = F.hist
  BY <1>4, PushKeeps
<1>6. G = F \/ (F.status = "open" /\ G.status \in {"open", "lagged"})
  BY <1>4, PushStatus
<1>7. G.status = "none" => G = NoFeed
  BY <1>3, <1>6
<1>8. G.hist \in {"planned", "running"} => wal_backed
  BY <1>3, <1>5
<1> QED
  BY <1>7, <1>8 DEF G

\* Publishing a batch with a new LSN and a new item keeps the order and the
\* hub's knowledge of what is durable.
LEMMA PublishHub ==
  ASSUME HubInv, NEW lsn \in Nat, NEW id \in Ids, NEW needs \in Nat, active,
         publish_when_durable(lsn, id, needs), lsn > last_assigned,
         \A k \in DOMAIN Announced : Announced[k].id < id,
         ids' \in 0 .. MaxItems, ids <= ids', id <= ids',
         wal_backed => lsn <= (IF Marker THEN next_lsn ELSE next_lsn + 1),
         UNCHANGED <<wal, reports, process>>, writer' \in WriterState, writer'.at = "idle",
         log' \in Seq(Items), LogOrder', UNCHANGED eaten
  PROVE  HubInv'
<1> USE DEF process, hub, eaten, wal, SendsOn, Parks
<1> DEFINE b == [lsn |-> lsn, id |-> id]
<1>0. TypeOK /\ Modes /\ LogOrder /\ WalOrder /\ StreamInOrder /\ Numbers /\ Hears
  BY DEF HubInv
<1>1. /\ Announced \in Seq(Batch) /\ DOMAIN Announced = 1 .. Len(stream) + Len(parked)
      /\ Len(stream) \in Nat /\ Len(parked) \in Nat
      /\ \A k \in DOMAIN Announced : Announced[k].id \in Nat /\ Announced[k].lsn \in Nat
      /\ Len(Announced) \in Nat /\ DOMAIN Announced = 1 .. Len(Announced)
  BY <1>0, AnnouncedTypes
<1>2. /\ next_lsn \in Nat /\ last_assigned \in Nat /\ last_lsn \in Nat /\ ids \in Nat
      /\ ids' \in Nat
  BY <1>0, ChangeHubAssumption DEF TypeOK
<1>3. CASE closed /\ UNCHANGED <<hub, feed>>
  <2>1. TypeOK' /\ Modes' /\ WalOrder' /\ Hears'
    BY <1>0, <1>3 DEF TypeOK, Modes, WalOrder, Hears
  <2>2. StreamInOrder' /\ Announced' = Announced
    BY <1>0, <1>3, StreamKept, AnnouncedKept
  <2>3. Numbers'
    <3>1. \A k \in DOMAIN Announced' :
            /\ Announced'[k].lsn <= last_assigned' /\ Announced'[k].id <= ids'
            /\ IF k <= Len(stream') THEN Announced'[k].lsn <= last_lsn'
               ELSE Announced'[k].lsn > last_lsn'
      BY SMTT(60), <1>0, <1>1, <1>2, <1>3, <2>2 DEF Numbers
    <3> QED
      BY <1>0, <1>3, <3>1 DEF Numbers
  <2> QED
    BY <2>1, <2>2, <2>3 DEF HubInv
<1>4. ASSUME ~closed, last_assigned' = lsn, b \in Batch, Announces(b),
             UNCHANGED <<active, closed, deferred, durable, retention, since>>,
             stream' \in Seq(Batch), parked' \in Seq(Waiting), last_lsn' \in Nat,
             \/ Len(parked) = 0 /\ Len(parked') = 0 /\ last_lsn' = lsn
             \/ stream' = stream /\ Len(parked') > 0 /\ last_lsn' = last_lsn,
             stream' # <<>> => last_lsn' = stream'[Len(stream')].lsn
      PROVE  StreamInOrder' /\ Numbers'
  <2>1. /\ Len(Announced') = Len(Announced) + 1
        /\ \A k \in 1 .. Len(Announced) : Announced'[k] = Announced[k]
        /\ Announced'[Len(Announced) + 1] = b
    BY <1>4 DEF Announces
  <2>2. (parked \in Seq(Waiting) /\ stream \in Seq(Batch) =>
           /\ Announced \in Seq(Batch) /\ Len(Announced) = Len(stream) + Len(parked)
           /\ Len(stream) \in Nat /\ Len(parked) \in Nat)'
    BY AnnouncedFacts, PTL
  <2>3. /\ DOMAIN Announced' = 1 .. Len(Announced) + 1
        /\ Len(Announced') = Len(stream') + Len(parked')
        /\ Len(stream') \in Nat /\ Len(parked') \in Nat
    <3>1. Announced' \in Seq(Batch)
      BY <1>4, <2>2
    <3> QED
      BY <1>4, <2>1, <2>2, <3>1
  <2>4. Len(Announced) = Len(stream) + Len(parked)
    BY <1>0, AnnouncedFacts DEF TypeOK
  <2>5. b.lsn = lsn /\ b.id = id
    OBVIOUS
  <2> HIDE DEF b
  <2>6. \A k \in DOMAIN Announced' : k \in DOMAIN Announced \/ k = Len(Announced) + 1
    BY <1>1, <2>3
  <2>7. \A k \in DOMAIN Announced : Announced'[k] = Announced[k] /\ k < Len(Announced) + 1
    <3>1. \A k \in 1 .. Len(Announced) : k < Len(Announced) + 1
      BY <1>1
    <3> QED
      BY <1>1, <2>1, <3>1
  <2>8. \A k \in DOMAIN Announced : Announced[k].lsn <= last_assigned /\ Announced[k].id <= ids
    BY <1>0 DEF Numbers
  <2>9. ASSUME NEW i \in DOMAIN Announced', NEW j \in DOMAIN Announced', i < j
        PROVE  Announced'[i].lsn < Announced'[j].lsn /\ Announced'[i].id < Announced'[j].id
    <3>1. i \in DOMAIN Announced /\ i \in Nat /\ j \in Nat
      BY <1>1, <2>3, <2>9
    <3>2. CASE j \in DOMAIN Announced
      BY <1>0, <2>7, <2>9, <3>1, <3>2 DEF StreamInOrder, Increasing
    <3>3. CASE j = Len(Announced) + 1
      <4>1. Announced'[j] = b /\ Announced'[i] = Announced[i]
        BY <2>1, <2>7, <3>1, <3>3
      <4> QED
        BY SMTT(60), <1>1, <1>2, <2>5, <2>8, <3>1, <4>1
    <3> QED
      BY <2>6, <3>2, <3>3
  <2>10. last_assigned' = Announced'[Len(Announced')].lsn
    BY <1>4, <2>1, <2>5
  <2>11. StreamInOrder'
    BY <1>4, <2>9, <2>10 DEF StreamInOrder, Increasing
  <2>12. ASSUME NEW k \in DOMAIN Announced'
         PROVE  /\ Announced'[k].lsn <= last_assigned' /\ Announced'[k].id <= ids'
                /\ IF k <= Len(stream') THEN Announced'[k].lsn <= last_lsn'
                   ELSE Announced'[k].lsn > last_lsn'
    <3>1. CASE k \in DOMAIN Announced
      <4>1. /\ Announced'[k] = Announced[k] /\ Announced[k].lsn \in Nat
            /\ Announced[k].id \in Nat /\ k \in Nat /\ k <= Len(Announced)
        BY <1>1, <2>7, <3>1
      <4>2. Announced[k].lsn <= last_assigned /\ Announced[k].id <= ids
        BY <2>8, <3>1
      <4>3. Announced'[k].lsn <= last_assigned' /\ Announced'[k].id <= ids'
        <5>1. last_assigned' = lsn
          BY <1>4
        <5> QED
          BY <1>2, <4>1, <4>2, <5>1
      <4>4. CASE Len(parked) = 0 /\ Len(parked') = 0 /\ last_lsn' = lsn
        BY <1>2, <1>4, <2>1, <2>3, <4>1, <4>2, <4>3, <4>4
      <4>5. CASE stream' = stream /\ last_lsn' = last_lsn
        BY <1>0, <3>1, <4>1, <4>3, <4>5 DEF Numbers
      <4> QED
        BY <1>4, <4>4, <4>5
    <3>2. CASE k = Len(Announced) + 1
      <4>1. Announced'[k] = b
        BY <2>1, <3>2
      <4>2. CASE Len(parked') = 0 /\ last_lsn' = lsn
        BY <1>1, <1>2, <1>4, <2>1, <2>3, <2>5, <3>2, <4>1, <4>2
      <4>3. CASE Len(parked') > 0 /\ last_lsn' = last_lsn
        <5>1. k > Len(stream')
          BY <1>1, <2>1, <2>3, <3>2, <4>3
        <5>2. last_lsn < lsn
          BY <1>0, <1>2 DEF Numbers
        <5> QED
          BY <1>1, <1>2, <1>4, <2>3, <2>5, <3>2, <4>1, <4>3, <5>1, <5>2
      <4> QED
        BY <1>4, <4>2, <4>3
    <3> QED
      BY <2>6, <3>1, <3>2
  <2>13. last_lsn' <= last_assigned'
    BY <1>0, <1>2, <1>4 DEF Numbers
  <2> QED
    BY <1>4, <2>11, <2>12, <2>13 DEF Numbers
<1>5. CASE SendsOn(b, needs)
  <2>1. /\ stream' = stream \o <<b>> /\ stream' \in Seq(Batch) /\ ring' \in Seq(Batch)
        /\ ring_floor' \in Nat /\ last_lsn' \in Nat
        /\ last_lsn' = (IF <<b>> = <<>> THEN last_lsn ELSE <<b>>[Len(<<b>>)].lsn)
        /\ feed' \in [Feeds -> FeedState]
        /\ \A f \in Feeds : feed'[f] = Push(feed[f], <<b>>)
    BY <1>0, <1>5, ReleaseFacts
  <2>2. last_lsn' = lsn
    BY <2>1
  <2>3. stream'[Len(stream')] = b
    <3> HIDE DEF b
    <3>1. stream \in Seq(Batch) /\ b \in Batch
      BY <1>0, <1>5 DEF TypeOK
    <3>2. stream' = Append(stream, b)
      BY <2>1, <3>1
    <3> QED
      BY <3>1, <3>2
  <2>4. stream' # <<>> => last_lsn' = stream'[Len(stream')].lsn
    BY <2>2, <2>3
  <2>5. parked' \in Seq(Waiting) /\ Len(parked) = 0 /\ Len(parked') = 0
    BY <1>0, <1>5 DEF TypeOK
  <2>6. StreamInOrder' /\ Numbers'
    BY <1>4, <1>5, <2>1, <2>2, <2>4, <2>5
  <2>7. TypeOK'
    BY <1>0, <1>5, <2>1, <2>5 DEF TypeOK
  <2>8. Modes'
    <3>1. \A f \in Feeds :
            /\ feed'[f].status = "none" => feed'[f] = NoFeed
            /\ feed'[f].hist \in {"planned", "running"} => wal_backed
      BY <1>0, <1>5, <2>1, FeedsPushed
    <3> QED
      BY <1>0, <1>5, <3>1 DEF Modes
  <2>9. WalOrder' /\ Hears'
    BY <1>0, <1>5 DEF WalOrder, Hears
  <2> QED
    BY <2>6, <2>7, <2>8, <2>9 DEF HubInv
<1>6. CASE Parks(b, needs)
  <2> DEFINE w == [needs |-> needs, batch |-> b]
  <2>1. w.needs = needs
    OBVIOUS
  <2> HIDE DEF w
  <2>2. w \in Waiting /\ parked' = Append(parked, w) /\ parked \in Seq(Waiting)
    BY <1>0, <1>6 DEF w, TypeOK
  <2>3. /\ parked' \in Seq(Waiting) /\ Len(parked') = Len(parked) + 1
        /\ \A k \in 1 .. Len(parked) : parked'[k] = parked[k]
        /\ parked'[Len(parked) + 1] = w
    BY <2>2, AppendFacts
  <2>4. stream' \in Seq(Batch) /\ last_lsn' \in Nat /\ Len(parked') > 0
        /\ (stream' # <<>> => last_lsn' = stream'[Len(stream')].lsn)
    BY <1>0, <1>1, <1>6, <2>3 DEF TypeOK, StreamInOrder
  <2>5. StreamInOrder' /\ Numbers'
    BY <1>4, <1>6, <2>3, <2>4
  <2>6. TypeOK'
    BY <1>0, <1>6, <2>3 DEF TypeOK
  <2>7. Modes'
    BY <1>0, <1>6 DEF Modes
  <2>8. parked'[1].needs > durable
    <3>1. CASE parked = <<>>
      <4>1. Len(parked) = 0 /\ ~(needs <= durable)
        BY <1>6, <3>1 DEF MayRelease
      <4> QED
        BY <1>0, <2>1, <2>3, <4>1 DEF TypeOK
    <3>2. CASE parked # <<>>
      <4>1. 1 \in 1 .. Len(parked)
        BY <2>2, <3>2
      <4> QED
        BY <1>0, <2>3, <3>2, <4>1 DEF Hears
    <3> QED
      BY <3>1, <3>2
  <2>9. WalOrder' /\ Hears'
    BY <1>0, <1>6, <2>8 DEF WalOrder, Hears
  <2> QED
    BY <2>5, <2>6, <2>7, <2>9 DEF HubInv
<1>7. \/ closed /\ UNCHANGED <<hub, feed>>
      \/ SendsOn(b, needs)
      \/ Parks(b, needs)
  BY <1>0, PublishFacts
<1> QED
  BY <1>3, <1>5, <1>6, <1>7

LEMMA PublishStepHub == ASSUME HubInv, publish PROVE HubInv'
<1> DEFINE lsn == Bigger(writer.lsn, last_assigned + 1)
<1>0. TypeOK /\ Modes /\ LogOrder /\ WalOrder /\ Numbers
  BY DEF HubInv
<1>1. /\ writer.at = "publish" /\ publish_when_durable(lsn, writer.id, lsn)
      /\ writer' = Idle /\ UNCHANGED <<log, ids, wal, reports, process, eaten>>
  BY DEF publish
<1>2. active /\ wal_backed
  BY <1>0, <1>1 DEF Modes
<1>3. /\ writer.lsn \in Nat /\ writer.id \in Ids \cup {0} /\ last_assigned \in Nat
      /\ ids \in 0 .. MaxItems /\ next_lsn \in Nat \ {0} /\ MaxItems \in Nat
  BY <1>0, WriterFields, ChangeHubAssumption DEF TypeOK
<1>4. writer.id = ids /\ writer.lsn = next_lsn - 1 /\ last_assigned < writer.lsn
  BY <1>0, <1>1 DEF Numbers
<1>5. lsn \in Nat /\ lsn > last_assigned /\ lsn = next_lsn - 1
  BY <1>3, <1>4 DEF Bigger
<1> HIDE DEF lsn
<1>6. \A k \in DOMAIN Announced : Announced[k].id < writer.id
  BY <1>0, <1>1 DEF Numbers
<1>7. writer.id \in Ids
  <2>1. ids > 0
    BY <1>0, <1>1 DEF Numbers
  <2> QED
    BY <1>3, <1>4, <2>1 DEF Ids
<1>8. /\ ids' \in 0 .. MaxItems /\ ids <= ids' /\ writer.id <= ids'
      /\ log' \in Seq(Items) /\ LogOrder'
  <2>1. UNCHANGED <<log, ids, next_lsn, wal_backed>>
    BY <1>1 DEF wal, process
  <2> QED
    BY <1>0, <1>3, <1>4, <2>1, LogKept DEF TypeOK
<1>9. lsn <= (IF Marker THEN next_lsn ELSE next_lsn + 1)
  BY <1>3, <1>5
<1>10. writer' \in WriterState /\ writer'.at = "idle"
  BY <1>1, IdleType
<1> QED
  BY <1>1, <1>2, <1>5, <1>6, <1>7, <1>8, <1>9, <1>10, PublishHub

\* What an in-memory database commits, or restores, it announces at once.
LEMMA InMemoryHub ==
  ASSUME HubInv, Up, ~wal_backed, ids < MaxItems, NEW kind \in {"tx", "restore"},
         log' = Append(log, Item(kind, IF active THEN last_assigned + 1 ELSE 0)),
         ids' = ids + 1,
         IF active THEN publish_when_durable(last_assigned + 1, ids + 1, last_assigned + 1)
         ELSE UNCHANGED <<hub, feed>>,
         UNCHANGED <<wal, reports, writer, process, eaten>>
  PROVE  HubInv'
<1> USE DEF process, hub, eaten, wal
<1> DEFINE lsn == IF active THEN last_assigned + 1 ELSE 0
<1>0. TypeOK /\ Modes /\ LogOrder /\ WalOrder /\ StreamInOrder /\ Numbers /\ Hears
  BY DEF HubInv
<1>1. /\ last_assigned \in Nat /\ ids \in 0 .. MaxItems /\ next_lsn \in Nat /\ MaxItems \in Nat
      /\ next_lsn' = next_lsn /\ wal_backed' = wal_backed /\ writer.at = "idle" /\ ~closed
  BY <1>0, ChangeHubAssumption DEF TypeOK, Up
<1>2. lsn \in Nat /\ ids + 1 \in Ids /\ ids \in Nat
  BY <1>1 DEF Ids
<1>3. log' \in Seq(Items) /\ ids' \in 0 .. MaxItems /\ LogOrder'
  <2>1. log' = Append(log, Item(kind, lsn))
    OBVIOUS
  <2> HIDE DEF lsn
  <2>2. /\ next_lsn' \in Nat /\ next_lsn' >= next_lsn
        /\ wal_backed => /\ lsn < next_lsn' /\ lsn >= next_lsn - 1
                         /\ kind = "tx" => lsn >= next_lsn
    BY <1>1
  <2>3. /\ TypeOK /\ LogOrder /\ ids < MaxItems /\ kind \in {"tx", "restore"}
        /\ ids' = ids + 1 /\ wal_backed' = wal_backed
    BY <1>0, <1>1
  <2> QED
    BY ONLY <1>2, <2>1, <2>2, <2>3, LogGrows
<1> HIDE DEF lsn
<1>4. CASE active
  <2>1. \A k \in DOMAIN Announced : Announced[k].id < ids + 1
    <3>1. \A k \in DOMAIN Announced : Announced[k].id \in Nat /\ Announced[k].id <= ids
      BY <1>0, AnnouncedTypes DEF Numbers
    <3> QED
      BY <1>2, <3>1
  <2>2. writer' \in WriterState /\ writer'.at = "idle"
    BY <1>0, <1>1 DEF TypeOK
  <2> DEFINE m == last_assigned + 1
             n == ids + 1
  <2>3. m \in Nat /\ m > last_assigned /\ n \in Ids /\ ids <= ids' /\ n <= ids'
    BY <1>1, <1>2
  <2>4. publish_when_durable(m, n, m)
    BY <1>4
  <2>5. \A k \in DOMAIN Announced : Announced[k].id < n
    BY <2>1
  <2> HIDE DEF m, n
  <2> QED
    BY <1>1, <1>3, <1>4, <2>2, <2>3, <2>4, <2>5, PublishHub
<1>5. CASE ~active
  <2>1. UNCHANGED <<hub, feed>>
    BY <1>5
  <2>2. TypeOK' /\ Modes' /\ WalOrder' /\ Hears'
    BY <1>0, <1>3, <2>1 DEF TypeOK, Modes, WalOrder, Hears
  <2>3. StreamInOrder' /\ Announced' = Announced
    BY <1>0, <2>1, StreamKept, AnnouncedKept
  <2>4. Numbers'
    <3>1. \A k \in DOMAIN Announced : Announced[k].id \in Nat
      BY <1>0, AnnouncedTypes
    <3>2. \A k \in DOMAIN Announced' :
            /\ Announced'[k].lsn <= last_assigned' /\ Announced'[k].id <= ids'
            /\ IF k <= Len(stream') THEN Announced'[k].lsn <= last_lsn'
               ELSE Announced'[k].lsn > last_lsn'
      BY <1>0, <1>2, <2>1, <2>3, <3>1 DEF Numbers
    <3> QED
      BY <1>0, <1>1, <2>1, <3>2 DEF Numbers
  <2> QED
    BY <1>3, <2>2, <2>3, <2>4 DEF HubInv
<1> QED
  BY <1>4, <1>5

LEMMA CommitInMemoryHub == ASSUME HubInv, CommitInMemory PROVE HubInv'
<1>1. /\ Up /\ ~wal_backed /\ ids < MaxItems /\ ids' = ids + 1
      /\ log' = Append(log, Item("tx", IF active THEN last_assigned + 1 ELSE 0))
      /\ IF active THEN publish_when_durable(last_assigned + 1, ids + 1, last_assigned + 1)
         ELSE UNCHANGED <<hub, feed>>
      /\ UNCHANGED <<wal, reports, writer, process, eaten>>
  BY DEF CommitInMemory
<1>2. "tx" \in {"tx", "restore"}
  OBVIOUS
<1> QED
  BY <1>1, <1>2, InMemoryHub

LEMMA RestoreInMemoryHub == ASSUME HubInv, RestoreInMemory PROVE HubInv'
<1>1. /\ Up /\ ~wal_backed /\ ids < MaxItems /\ ids' = ids + 1
      /\ log' = Append(log, Item("restore", IF active THEN last_assigned + 1 ELSE 0))
      /\ IF active THEN publish_when_durable(last_assigned + 1, ids + 1, last_assigned + 1)
         ELSE UNCHANGED <<hub, feed>>
      /\ UNCHANGED <<wal, reports, writer, process, eaten>>
  BY DEF RestoreInMemory
<1>2. "restore" \in {"tx", "restore"}
  OBVIOUS
<1> QED
  BY <1>1, <1>2, InMemoryHub

LEMMA PublishResetHub == ASSUME HubInv, publish_reset PROVE HubInv'
<1> DEFINE lsn == Bigger(writer.lsn, last_assigned + 1)
<1>0. TypeOK /\ Modes /\ LogOrder /\ WalOrder /\ StreamInOrder /\ Numbers /\ Hears
  BY DEF HubInv
<1>1. /\ writer.at = "reset" /\ writer' = Idle
      /\ UNCHANGED <<log, ids, wal, reports, process, eaten>>
      /\ IF lsn <= writer.lsn + 1
         THEN publish_when_durable(lsn, writer.id, writer.lsn - 1)
         ELSE UNCHANGED <<hub, feed>>
  BY DEF publish_reset
<1>2. active /\ wal_backed
  BY <1>0, <1>1 DEF Modes
<1>3. /\ writer.lsn \in Nat /\ writer.id \in Ids \cup {0} /\ last_assigned \in Nat
      /\ ids \in 0 .. MaxItems /\ next_lsn \in Nat \ {0} /\ MaxItems \in Nat
  BY <1>0, WriterFields, ChangeHubAssumption DEF TypeOK
<1>4. writer.id = ids /\ ids > 0 /\ writer.lsn = next_lsn /\ (Marker => last_assigned < writer.lsn)
  BY <1>0, <1>1 DEF Numbers
<1>5. lsn \in Nat /\ lsn > last_assigned /\ (Marker => lsn = next_lsn)
  BY <1>3, <1>4 DEF Bigger
<1>6. \A k \in DOMAIN Announced : Announced[k].id < writer.id
  BY <1>0, <1>1 DEF Numbers
<1>7. writer.id \in Ids /\ writer.lsn - 1 \in Nat
  BY <1>3, <1>4 DEF Ids
<1>8. /\ ids' \in 0 .. MaxItems /\ ids <= ids' /\ writer.id <= ids'
      /\ log' \in Seq(Items) /\ LogOrder'
  <2>1. UNCHANGED <<log, ids, next_lsn, wal_backed>>
    BY <1>1 DEF wal, process
  <2> QED
    BY <1>0, <1>3, <1>4, <2>1, LogKept DEF TypeOK
<1>9. writer' \in WriterState /\ writer'.at = "idle"
  BY <1>1, IdleType
<1> HIDE DEF lsn
<1>10. CASE lsn <= writer.lsn + 1
  <2> DEFINE m == writer.lsn - 1
  <2>1. publish_when_durable(lsn, writer.id, m) /\ m \in Nat
    BY <1>1, <1>7, <1>10
  <2>2. lsn <= (IF Marker THEN next_lsn ELSE next_lsn + 1)
    BY <1>3, <1>4, <1>5, <1>10
  <2> HIDE DEF m
  <2> QED
    BY <1>1, <1>2, <1>5, <1>6, <1>7, <1>8, <1>9, <2>1, <2>2, PublishHub
<1>11. CASE ~(lsn <= writer.lsn + 1)
  <2> USE DEF process, hub, eaten, wal
  <2>1. UNCHANGED <<hub, feed>> /\ next_lsn' = next_lsn /\ next_lsn' \in Nat
        /\ next_lsn' >= next_lsn
    BY <1>1, <1>3, <1>11
  <2>2. TypeOK'
    BY <1>0, <1>1, <1>9, <2>1 DEF TypeOK
  <2>3. Modes'
    BY <1>0, <1>1, <1>9, <2>1 DEF Modes
  <2>4. WalOrder' /\ Hears'
    BY <1>0, <1>1, <1>9, <2>1 DEF WalOrder, Hears
  <2>5. StreamInOrder' /\ Numbers'
    BY <1>0, <1>1, <1>9, <2>1, StreamKept, NumbersKept
  <2> QED
    BY <1>8, <2>2, <2>3, <2>4, <2>5 DEF HubInv
<1> QED
  BY <1>10, <1>11

LEMMA OnDurableHub == ASSUME HubInv, on_durable PROVE HubInv'
<1> USE DEF process, hub, eaten, wal, HandsOut, Reaches
<1>0. TypeOK /\ Modes /\ LogOrder /\ WalOrder /\ StreamInOrder /\ Numbers /\ Hears
  BY DEF HubInv
<1>1. UNCHANGED <<log, ids, wal, writer, process, eaten>>
  BY <1>0, OnDurableFacts
<1>2. PICK d \in reports :
        /\ reports' = reports \ {d}
        /\ \/ d <= durable /\ UNCHANGED <<hub, feed>>
           \/ /\ d > durable /\ durable' = d
              /\ Reaches(d)
  BY <1>0, OnDurableFacts
<1>3. /\ d \in Nat /\ reports' \subseteq Nat /\ durable \in Nat /\ durable_lsn \in Nat
      /\ d <= durable_lsn /\ wal_backed /\ next_lsn \in Nat /\ next_lsn' = next_lsn
  BY <1>0, <1>1, <1>2 DEF TypeOK, Hears, Modes
<1>4. writer.at = "activate" => ~active /\ ~deferred /\ writer.lsn \in Nat
  BY <1>0, WriterFields DEF TypeOK, Modes
<1>5. LogOrder' /\ WalOrder'
  BY <1>0, <1>1, <1>3 DEF LogOrder, WalOrder
<1>6. CASE d <= durable /\ UNCHANGED <<hub, feed>>
  <2>1. TypeOK' /\ Modes'
    BY <1>0, <1>1, <1>2, <1>3, <1>6 DEF TypeOK, Modes
  <2>2. StreamInOrder' /\ Numbers'
    BY <1>0, <1>1, <1>3, <1>6, StreamKept, NumbersKept
  <2>3. Hears'
    <3>1. durable_lsn = d => durable_lsn = durable
      BY <1>0, <1>3, <1>6 DEF Hears
    <3> QED
      BY <1>0, <1>1, <1>2, <1>3, <1>6, <3>1 DEF Hears
  <2> QED
    BY <1>5, <2>1, <2>2, <2>3 DEF HubInv
<1>7. CASE /\ d > durable /\ durable' = d
           /\ Reaches(d)
  <2>1. PICK n \in 0 .. Len(parked), bs \in Seq(Batch) : HandsOut(d, n, bs)
    BY <1>7
  <2>2. /\ stream' = stream \o bs /\ stream' \in Seq(Batch) /\ ring' \in Seq(Batch)
        /\ ring_floor' \in Nat /\ last_lsn' \in Nat
        /\ last_lsn' = (IF bs = <<>> THEN last_lsn ELSE bs[Len(bs)].lsn)
        /\ feed' \in [Feeds -> FeedState]
        /\ \A f \in Feeds : feed'[f] = Push(feed[f], bs)
    BY <1>0, <2>1, ReleaseFacts
  <2>3. TypeOK'
    BY <1>0, <1>1, <1>2, <1>3, <1>7, <2>1, <2>2 DEF TypeOK
  <2>4. /\ stream \in Seq(Batch) /\ ring \in Seq(Batch) /\ parked \in Seq(Waiting)
        /\ retention \in Nat /\ ring_floor \in Nat
    BY <1>0, ChangeHubAssumption DEF TypeOK
  <2>5. bs = <<>> => stream' = stream /\ last_lsn' = last_lsn
    BY <2>2, <2>4
  <2>6. Modes'
    <3>1. CASE active
      <4>1. \A f \in Feeds :
              /\ feed'[f].status = "none" => feed'[f] = NoFeed
              /\ feed'[f].hist \in {"planned", "running"} => wal_backed
        BY <1>0, <2>2, <3>1, FeedsPushed
      <4>2. parked = <<>> => parked' = <<>>
        BY <2>1, <2>4
      <4> QED
        BY <1>0, <1>1, <1>3, <1>7, <3>1, <4>1, <4>2 DEF Modes
    <3>2. CASE ~active
      <4>1. /\ stream = <<>> /\ parked = <<>> /\ ring = <<>> /\ last_lsn = 0 /\ ring_floor = 0
            /\ \A f \in Feeds : feed[f].status = "none"
        BY <1>0, <3>2 DEF Modes
      <4>2. n = 0 /\ bs = <<>> /\ parked' = <<>>
        BY <2>1, <2>4, <4>1
      <4>3. \A f \in Feeds : feed'[f] = feed[f]
        BY <2>2, <4>1 DEF Push
      <4>4. ring \o bs = <<>> /\ ring \o bs \in Seq(Batch)
        BY <4>1, <4>2
      <4>5. ring' = <<>> /\ ring_floor' = 0
        <5>1. /\ ring' = Trimmed(ring \o bs, retention)
              /\ ring_floor' = FloorAfter(ring \o bs, retention, ring_floor)
          BY <1>0, <2>1, ReleaseFacts
        <5> QED
          BY <2>4, <4>1, <4>4, <5>1 DEF Trimmed, FloorAfter, Bigger
      <4> QED
        BY <1>0, <1>1, <1>7, <2>5, <3>2, <4>1, <4>2, <4>3, <4>5 DEF Modes
    <3> QED
      BY <3>1, <3>2
  <2>7. /\ Announced' = Announced /\ Announced \in Seq(Batch) /\ Len(stream) \in Nat
        /\ DOMAIN Announced = 1 .. Len(stream) + Len(parked) /\ Len(parked) \in Nat
        /\ \A k \in DOMAIN Announced : Announced[k].lsn \in Nat
    BY <1>0, <1>7, AnnouncedTypes
  <2>8. Len(stream') = Len(stream) + n /\ n \in Nat
    <3>1. Len(bs) = n /\ n \in 0 .. Len(parked) /\ stream' = stream \o bs
      BY <2>1, <2>2
    <3>2. Len(stream \o bs) = Len(stream) + Len(bs)
      BY <2>4
    <3> QED
      BY <2>7, <3>1, <3>2
  <2>9. bs # <<>> => /\ n > 0 /\ Len(stream) + n \in DOMAIN Announced
                     /\ last_lsn' = Announced[Len(stream) + n].lsn
                     /\ last_lsn' = stream'[Len(stream')].lsn
    <3> SUFFICES ASSUME bs # <<>>
                 PROVE  /\ n > 0 /\ Len(stream) + n \in DOMAIN Announced
                        /\ last_lsn' = Announced[Len(stream) + n].lsn
                        /\ last_lsn' = stream'[Len(stream')].lsn
      OBVIOUS
    <3>1. n > 0 /\ last_lsn' = bs[n].lsn /\ n \in 1 .. n /\ n \in 1 .. Len(parked)
      BY <2>1, <2>2, <2>8
    <3>2. stream'[Len(stream) + n] = bs[n]
      BY <2>1, <2>2, <2>4, <3>1
    <3>3. Announced[Len(stream) + n] = parked[n].batch
      BY <2>4, <3>1, AnnouncedFacts
    <3> QED
      BY <2>1, <2>7, <2>8, <3>1, <3>2, <3>3
  <2>10. StreamInOrder'
    BY <1>0, <1>7, <2>5, <2>7, <2>9 DEF StreamInOrder, Increasing
  <2>11. last_lsn' <= last_assigned'
    BY <1>0, <1>7, <2>5, <2>9 DEF Numbers
  <2>12. ASSUME NEW k \in DOMAIN Announced'
         PROVE  IF k <= Len(stream') THEN Announced'[k].lsn <= last_lsn'
                ELSE Announced'[k].lsn > last_lsn'
    <3>1. CASE bs = <<>>
      BY <1>0, <2>5, <2>7, <2>12, <3>1 DEF Numbers
    <3>2. CASE bs # <<>>
      <4> DEFINE m == Len(stream) + n
      <4>1. /\ m \in DOMAIN Announced /\ last_lsn' = Announced[m].lsn /\ m = Len(stream')
            /\ m \in Nat /\ k \in DOMAIN Announced /\ k \in Nat
        BY <2>7, <2>8, <2>9, <2>12, <3>2
      <4> HIDE DEF m
      <4>2. /\ k < m => Announced[k].lsn < Announced[m].lsn
            /\ m < k => Announced[m].lsn < Announced[k].lsn
        BY <1>0, <4>1 DEF StreamInOrder, Increasing
      <4> QED
        BY <2>7, <4>1, <4>2
    <3> QED
      BY <3>1, <3>2
  <2>13. Numbers'
    <3>1. \A k \in DOMAIN Announced' :
            /\ Announced'[k].lsn <= last_assigned' /\ Announced'[k].id <= ids'
            /\ writer'.at \in {"publish", "reset"} => Announced'[k].id < writer'.id
      BY <1>0, <1>1, <1>7, <2>7 DEF Numbers
    <3> QED
      BY <1>0, <1>1, <1>7, <2>11, <2>12, <3>1 DEF Numbers
  <2>14. Hears'
    <3>1. parked' # <<>> => parked'[1].needs > durable'
      BY <1>7, <2>1
    <3>2. /\ deferred => durable_lsn \in reports' \cup {durable'}
          /\ writer.at = "activate" => durable_lsn \in reports' \cup {durable', writer.lsn}
      BY <1>0, <1>2, <1>3, <1>7 DEF Hears
    <3> QED
      BY <1>0, <1>1, <1>2, <1>3, <1>7, <3>1, <3>2 DEF Hears
  <2> QED
    BY <1>5, <2>3, <2>6, <2>10, <2>13, <2>14 DEF HubInv
<1> QED
  BY <1>2, <1>6, <1>7


\* What a checkpoint does to the WAL.
LEMMA CheckpointFacts ==
  ASSUME TypeOK, WalOrder, NEW has \in SUBSET Ids, checkpoint(has)
  PROVE  /\ next_lsn' = (IF Marker THEN next_lsn + 1 ELSE next_lsn)
         /\ next_lsn' \in Nat \ {0} /\ next_lsn' >= next_lsn
         /\ durable_lsn' = next_lsn' - 1 /\ durable_lsn' \in Nat
         /\ durable_lsn <= durable_lsn'
         /\ disk' = next_lsn' - 1 /\ disk' \in Nat /\ oldest' \in Nat
         /\ reports' = (IF durable_lsn < next_lsn' - 1 /\ listener
                        THEN reports \cup {next_lsn' - 1} ELSE reports)
         /\ reports' \subseteq Nat
         /\ bases' \subseteq [lsn : Nat, has : SUBSET Ids] /\ WalOrder'
         /\ UNCHANGED <<bg_failure, listener>>
<1> DEFINE fence == next_lsn - 1
           b == [lsn |-> fence, has |-> has]
           next == IF Marker THEN next_lsn + 1 ELSE next_lsn
<1>1. /\ next_lsn' = next /\ durable_lsn' = next - 1 /\ disk' = Bigger(disk, next - 1)
      /\ IF durable_lsn < next - 1 THEN Report(next - 1) ELSE UNCHANGED reports
      /\ bases' = Stored(b)
      /\ oldest' \in {oldest} \cup
           (IF MayTruncate
            THEN {o \in SegmentBases : oldest <= o /\ o <= fence + 1}
            ELSE {})
      /\ UNCHANGED <<bg_failure, listener>>
  BY DEF checkpoint
<1>2. /\ next_lsn \in Nat \ {0} /\ durable_lsn \in Nat /\ disk \in Nat /\ reports \subseteq Nat
      /\ disk <= durable_lsn /\ durable_lsn < next_lsn /\ oldest \in Nat
  BY DEF TypeOK, WalOrder
<1>3. next \in Nat \ {0} /\ next >= next_lsn /\ next - 1 \in Nat
  BY <1>2, ChangeHubAssumption
<1>4. b \in [lsn : Nat, has : SUBSET Ids] /\ b.lsn = next_lsn - 1
  BY <1>2
<1> HIDE DEF b
<1>5. bases' \subseteq bases \cup {b}
  BY <1>1 DEF Stored
<1>6. bases' \subseteq [lsn : Nat, has : SUBSET Ids]
  BY <1>4, <1>5 DEF TypeOK
<1>7. disk' = next - 1
  BY <1>1, <1>2, <1>3 DEF Bigger
<1>8. WalOrder'
  <2>1. \A o \in bases : o.lsn <= disk /\ o.lsn \in Nat
    BY DEF WalOrder, TypeOK
  <2> QED
    BY <1>1, <1>2, <1>3, <1>4, <1>5, <1>7, <2>1 DEF WalOrder
<1>9. oldest' \in Nat
  <2>1. SegmentBases \subseteq Int
    <3>1. \A t \in Txs : t.lsn \in Nat
      <4> TAKE t \in Txs
      <4>1. PICK i \in DOMAIN log : t = log[i]
        BY DEF Txs
      <4>2. log[i] \in Items
        BY <4>1 DEF TypeOK
      <4> QED
        BY <4>1, <4>2 DEF Items
    <3> QED
      BY <3>1 DEF SegmentBases
  <2>2. oldest' = oldest \/ (oldest' \in SegmentBases /\ oldest <= oldest')
    BY <1>1
  <2>3. oldest' \in Int /\ oldest <= oldest'
    <3>1. CASE oldest' = oldest
      BY <1>2, <3>1
    <3>2. CASE oldest' \in SegmentBases /\ oldest <= oldest'
      BY <2>1, <3>2
    <3> QED
      BY <2>2, <3>1, <3>2
  <2> QED
    BY <1>2, <2>3
<1>10. reports' = IF durable_lsn < next - 1 /\ listener THEN reports \cup {next - 1} ELSE reports
  BY <1>1 DEF Report
<1> HIDE DEF next
<1>11. reports' \subseteq Nat
  BY <1>2, <1>3, <1>10
<1>12. next_lsn' = (IF Marker THEN next_lsn + 1 ELSE next_lsn)
  BY <1>1 DEF next
<1> QED
  BY <1>1, <1>2, <1>3, <1>6, <1>7, <1>8, <1>9, <1>10, <1>11, <1>12

\* The hub hears of what a checkpoint or a replay made durable.
LEMMA HearsSync ==
  ASSUME TypeOK, Hears, WalOrder, UNCHANGED <<durable, parked, deferred, listener>>,
         durable_lsn' \in Nat, durable_lsn <= durable_lsn',
         \/ durable_lsn' = durable_lsn /\ reports' = reports
         \/ reports' = IF listener THEN reports \cup {durable_lsn'} ELSE reports,
         writer' = writer \/ writer'.at \notin {"read", "activate"}
  PROVE  Hears'
<1>1. /\ durable \in Nat /\ durable_lsn \in Nat /\ reports \subseteq Nat
      /\ (writer.at = "activate" => writer.lsn \in Nat)
  BY WriterFields DEF TypeOK
<1>2. /\ durable' <= durable_lsn' /\ \A d \in reports' : d <= durable_lsn'
      /\ (deferred' => durable_lsn' \in reports' \cup {durable'})
  <2>1. /\ durable <= durable_lsn /\ \A d \in reports : d <= durable_lsn
        /\ (deferred => durable_lsn \in reports \cup {durable})
    BY DEF Hears
  <2>2. durable <= durable_lsn' /\ \A d \in reports : d <= durable_lsn'
    BY <1>1, <2>1
  <2>3. CASE durable_lsn' = durable_lsn /\ reports' = reports
    BY <2>1, <2>2, <2>3
  <2>4. CASE reports' = IF listener THEN reports \cup {durable_lsn'} ELSE reports
    <3>1. deferred => listener
      BY DEF Hears
    <3> QED
      BY <2>1, <2>2, <2>4, <3>1
  <2> QED
    BY <2>3, <2>4
<1>3. writer'.at = "activate" =>
        writer'.lsn <= durable_lsn' /\ durable_lsn' \in reports' \cup {durable', writer'.lsn}
  BY <1>1 DEF Hears
<1>4. /\ deferred' \/ writer'.at \in {"read", "activate"} => listener'
      /\ parked' # <<>> => parked'[1].needs > durable'
  BY DEF Hears
<1> QED
  BY <1>2, <1>3, <1>4 DEF Hears

LEMMA CheckpointHub == ASSUME HubInv, Checkpoint PROVE HubInv'
<1> USE DEF process, hub, eaten
<1>0. TypeOK /\ Modes /\ LogOrder /\ WalOrder /\ StreamInOrder /\ Numbers /\ Hears
  BY DEF HubInv
<1>1. /\ ~closed /\ writer.at = "idle" /\ wal_backed /\ checkpoint(GraphAt(Len(log)))
      /\ UNCHANGED <<log, ids, writer, process, hub, feed, eaten>>
  BY DEF Checkpoint, Up
<1>2. GraphAt(Len(log)) \in SUBSET Ids
  <2>1. \A i \in 1 .. Len(log) : log[i] \in Items
    BY <1>0 DEF TypeOK
  <2> QED
    BY <2>1 DEF GraphAt, Items
<1>3. /\ next_lsn' \in Nat \ {0} /\ next_lsn' >= next_lsn
      /\ durable_lsn' = next_lsn' - 1 /\ durable_lsn' \in Nat /\ durable_lsn <= durable_lsn'
      /\ disk' \in Nat /\ oldest' \in Nat
      /\ reports' = (IF durable_lsn < next_lsn' - 1 /\ listener
                     THEN reports \cup {next_lsn' - 1} ELSE reports)
      /\ reports' \subseteq Nat
      /\ bases' \subseteq [lsn : Nat, has : SUBSET Ids] /\ WalOrder'
      /\ UNCHANGED <<bg_failure, listener>>
  BY <1>0, <1>1, <1>2, CheckpointFacts
<1>4. TypeOK' /\ Modes'
  BY <1>0, <1>1, <1>3 DEF TypeOK, Modes
<1>5. LogOrder' /\ StreamInOrder' /\ Numbers'
  BY <1>0, <1>1, <1>3, LogKept, StreamKept, NumbersKept
<1>6. Hears'
  <2>1. \/ durable_lsn' = durable_lsn /\ reports' = reports
        \/ reports' = IF listener THEN reports \cup {durable_lsn'} ELSE reports
    <3>1. durable_lsn \in Nat
      BY <1>0 DEF TypeOK
    <3>2. CASE durable_lsn < next_lsn' - 1
      BY <1>3, <3>2
    <3>3. CASE ~(durable_lsn < next_lsn' - 1)
      <4>1. durable_lsn' = durable_lsn
        <5>1. durable_lsn' = next_lsn' - 1 /\ durable_lsn' \in Nat /\ durable_lsn <= durable_lsn'
          BY <1>3
        <5> QED
          BY <3>1, <3>3, <5>1
      <4> QED
        BY <1>3, <3>3, <4>1
    <3> QED
      BY <3>2, <3>3
  <2> QED
    BY <1>0, <1>1, <1>3, <2>1, HearsSync
<1> QED
  BY <1>3, <1>4, <1>5, <1>6 DEF HubInv

LEMMA RestoreHub == ASSUME HubInv, Restore PROVE HubInv'
<1> USE DEF process, hub, eaten
<1>0. TypeOK /\ Modes /\ LogOrder /\ WalOrder /\ StreamInOrder /\ Numbers /\ Hears
  BY DEF HubInv
<1>1. /\ ~closed /\ writer.at = "idle" /\ wal_backed /\ ids < MaxItems
      /\ checkpoint({ids + 1})
      /\ log' = Append(log, Item("restore", next_lsn - 1)) /\ ids' = ids + 1
      /\ writer' = IF active THEN [at |-> "reset", lsn |-> next_lsn', id |-> ids + 1] ELSE Idle
      /\ UNCHANGED <<process, hub, feed, eaten>>
  BY DEF Restore, Up
<1>2. {ids + 1} \in SUBSET Ids /\ ids \in Nat /\ ids + 1 \in Ids
  BY <1>0, <1>1, ChangeHubAssumption DEF TypeOK, Ids
<1>3. /\ next_lsn' = (IF Marker THEN next_lsn + 1 ELSE next_lsn)
      /\ next_lsn' \in Nat \ {0} /\ next_lsn' >= next_lsn
      /\ durable_lsn' = next_lsn' - 1 /\ durable_lsn' \in Nat /\ durable_lsn <= durable_lsn'
      /\ disk' \in Nat /\ oldest' \in Nat
      /\ reports' = (IF durable_lsn < next_lsn' - 1 /\ listener
                     THEN reports \cup {next_lsn' - 1} ELSE reports)
      /\ reports' \subseteq Nat
      /\ bases' \subseteq [lsn : Nat, has : SUBSET Ids] /\ WalOrder'
      /\ UNCHANGED <<bg_failure, listener>>
  BY <1>0, <1>1, <1>2, CheckpointFacts
<1>4. /\ writer' \in WriterState /\ writer'.at \in {"idle", "reset"}
      /\ writer'.at = "reset" => active /\ writer'.lsn = next_lsn' /\ writer'.id = ids + 1
  <2>1. CASE active
    <3>1. writer' = [at |-> "reset", lsn |-> next_lsn', id |-> ids + 1]
      BY <1>1, <2>1
    <3> QED
      BY <1>2, <1>3, <2>1, <3>1 DEF WriterState
  <2>2. CASE ~active
    BY <1>1, <2>2, IdleType
  <2> QED
    BY <2>1, <2>2
<1>5. log' \in Seq(Items) /\ ids' \in 0 .. MaxItems /\ LogOrder'
  <2> DEFINE l == next_lsn - 1
  <2>1. l \in Nat /\ l < next_lsn' /\ l >= next_lsn - 1 /\ "restore" \in {"tx", "restore"}
        /\ next_lsn' \in Nat /\ next_lsn' >= next_lsn
    BY <1>0, <1>3 DEF TypeOK
  <2>2. log' = Append(log, Item("restore", l))
    BY <1>1
  <2>3. ids' = ids + 1 /\ wal_backed' = wal_backed /\ ids < MaxItems
    BY <1>1
  <2> HIDE DEF l
  <2> QED
    BY ONLY <1>0, <2>1, <2>2, <2>3, LogGrows
<1>6. TypeOK'
  BY <1>0, <1>1, <1>3, <1>4, <1>5 DEF TypeOK
<1>7. Modes'
  BY <1>0, <1>1, <1>3, <1>4 DEF Modes
<1>8. StreamInOrder' /\ Announced' = Announced
  BY <1>0, <1>1, StreamKept, AnnouncedKept
<1>9. Numbers'
  <2>1. \A k \in DOMAIN Announced : Announced[k].id \in Nat /\ Announced[k].lsn \in Nat
    BY <1>0, AnnouncedTypes
  <2>2. ASSUME NEW k \in DOMAIN Announced'
        PROVE  /\ Announced'[k].lsn <= last_assigned' /\ Announced'[k].id <= ids'
               /\ IF k <= Len(stream') THEN Announced'[k].lsn <= last_lsn'
                  ELSE Announced'[k].lsn > last_lsn'
               /\ writer'.at \in {"publish", "reset"} => Announced'[k].id < writer'.id
    <3>1. /\ k \in DOMAIN Announced /\ Announced[k].lsn <= last_assigned /\ Announced[k].id <= ids
          /\ IF k <= Len(stream) THEN Announced[k].lsn <= last_lsn
             ELSE Announced[k].lsn > last_lsn
      BY <1>0, <1>8, <2>2 DEF Numbers
    <3> QED
      BY <1>1, <1>2, <1>4, <1>8, <2>1, <3>1
  <2>3. /\ last_assigned \in Nat /\ next_lsn \in Nat /\ last_assigned' = last_assigned
        /\ last_lsn' <= last_assigned'
    BY <1>0, <1>1 DEF TypeOK, Numbers
  <2>4. active => last_assigned <= (IF Marker THEN next_lsn ELSE next_lsn + 1)
    BY <1>0, <1>1 DEF Numbers
  <2>5. /\ wal_backed' /\ active' => last_assigned' <= (IF Marker THEN next_lsn' ELSE next_lsn' + 1)
        /\ writer'.at = "reset" => (Marker => last_assigned' < writer'.lsn)
    BY <1>1, <1>3, <1>4, <2>3, <2>4
  <2> QED
    BY <1>1, <1>2, <1>4, <2>2, <2>3, <2>5 DEF Numbers
<1>10. Hears'
  <2>1. \/ durable_lsn' = durable_lsn /\ reports' = reports
        \/ reports' = IF listener THEN reports \cup {durable_lsn'} ELSE reports
    BY <1>0, <1>3 DEF TypeOK
  <2>2. writer'.at \notin {"read", "activate"}
    BY <1>4
  <2> QED
    BY <1>0, <1>1, <1>3, <2>1, <2>2, HearsSync
<1> QED
  BY <1>3, <1>5, <1>6, <1>7, <1>8, <1>9, <1>10 DEF HubInv

LEMMA RetentionHub == ASSUME HubInv, set_retention PROVE HubInv'
<1> USE DEF process, wal, eaten
<1>0. TypeOK /\ Modes /\ LogOrder /\ WalOrder /\ StreamInOrder /\ Numbers /\ Hears
  BY DEF HubInv
<1>1. /\ active
      /\ UNCHANGED <<log, ids, wal, reports, writer, process, active, closed, last_lsn,
                     last_assigned, deferred, durable, parked, stream, since, feed, eaten>>
  BY DEF set_retention
<1>2. PICK r \in Retentions \ {retention} :
        /\ retention' = r
        /\ ring' = Trimmed(ring, r) /\ ring_floor' = FloorAfter(ring, r, ring_floor)
  BY DEF set_retention
<1>3. /\ ring \in Seq(Batch) /\ r \in Nat /\ ring_floor \in Nat /\ r \in Retentions
      /\ next_lsn' \in Nat /\ next_lsn' >= next_lsn
  BY <1>0, <1>1, <1>2, ChangeHubAssumption DEF TypeOK
<1>4. ring' \in Seq(Batch) /\ ring_floor' \in Nat
  BY <1>2, <1>3, TrimFacts
<1>5. TypeOK'
  BY <1>0, <1>1, <1>2, <1>3, <1>4 DEF TypeOK
<1>6. Modes'
  BY <1>0, <1>1 DEF Modes
<1>7. WalOrder' /\ Hears'
  BY <1>0, <1>1 DEF WalOrder, Hears
<1>8. LogOrder' /\ StreamInOrder' /\ Numbers'
  BY <1>0, <1>1, <1>3, LogKept, StreamKept, NumbersKept
<1> QED
  BY <1>5, <1>6, <1>7, <1>8 DEF HubInv

LEMMA CloseHub == ASSUME HubInv, close PROVE HubInv'
<1> USE DEF process, wal, eaten
<1>0. TypeOK /\ Modes /\ LogOrder /\ WalOrder /\ StreamInOrder /\ Numbers /\ Hears
  BY DEF HubInv
<1>1. /\ active /\ writer.at = "idle" /\ closed' = TRUE /\ parked' = <<>>
      /\ feed' = [f \in Feeds |-> Closed(feed[f])]
      /\ UNCHANGED <<log, ids, wal, reports, writer, process, active, last_lsn,
                     last_assigned, deferred, durable, ring, ring_floor, retention,
                     stream, since, eaten>>
  BY DEF close, Up
<1>2. closed' \in BOOLEAN /\ parked' \in Seq(Waiting)
  <2>1. closed' \in BOOLEAN
    BY <1>1, Zenon
  <2> QED
    BY <1>1, <2>1
<1>3. \A f \in Feeds : /\ feed'[f] = Closed(feed[f]) /\ feed[f] \in FeedState
                       /\ feed'[f] \in FeedState
  <2> TAKE f \in Feeds
  <2>1. feed[f] \in FeedState
    BY <1>0 DEF TypeOK
  <2>2. feed'[f] = Closed(feed[f])
    BY <1>1
  <2> QED
    BY <2>1, <2>2, ClosedFacts
<1>4. TypeOK'
  <2>1. feed' \in [Feeds -> FeedState]
    BY <1>1, <1>3
  <2> QED
    BY <1>0, <1>1, <1>2, <2>1 DEF TypeOK
<1>5. \A f \in Feeds :
        /\ feed'[f].status = "none" => feed'[f] = NoFeed
        /\ feed'[f].hist \in {"planned", "running"} => wal_backed
  <2> TAKE f \in Feeds
  <2>1. /\ feed[f].status = "none" => feed[f] = NoFeed
        /\ feed[f].hist \in {"planned", "running"} => wal_backed
    BY <1>0 DEF Modes
  <2> DEFINE F == feed[f]
             G == feed'[f]
  <2>2. F \in FeedState /\ G = Closed(F)
    BY <1>3
  <2>3. /\ F.status = "none" => F = NoFeed
        /\ F.hist \in {"planned", "running"} => wal_backed
    BY <2>1
  <2> HIDE DEF F, G
  <2>4. CASE F.status \in {"none", "closed"}
    <3>1. G = F
      BY <2>2, <2>4, ClosedFacts
    <3> QED
      BY <2>3, <3>1 DEF G
  <2>5. CASE F.status \notin {"none", "closed"}
    <3>1. G = Pushed(F, <<>>, "closed")
      BY <2>2, <2>5, ClosedFacts
    <3>2. G.status = "closed" /\ G.hist = F.hist
      <4> DEFINE e == <<>>
      <4>1. e \in Seq(Batch) /\ "closed" \in Statuses /\ G = Pushed(F, e, "closed")
        BY <3>1 DEF Statuses
      <4> HIDE DEF e
      <4> QED
        BY <2>2, <4>1, FeedPushed
    <3> QED
      BY <2>3, <3>2 DEF G
  <2> QED
    BY <2>4, <2>5
<1>6. Modes'
  BY <1>0, <1>1, <1>5 DEF Modes
<1>7. WalOrder' /\ LogOrder' /\ Hears'
  BY <1>0, <1>1 DEF WalOrder, LogOrder, Hears
<1>8. /\ \A k \in DOMAIN Announced' : k \in DOMAIN Announced /\ Announced'[k] = Announced[k]
      /\ \A k \in DOMAIN Announced' : k <= Len(stream')
      /\ stream' = stream
  <2>1. /\ DOMAIN Announced = 1 .. Len(stream) + Len(parked)
        /\ Len(stream) \in Nat /\ Len(parked) \in Nat
        /\ \A k \in 1 .. Len(stream) : Announced[k] = stream[k]
    BY <1>0, AnnouncedFacts DEF TypeOK
  <2>2. (parked \in Seq(Waiting) /\ stream \in Seq(Batch) =>
           /\ DOMAIN Announced = 1 .. Len(stream) + Len(parked)
           /\ \A k \in 1 .. Len(stream) : Announced[k] = stream[k])'
    BY AnnouncedFacts, PTL
  <2>3. /\ DOMAIN Announced' = 1 .. Len(stream) + 0
        /\ \A k \in 1 .. Len(stream) : Announced'[k] = stream[k]
    BY <1>0, <1>1, <1>2, <2>2 DEF TypeOK
  <2> QED
    BY <1>1, <2>1, <2>3
<1>9. StreamInOrder'
  BY <1>0, <1>1, <1>8 DEF StreamInOrder, Increasing
<1>10. Numbers'
  BY <1>0, <1>1, <1>8 DEF Numbers
<1> QED
  BY <1>4, <1>6, <1>7, <1>9, <1>10 DEF HubInv

\* What a restart keeps of the log is its front.
LEMMA LogCut ==
  ASSUME TypeOK, NEW cut \in Int, log' = SubSeq(log, 1, UpTo(log, cut))
  PROVE  /\ log' \in Seq(Items) /\ UpTo(log, cut) \in 0 .. Len(log)
         /\ DOMAIN log = 1 .. Len(log) /\ DOMAIN log' = 1 .. UpTo(log, cut) /\ Len(log) \in Nat
         /\ \A i \in DOMAIN log' : i \in DOMAIN log /\ log'[i] = log[i] /\ log'[i].lsn <= cut
         /\ UpTo(log, cut) < Len(log) => log[UpTo(log, cut) + 1].lsn > cut
<1> DEFINE n == UpTo(log, cut)
<1>1. log \in Seq(Items) /\ Len(log) \in Nat /\ DOMAIN log = 1 .. Len(log)
  BY DEF TypeOK
<1>2. \A i \in 1 .. Len(log) : log[i].lsn \in Int
  <2>1. \A i \in 1 .. Len(log) : log[i] \in Items
    BY <1>1
  <2> QED
    BY <2>1 DEF Items
<1>3. /\ n \in 0 .. Len(log) /\ \A i \in 1 .. n : log[i].lsn <= cut
      /\ n < Len(log) => log[n + 1].lsn > cut
  BY <1>1, <1>2, UpToFacts
<1>4. log' = SubSeq(log, 1, n)
  OBVIOUS
<1> HIDE DEF n
<1>5. /\ SubSeq(log, 1, n) \in Seq(Items) /\ Len(SubSeq(log, 1, n)) = n
      /\ \A i \in 1 .. n : SubSeq(log, 1, n)[i] = log[i]
  BY <1>1, <1>3
<1>6. log' \in Seq(Items) /\ Len(log') = n /\ DOMAIN log' = 1 .. n
  <2>1. log' \in Seq(Items) /\ Len(log') = n
    BY <1>4, <1>5
  <2> QED
    BY <2>1
<1>7. \A i \in DOMAIN log' : i \in DOMAIN log /\ log'[i] = log[i] /\ log'[i].lsn <= cut
  BY <1>1, <1>3, <1>4, <1>5, <1>6
<1> QED
  BY <1>1, <1>3, <1>4, <1>5, <1>6, <1>7 DEF n

LEMMA RestartHub == ASSUME HubInv, Restart PROVE HubInv'
<1> USE DEF eaten
<1>0. TypeOK /\ Modes /\ LogOrder /\ WalOrder /\ StreamInOrder /\ Numbers /\ Hears
  BY DEF HubInv
<1>1. /\ wal_backed /\ crashes' = crashes + 1
      /\ bg_failure' = FALSE /\ listener' = FALSE /\ reports' = {} /\ writer' = Idle
      /\ active' = FALSE /\ closed' = FALSE /\ last_lsn' = 0 /\ last_assigned' = 0
      /\ deferred' = FALSE /\ durable' = 0 /\ parked' = <<>> /\ ring' = <<>>
      /\ ring_floor' = 0 /\ retention' \in Retentions /\ stream' = <<>> /\ since' = 0
      /\ feed' = [f \in Feeds |-> NoFeed]
      /\ UNCHANGED <<ids, oldest, bases, eaten, wal_backed>>
  BY DEF Restart
<1>2. PICK cut \in disk .. next_lsn - 1 : \E ondisk \in disk .. cut : Reopened(cut, ondisk)
  <2>1. disk \in Nat /\ next_lsn \in Nat /\ disk <= next_lsn - 1
    BY <1>0 DEF TypeOK, WalOrder
  <2>2. \/ Reopened(next_lsn - 1, disk)
        \/ \E cut \in disk .. next_lsn - 1 : Reopened(cut, cut)
    BY DEF Restart
  <2>3. /\ next_lsn - 1 \in disk .. next_lsn - 1 /\ disk \in disk .. next_lsn - 1
        /\ \A cut \in disk .. next_lsn - 1 : cut \in disk .. cut
    BY <2>1
  <2> QED
    BY <2>2, <2>3
<1>a. PICK ondisk \in disk .. cut : Reopened(cut, ondisk)
  BY <1>2
<1>3. /\ log' = SubSeq(log, 1, UpTo(log, cut)) /\ next_lsn' = cut + 1 /\ durable_lsn' = cut
      /\ disk' = ondisk /\ disk \in Nat /\ next_lsn \in Nat /\ cut \in Nat /\ ondisk \in Nat
      /\ disk <= ondisk /\ ondisk <= cut
  BY <1>0, <1>a DEF Reopened, TypeOK
<1>4. /\ log' \in Seq(Items)
      /\ \A i \in DOMAIN log' : i \in DOMAIN log /\ log'[i] = log[i] /\ log'[i].lsn <= cut
  <2>1. TypeOK /\ cut \in Int /\ log' = SubSeq(log, 1, UpTo(log, cut))
    BY <1>0, <1>3
  <2> QED
    BY ONLY <2>1, LogCut
<1>5. \A f \in Feeds : feed'[f] = NoFeed
  BY <1>1
<1>6. TypeOK'
  <2>1. feed' \in [Feeds -> FeedState]
    BY <1>1, NoFeedFields
  <2>2. writer' \in WriterState
    BY <1>1, IdleType
  <2>3. /\ bg_failure' \in BOOLEAN /\ listener' \in BOOLEAN /\ active' \in BOOLEAN
        /\ closed' \in BOOLEAN /\ deferred' \in BOOLEAN
    BY <1>1, Zenon
  <2>4. /\ parked' \in Seq(Waiting) /\ ring' \in Seq(Batch) /\ stream' \in Seq(Batch)
    BY <1>1
  <2>5. /\ last_lsn' \in Nat /\ last_assigned' \in Nat /\ durable' \in Nat
        /\ ring_floor' \in Nat /\ since' \in Nat /\ reports' \subseteq Nat
        /\ crashes' \in Nat /\ next_lsn' \in Nat \ {0} /\ durable_lsn' \in Nat /\ disk' \in Nat
    BY <1>0, <1>1, <1>3 DEF TypeOK
  <2>6. retention' \in Retentions
    BY <1>1
  <2>7. /\ ids' \in 0 .. MaxItems /\ oldest' \in Nat
        /\ bases' \subseteq [lsn : Nat, has : SUBSET Ids]
        /\ wal_backed' \in BOOLEAN
        /\ token' \in [Feeds -> Places] /\ begun' \in [Feeds -> Places]
        /\ got' \in [Feeds -> Seq(Delivered)]
    BY <1>0, <1>1 DEF TypeOK
  <2> QED
    BY <1>4, <2>1, <2>2, <2>3, <2>4, <2>5, <2>6, <2>7 DEF TypeOK
<1>7. Modes'
  BY <1>1, <1>5, IdleType, NoFeedFields DEF Modes
<1>8. LogOrder'
  <2>1. \A i \in DOMAIN log' : log'[i].lsn \in Nat
    <3>1. \A i \in DOMAIN log' : log'[i] \in Items
      BY <1>4
    <3> QED
      BY <3>1 DEF Items
  <2>2. \A i \in DOMAIN log' : log'[i].lsn < next_lsn'
    BY <1>3, <1>4, <2>1
  <2> QED
    BY <1>0, <1>1, <1>4, <2>2 DEF LogOrder
<1>9. WalOrder'
  <2>1. \A b \in bases : b.lsn \in Nat /\ b.lsn <= disk
    BY <1>0 DEF TypeOK, WalOrder
  <2> QED
    BY <1>1, <1>3, <2>1 DEF WalOrder
<1>10. Announced' = <<>> /\ DOMAIN Announced' = {}
  <2>1. (parked \in Seq(Waiting) /\ stream \in Seq(Batch) =>
           /\ Announced \in Seq(Batch) /\ Len(Announced) = Len(stream) + Len(parked)
           /\ DOMAIN Announced = 1 .. Len(stream) + Len(parked))'
    BY AnnouncedFacts, PTL
  <2>2. Announced' \in Seq(Batch) /\ Len(Announced') = 0 /\ DOMAIN Announced' = 1 .. 0
    BY <1>1, <2>1
  <2> QED
    BY <2>2
<1>11. StreamInOrder' /\ Numbers'
  BY <1>1, <1>10, IdleType DEF StreamInOrder, Increasing, Numbers
<1>12. Hears'
  BY <1>1, <1>3, IdleType DEF Hears
<1> QED
  BY <1>6, <1>7, <1>8, <1>9, <1>11, <1>12 DEF HubInv

\* A consumer's step touches nothing of the hub but its own feed.
LEMMA ConsumerKeeps ==
  ASSUME HubInv, NEW f \in Feeds, NEW G \in FeedState, Becomes(f, G),
         G.status = "none" => G = NoFeed,
         G.hist \in {"planned", "running"} => wal_backed,
         active \/ G = NoFeed,
         UNCHANGED <<log, ids, next_lsn, oldest, bases, bg_failure, listener, writer,
                     process, hub>>,
         token' \in [Feeds -> Places], begun' \in [Feeds -> Places],
         got' \in [Feeds -> Seq(Delivered)],
         \/ UNCHANGED <<durable_lsn, disk, reports>>
         \/ /\ wal_backed /\ durable_lsn' = next_lsn - 1
            /\ disk' = Bigger(disk, next_lsn - 1) /\ Report(next_lsn - 1)
  PROVE  HubInv'
<1> USE DEF process, hub
<1>0. TypeOK /\ Modes /\ LogOrder /\ WalOrder /\ StreamInOrder /\ Numbers /\ Hears
  BY DEF HubInv
<1>1. /\ feed' \in [Feeds -> FeedState] /\ feed'[f] = G
      /\ \A g \in Feeds : g # f => feed'[g] = feed[g]
  BY DEF Becomes
<1>2. next_lsn \in Nat \ {0} /\ durable_lsn \in Nat /\ disk \in Nat /\ reports \subseteq Nat
      /\ disk <= durable_lsn /\ durable_lsn < next_lsn
  BY <1>0 DEF TypeOK, WalOrder
<1>3. /\ durable_lsn' \in Nat /\ disk' \in Nat /\ reports' \subseteq Nat /\ WalOrder' /\ Hears'
      /\ ~wal_backed => UNCHANGED <<durable_lsn, disk, reports>>
  <2>1. CASE UNCHANGED <<durable_lsn, disk, reports>>
    BY <1>0, <1>2, <2>1 DEF WalOrder, Hears
  <2>2. CASE /\ wal_backed /\ durable_lsn' = next_lsn - 1
             /\ disk' = Bigger(disk, next_lsn - 1) /\ Report(next_lsn - 1)
    <3>1. disk' = next_lsn - 1
      BY <1>2, <2>2 DEF Bigger
    <3>2. reports' = IF listener THEN reports \cup {next_lsn - 1} ELSE reports
      BY <2>2 DEF Report
    <3>3. durable_lsn' \in Nat /\ disk' \in Nat /\ durable_lsn <= durable_lsn' /\ next_lsn - 1 \in Nat
      BY <1>2, <2>2, <3>1
    <3>4. reports' \subseteq Nat
      BY <1>2, <3>2, <3>3
    <3>5. WalOrder'
      <4>1. \A b \in bases : b.lsn \in Nat /\ b.lsn <= disk
        BY <1>0 DEF TypeOK, WalOrder
      <4> QED
        BY <1>2, <2>2, <3>1, <4>1 DEF WalOrder
    <3>6. Hears'
      <4>1. reports' = IF listener THEN reports \cup {durable_lsn'} ELSE reports
        BY <2>2, <3>2
      <4> QED
        BY <1>0, <3>3, <4>1, HearsSync
    <3> QED
      BY <2>2, <3>3, <3>4, <3>5, <3>6
  <2> QED
    BY <2>1, <2>2
<1>4. TypeOK'
  BY <1>0, <1>1, <1>2, <1>3 DEF TypeOK
<1>5. \A g \in Feeds :
        /\ feed'[g].status = "none" => feed'[g] = NoFeed
        /\ feed'[g].hist \in {"planned", "running"} => wal_backed
        /\ ~active => feed'[g].status = "none"
  BY <1>0, <1>1, NoFeedFields DEF Modes
<1>6. Modes'
  BY <1>0, <1>3, <1>5 DEF Modes
<1>7. LogOrder' /\ StreamInOrder' /\ Numbers'
  BY <1>0, <1>2, LogKept, StreamKept, NumbersKept
<1> QED
  BY <1>3, <1>4, <1>6, <1>7 DEF HubInv

\* What a consumer is handed is a batch.
LEMMA DeliverTypes ==
  ASSUME TypeOK, NEW f \in Feeds, NEW b \in Delivered, Deliver(f, b)
  PROVE  /\ token' \in [Feeds -> Places] /\ begun' \in [Feeds -> Places]
         /\ got' \in [Feeds -> Seq(Delivered)]
<1>1. /\ token' = [token EXCEPT ![f] = b.lsn] /\ got' = [got EXCEPT ![f] = Append(got[f], b)]
      /\ begun' = begun /\ b.lsn \in Places
  BY DEF Deliver, Delivered, Places
<1>2. Append(got[f], b) \in Seq(Delivered)
  <2>1. got[f] \in Seq(Delivered)
    BY DEF TypeOK
  <2> QED
    BY <2>1
<1> QED
  BY <1>1, <1>2 DEF TypeOK

LEMMA StartOverTypes ==
  ASSUME TypeOK, NEW f \in Feeds, StartOver(f)
  PROVE  /\ token' \in [Feeds -> Places] /\ begun' \in [Feeds -> Places]
         /\ got' \in [Feeds -> Seq(Delivered)]
<1>1. NoLsn \in Places
  BY DEF Places
<1> QED
  BY <1>1 DEF StartOver, TypeOK

LEMMA EatenTypes ==
  ASSUME TypeOK, UNCHANGED eaten
  PROVE  /\ token' \in [Feeds -> Places] /\ begun' \in [Feeds -> Places]
         /\ got' \in [Feeds -> Seq(Delivered)]
  BY DEF TypeOK, eaten

\* A feed with anything of its own is one of an active hub.
LEMMA FeedActive ==
  ASSUME HubInv, NEW f \in Feeds
  PROVE  /\ feed[f] \in FeedState
         /\ feed[f].status = "none" => feed[f] = NoFeed
         /\ \/ feed[f].hist # "no" \/ feed[f].backlog # <<>> \/ feed[f].queue # <<>>
            \/ feed[f].status # "none"
            => active /\ feed[f].status # "none"
         /\ feed[f].hist \in {"planned", "running"} => wal_backed
<1>1. TypeOK /\ Modes
  BY DEF HubInv
<1>2. feed[f].status = "none" => feed[f] = NoFeed
  BY <1>1 DEF Modes
<1>3. ~active => feed[f].status = "none"
  BY <1>1 DEF Modes
<1> QED
  BY <1>1, <1>2, <1>3, NoFeedFields DEF TypeOK, Modes

LEMMA SubscribeHub == ASSUME HubInv, NEW f \in Feeds, Subscribe(f) PROVE HubInv'
<1> USE DEF wal, eaten, ResumesFrom
<1>0. TypeOK
  BY DEF HubInv
<1>1. /\ active /\ ~closed /\ feed[f].status = "none"
      /\ UNCHANGED <<log, ids, wal, reports, writer, process, hub>>
  BY <1>0, SubscribeFacts
<1>2. /\ last_lsn \in Nat /\ ring_floor \in Nat /\ ids \in Nat /\ token[f] \in Places
  BY <1>0, ChangeHubAssumption DEF TypeOK
<1>3. CASE StartOver(f) /\ UNCHANGED feed
  <2>1. Becomes(f, feed[f]) /\ feed[f] \in FeedState
    BY <1>0, <1>3 DEF Becomes, TypeOK
  <2>2. /\ token' \in [Feeds -> Places] /\ begun' \in [Feeds -> Places]
        /\ got' \in [Feeds -> Seq(Delivered)]
    BY <1>0, <1>3, StartOverTypes
  <2>3. /\ feed[f].status = "none" => feed[f] = NoFeed
        /\ feed[f].hist \in {"planned", "running"} => wal_backed
    BY FeedActive
  <2> QED
    BY <1>1, <2>1, <2>2, <2>3, ConsumerKeeps
<1>4. CASE /\ UNCHANGED <<token, got>> /\ token[f] = NoLsn
           /\ begun' = [begun EXCEPT ![f] = NoLsn]
           /\ Becomes(f, FreshFeed(ids, last_lsn))
  <2> DEFINE G == FreshFeed(ids, last_lsn)
  <2>1. G = FreshFeed(ids, last_lsn) /\ Becomes(f, G)
    BY <1>4
  <2> HIDE DEF G
  <2>2. G \in FeedState /\ G.status = "open" /\ G.hist = "no"
    BY <1>2, <2>1, FeedFresh
  <2>3. /\ token' \in [Feeds -> Places] /\ begun' \in [Feeds -> Places]
        /\ got' \in [Feeds -> Seq(Delivered)]
    BY <1>0, <1>4 DEF TypeOK, Places
  <2> QED
    BY <1>1, <2>1, <2>2, <2>3, ConsumerKeeps
<1>5. CASE /\ UNCHANGED <<token, got>>
           /\ \E from \in Nat : ResumesFrom(f, from)
  <2>1. PICK from \in Nat : ResumesFrom(f, from)
    BY <1>5
  <2> DEFINE h == IF from >= ring_floor THEN "no" ELSE "wanted"
             bl == After(ring, from)
             G == ResumedFeed(ids, from, ring_floor, bl, h)
  <2>2. h \in Hists /\ h \notin {"planned", "running"} /\ bl \in Seq(Batch)
    BY <2>1 DEF Hists
  <2>3. Becomes(f, G)
    BY <2>1
  <2>4. G = ResumedFeed(ids, from, ring_floor, bl, h)
    OBVIOUS
  <2> HIDE DEF G, h, bl
  <2>5. G \in FeedState /\ G.status = "open" /\ G.hist = h
    BY <1>2, <2>2, <2>4, FeedResumed
  <2>6. /\ token' \in [Feeds -> Places] /\ begun' \in [Feeds -> Places]
        /\ got' \in [Feeds -> Seq(Delivered)]
    BY <1>0, <1>5, <2>1 DEF TypeOK, Places
  <2>7. UNCHANGED <<durable_lsn, disk, reports>>
    BY <1>1
  <2>8. UNCHANGED <<log, ids, next_lsn, oldest, bases, bg_failure, listener, writer, process, hub>>
    BY <1>1
  <2> QED
    BY <1>1, <2>2, <2>3, <2>5, <2>6, <2>7, <2>8, ConsumerKeeps
<1>6. \/ StartOver(f) /\ UNCHANGED feed
      \/ /\ UNCHANGED <<token, got>> /\ token[f] = NoLsn
         /\ begun' = [begun EXCEPT ![f] = NoLsn]
         /\ Becomes(f, FreshFeed(ids, last_lsn))
      \/ /\ UNCHANGED <<token, got>>
         /\ \E from \in Nat : ResumesFrom(f, from)
  BY <1>0, SubscribeFacts
<1> QED
  BY <1>3, <1>4, <1>5, <1>6

LEMMA PlanHub == ASSUME HubInv, NEW f \in Feeds, Plan(f) PROVE HubInv'
<1> USE DEF wal, PlannedOn
<1>0. TypeOK
  BY DEF HubInv
<1>1. /\ feed[f].hist = "wanted"
      /\ UNCHANGED <<log, ids, wal, reports, writer, process, hub>>
  BY <1>0, PlanFacts
<1>2. active /\ feed[f] \in FeedState /\ feed[f].status # "none"
  BY <1>1, FeedActive
<1>3. CASE Becomes(f, NoFeed) /\ StartOver(f)
  <2>1. /\ token' \in [Feeds -> Places] /\ begun' \in [Feeds -> Places]
        /\ got' \in [Feeds -> Seq(Delivered)]
    BY <1>0, <1>3, StartOverTypes
  <2> QED
    BY <1>1, <1>3, <2>1, NoFeedFields, ConsumerKeeps
<1>4. CASE /\ wal_backed /\ UNCHANGED eaten
           /\ \E b \in bases \cup {EmptyBase} : PlannedOn(f, b)
  <2>1. PICK b \in bases \cup {EmptyBase} : PlannedOn(f, b)
    BY <1>4
  <2> DEFINE G == Moved(feed[f], "planned", b.lsn, b.has, feed[f].pos, feed[f].from)
  <2>2. G = Moved(feed[f], "planned", b.lsn, b.has, feed[f].pos, feed[f].from) /\ Becomes(f, G)
    BY <2>1
  <2> HIDE DEF G
  <2>3. "planned" \in Hists /\ feed[f].pos \in Nat /\ feed[f].from \in Nat
    BY <1>2, FeedFields DEF Hists
  <2>4. G \in FeedState /\ G.status = feed[f].status
    BY <1>2, <2>1, <2>2, <2>3, FeedMoved
  <2>5. /\ token' \in [Feeds -> Places] /\ begun' \in [Feeds -> Places]
        /\ got' \in [Feeds -> Seq(Delivered)]
    BY <1>0, <1>4, EatenTypes
  <2> QED
    BY <1>1, <1>2, <1>4, <2>2, <2>4, <2>5, ConsumerKeeps
<1> QED
  BY <1>0, <1>3, <1>4, PlanFacts

LEMMA HistoryStartHub == ASSUME HubInv, NEW f \in Feeds, HistoryStart(f) PROVE HubInv'
<1>0. TypeOK
  BY DEF HubInv
<1>1. /\ feed[f].hist = "planned"
      /\ UNCHANGED <<log, ids, next_lsn, oldest, bases, bg_failure, listener, writer,
                     process, hub, eaten>>
  BY <1>0, HistoryStartFacts
<1>2. active /\ wal_backed /\ feed[f] \in FeedState /\ feed[f].status # "none"
  BY <1>1, FeedActive
<1>3. /\ token' \in [Feeds -> Places] /\ begun' \in [Feeds -> Places]
      /\ got' \in [Feeds -> Seq(Delivered)]
  BY <1>0, <1>1, EatenTypes
<1>4. ASSUME NEW G \in FeedState, Becomes(f, G), G.status # "none",
             \/ UNCHANGED <<durable_lsn, disk, reports>>
             \/ /\ durable_lsn' = next_lsn - 1
                /\ disk' = Bigger(disk, next_lsn - 1) /\ Report(next_lsn - 1)
      PROVE  HubInv'
  BY <1>1, <1>2, <1>3, <1>4, ConsumerKeeps
<1>5. ASSUME Becomes(f, Ended(feed[f], <<>>)),
             \/ UNCHANGED <<durable_lsn, disk, reports>>
             \/ /\ durable_lsn' = next_lsn - 1
                /\ disk' = Bigger(disk, next_lsn - 1) /\ Report(next_lsn - 1)
      PROVE  HubInv'
  <2> DEFINE e == <<>>
             G == Ended(feed[f], e)
  <2>1. e \in Seq(Batch) /\ G = Ended(feed[f], e) /\ Becomes(f, G)
    BY <1>5
  <2> HIDE DEF e, G
  <2>2. G \in FeedState /\ G.status = "closed"
    BY <1>2, <2>1, FeedEnded
  <2> QED
    BY <1>4, <1>5, <2>1, <2>2
<1>6. ASSUME NEW s \in SUBSET Ids,
             Becomes(f, Moved(feed[f], "running", feed[f].base, s, feed[f].base, oldest)),
             \/ UNCHANGED <<durable_lsn, disk, reports>>
             \/ /\ durable_lsn' = next_lsn - 1
                /\ disk' = Bigger(disk, next_lsn - 1) /\ Report(next_lsn - 1)
      PROVE  HubInv'
  <2> DEFINE G == Moved(feed[f], "running", feed[f].base, s, feed[f].base, oldest)
  <2>1. G = Moved(feed[f], "running", feed[f].base, s, feed[f].base, oldest) /\ Becomes(f, G)
    BY <1>6
  <2> HIDE DEF G
  <2>2. "running" \in Hists /\ feed[f].base \in Nat /\ oldest \in Nat
    BY <1>0, <1>2, FeedFields DEF Hists, TypeOK
  <2>3. G \in FeedState /\ G.status = feed[f].status
    BY <1>2, <2>1, <2>2, FeedMoved
  <2> QED
    BY <1>2, <1>4, <1>6, <2>1, <2>3
<1>7. \/ UNCHANGED <<durable_lsn, disk, reports>> /\ Becomes(f, Ended(feed[f], <<>>))
      \/ /\ \/ durable_lsn >= feed[f].upto /\ UNCHANGED <<durable_lsn, disk, reports>>
            \/ /\ durable_lsn < feed[f].upto /\ durable_lsn' = next_lsn - 1
               /\ disk' = Bigger(disk, next_lsn - 1) /\ Report(next_lsn - 1)
         /\ \E s \in SUBSET Ids :
              /\ s = feed[f].seen \/ \E b \in bases : b.lsn = feed[f].base /\ s = b.has
              /\ Becomes(f, Moved(feed[f], "running", feed[f].base, s, feed[f].base, oldest))
      \/ /\ durable_lsn < feed[f].upto /\ durable_lsn' = next_lsn - 1
         /\ disk' = Bigger(disk, next_lsn - 1) /\ Report(next_lsn - 1)
         /\ Becomes(f, Ended(feed[f], <<>>))
  BY <1>0, HistoryStartFacts
<1> QED
  BY <1>5, <1>6, <1>7

\* A consumer's step that leaves its feed open.
LEMMA FeedGoesOn ==
  ASSUME HubInv, NEW f \in Feeds, NEW G \in FeedState, Becomes(f, G), active,
         G.status # "none", G.hist = feed[f].hist \/ G.hist \notin {"planned", "running"},
         UNCHANGED <<log, ids, wal, reports, writer, process, hub>>,
         token' \in [Feeds -> Places], begun' \in [Feeds -> Places],
         got' \in [Feeds -> Seq(Delivered)]
  PROVE  HubInv'
<1>1. UNCHANGED <<log, ids, next_lsn, oldest, bases, bg_failure, listener, writer, process, hub>>
      /\ UNCHANGED <<durable_lsn, disk, reports>>
  BY DEF wal
<1>2. feed[f].hist \in {"planned", "running"} => wal_backed
  BY FeedActive
<1> QED
  BY <1>1, <1>2, ConsumerKeeps

\* A consumer is handed a batch of one of these.
LEMMA LiveTypes == ASSUME NEW b \in Batch PROVE Live(b) \in Delivered
<1> DEFINE G(g) == [lsn |-> b.lsn, id |-> b.id, good |-> g]
<1>1. \A g \in BOOLEAN : G(g) \in Delivered
  BY DEF Batch, Delivered
<1>2. Live(b) = G(TRUE)
  BY DEF Live
<1> HIDE DEF G
<1> QED
  BY <1>1, <1>2, Zenon

LEMMA TookHub ==
  ASSUME HubInv, NEW f \in Feeds, active, feed[f].status # "none",
         NEW q \in Seq(Batch), NEW b \in Seq(Batch), NEW l \in Places, NEW s \in SUBSET Ids,
         NEW p \in Nat, Becomes(f, Took(feed[f], q, b, l, s, p)),
         UNCHANGED <<log, ids, wal, reports, writer, process, hub>>,
         token' \in [Feeds -> Places], begun' \in [Feeds -> Places],
         got' \in [Feeds -> Seq(Delivered)]
  PROVE  HubInv'
<1> DEFINE G == Took(feed[f], q, b, l, s, p)
<1>1. G = Took(feed[f], q, b, l, s, p) /\ Becomes(f, G) /\ feed[f] \in FeedState
  BY FeedActive
<1> HIDE DEF G
<1>2. G \in FeedState /\ G.status = feed[f].status /\ G.hist = feed[f].hist
  BY <1>1, FeedTook
<1> QED
  BY <1>1, <1>2, FeedGoesOn

LEMMA EndedHub ==
  ASSUME HubInv, NEW f \in Feeds, active, Becomes(f, Ended(feed[f], <<>>)),
         UNCHANGED <<log, ids, wal, reports, writer, process, hub, eaten>>
  PROVE  HubInv'
<1> DEFINE e == <<>>
           G == Ended(feed[f], e)
<1>1. e \in Seq(Batch) /\ G = Ended(feed[f], e) /\ Becomes(f, G) /\ feed[f] \in FeedState
  BY FeedActive
<1> HIDE DEF e, G
<1>2. G \in FeedState /\ G.status = "closed" /\ G.hist = feed[f].hist
  BY <1>1, FeedEnded
<1>3. /\ token' \in [Feeds -> Places] /\ begun' \in [Feeds -> Places]
      /\ got' \in [Feeds -> Seq(Delivered)]
  BY EatenTypes DEF HubInv
<1> QED
  BY <1>1, <1>2, <1>3, FeedGoesOn

LEMMA HistoryNextHub == ASSUME HubInv, NEW f \in Feeds, HistoryNext(f) PROVE HubInv'
<1> USE DEF ReadOut, ReadsPast, ReadsOn, Reads
<1>0. TypeOK
  BY DEF HubInv
<1>1. /\ feed[f].hist = "running"
      /\ UNCHANGED <<log, ids, wal, reports, writer, process, hub>>
  BY <1>0, HistoryNextFacts
<1>2. active /\ feed[f] \in FeedState /\ feed[f].status # "none"
  BY <1>1, FeedActive
<1>3. /\ feed[f].queue \in Seq(Batch) /\ feed[f].backlog \in Seq(Batch)
      /\ feed[f].last \in Places /\ feed[f].seen \in SUBSET Ids /\ feed[f].base \in Nat
      /\ feed[f].pos \in Nat /\ feed[f].from \in Nat
  BY <1>2, FeedFields
<1>4. ASSUME UNCHANGED eaten
      PROVE  /\ token' \in [Feeds -> Places] /\ begun' \in [Feeds -> Places]
             /\ got' \in [Feeds -> Seq(Delivered)]
  BY <1>0, <1>4, EatenTypes
<1>5. CASE ReadOut(f)
  <2> DEFINE G == Moved(feed[f], "no", feed[f].base, feed[f].seen, feed[f].pos, feed[f].from)
  <2>1. G = Moved(feed[f], "no", feed[f].base, feed[f].seen, feed[f].pos, feed[f].from)
        /\ Becomes(f, G) /\ "no" \in Hists
    BY <1>5 DEF Hists
  <2> HIDE DEF G
  <2>2. G \in FeedState /\ G.status = feed[f].status /\ G.hist = "no"
    BY <1>2, <1>3, <2>1, FeedMoved
  <2> QED
    BY <1>1, <1>2, <1>4, <1>5, <2>1, <2>2, FeedGoesOn
<1>6. CASE UNCHANGED eaten /\ Becomes(f, Ended(feed[f], <<>>))
  BY <1>1, <1>2, <1>6, EndedHub
<1>7. ASSUME NEW i \in DOMAIN log
      PROVE  /\ log[i].lsn \in Nat /\ log[i].lsn \in Places /\ log[i].id \in Ids
             /\ feed[f].seen \cup {log[i].id} \in SUBSET Ids
  <2>1. log[i] \in Items
    BY <1>0 DEF TypeOK
  <2> QED
    BY <1>3, <2>1 DEF Items, Places
<1>8. ASSUME NEW i \in DOMAIN log, ReadsPast(f, i)
      PROVE  HubInv'
  BY <1>1, <1>2, <1>3, <1>4, <1>7, <1>8, TookHub
<1>9. ASSUME NEW i \in DOMAIN log, ReadsOn(f, i)
      PROVE  HubInv'
  <2> DEFINE d(g) == [lsn |-> log[i].lsn, id |-> log[i].id, good |-> g]
  <2>1. \A g \in BOOLEAN : d(g) \in Delivered
    BY <1>7 DEF Delivered
  <2>2. (feed[f].seen = GraphAt(i - 1)) \in BOOLEAN
    BY Zenon
  <2>3. Deliver(f, d(feed[f].seen = GraphAt(i - 1)))
    BY <1>9
  <2> HIDE DEF d
  <2>4. d(feed[f].seen = GraphAt(i - 1)) \in Delivered
    BY <2>1, <2>2, Zenon
  <2>5. /\ token' \in [Feeds -> Places] /\ begun' \in [Feeds -> Places]
        /\ got' \in [Feeds -> Seq(Delivered)]
    BY <1>0, <2>3, <2>4, DeliverTypes
  <2> QED
    BY <1>1, <1>2, <1>3, <1>7, <1>9, <2>5, TookHub
<1> QED
  <2>1. (\E i \in ToRead(f) : ReadsPast(f, i)) => \E i \in DOMAIN log : ReadsPast(f, i)
    BY DEF ToRead
  <2>2. (\E i \in ToRead(f) : ReadsOn(f, i)) => \E i \in DOMAIN log : ReadsOn(f, i)
    BY DEF ToRead
  <2> QED
    BY <1>0, <1>5, <1>6, <1>8, <1>9, <2>1, <2>2, HistoryNextFacts

LEMMA PollBacklogHub == ASSUME HubInv, NEW f \in Feeds, PollBacklog(f) PROVE HubInv'
<1> DEFINE b == Head(feed[f].backlog)
           tl == Tail(feed[f].backlog)
<1>0. TypeOK
  BY DEF HubInv
<1>1. /\ feed[f].backlog # <<>> /\ UNCHANGED <<log, ids, wal, reports, writer, process, hub>>
      /\ b \in Batch /\ tl \in Seq(Batch)
      /\ \/ /\ NewTo(f, b) /\ Deliver(f, Live(b))
            /\ Becomes(f, Took(feed[f], feed[f].queue, tl, b.lsn, feed[f].seen, feed[f].pos))
         \/ /\ ~NewTo(f, b) /\ UNCHANGED eaten
            /\ Becomes(f, Took(feed[f], feed[f].queue, tl, feed[f].last, feed[f].seen,
                               feed[f].pos))
  BY <1>0, PollBacklogFacts
<1>2. active /\ feed[f] \in FeedState /\ feed[f].status # "none"
  BY <1>1, FeedActive
<1>3. /\ feed[f].queue \in Seq(Batch) /\ feed[f].last \in Places /\ feed[f].seen \in SUBSET Ids
      /\ feed[f].pos \in Nat /\ b.lsn \in Places
  <2>1. b.lsn \in Places
    BY <1>1 DEF Batch, Places
  <2> QED
    BY <1>2, <2>1, FeedFields
<1> HIDE DEF b, tl
<1>4. CASE /\ Deliver(f, Live(b))
           /\ Becomes(f, Took(feed[f], feed[f].queue, tl, b.lsn, feed[f].seen, feed[f].pos))
  <2>1. /\ token' \in [Feeds -> Places] /\ begun' \in [Feeds -> Places]
        /\ got' \in [Feeds -> Seq(Delivered)]
    BY <1>0, <1>1, <1>4, LiveTypes, DeliverTypes
  <2> QED
    BY <1>1, <1>2, <1>3, <1>4, <2>1, TookHub
<1>5. CASE /\ UNCHANGED eaten
           /\ Becomes(f, Took(feed[f], feed[f].queue, tl, feed[f].last, feed[f].seen,
                              feed[f].pos))
  <2>1. /\ token' \in [Feeds -> Places] /\ begun' \in [Feeds -> Places]
        /\ got' \in [Feeds -> Seq(Delivered)]
    BY <1>0, <1>5, EatenTypes
  <2> QED
    BY <1>1, <1>2, <1>3, <1>5, <2>1, TookHub
<1> QED
  BY <1>1, <1>4, <1>5

LEMMA PollQueueHub == ASSUME HubInv, NEW f \in Feeds, PollQueue(f) PROVE HubInv'
<1> DEFINE b == Head(feed[f].queue)
           tl == Tail(feed[f].queue)
<1>0. TypeOK
  BY DEF HubInv
<1>1. /\ feed[f].queue # <<>> /\ UNCHANGED <<log, ids, wal, reports, writer, process, hub>>
      /\ b \in Batch /\ tl \in Seq(Batch) /\ Deliver(f, Live(b))
      /\ Becomes(f, Took(feed[f], tl, feed[f].backlog, b.lsn, feed[f].seen, feed[f].pos))
  BY <1>0, PollQueueFacts
<1>2. active /\ feed[f] \in FeedState /\ feed[f].status # "none"
  BY <1>1, FeedActive
<1>3. /\ feed[f].backlog \in Seq(Batch) /\ feed[f].seen \in SUBSET Ids
      /\ feed[f].pos \in Nat /\ b.lsn \in Places
  <2>1. b.lsn \in Places
    BY <1>1 DEF Batch, Places
  <2> QED
    BY <1>2, <2>1, FeedFields
<1> HIDE DEF b, tl
<1>4. /\ token' \in [Feeds -> Places] /\ begun' \in [Feeds -> Places]
      /\ got' \in [Feeds -> Seq(Delivered)]
  BY <1>0, <1>1, LiveTypes, DeliverTypes
<1> QED
  BY <1>1, <1>2, <1>3, <1>4, TookHub

LEMMA PollLaggedHub == ASSUME HubInv, NEW f \in Feeds, PollLagged(f) PROVE HubInv'
<1>0. TypeOK
  BY DEF HubInv
<1>1. /\ feed[f].status = "lagged"
      /\ UNCHANGED <<log, ids, wal, reports, writer, process, hub, eaten>>
      /\ Becomes(f, Ended(feed[f], <<>>))
  BY <1>0, PollLaggedFacts
<1>2. active
  BY <1>1, FeedActive
<1> QED
  BY <1>1, <1>2, EndedHub

LEMMA SleepHub == ASSUME HubInv, NEW f \in Feeds, Sleep(f) PROVE HubInv'
<1> DEFINE G == Slept(feed[f])
<1>0. TypeOK
  BY DEF HubInv
<1>1. /\ UNCHANGED <<log, ids, wal, reports, writer, process, hub, eaten>>
      /\ Becomes(f, G) /\ G = Slept(feed[f])
  BY <1>0, SleepFacts
<1>2. feed[f].status = "open"
  BY DEF Sleep
<1>3. active /\ feed[f] \in FeedState
  BY <1>2, FeedActive
<1> HIDE DEF G
<1>4. G \in FeedState /\ G.status = feed[f].status /\ G.hist = feed[f].hist
  BY <1>1, <1>3, FeedSlept
<1>5. /\ token' \in [Feeds -> Places] /\ begun' \in [Feeds -> Places]
      /\ got' \in [Feeds -> Seq(Delivered)]
  BY <1>0, <1>1, EatenTypes
<1> QED
  BY <1>1, <1>2, <1>3, <1>4, <1>5, FeedGoesOn

LEMMA CloseFeedHub == ASSUME HubInv, NEW f \in Feeds, close_feed(f) PROVE HubInv'
<1> DEFINE e == <<>>
           G == Pushed(feed[f], e, "closed")
<1>0. TypeOK
  BY DEF HubInv
<1>1. /\ feed[f].status \notin {"none", "closed"}
      /\ UNCHANGED <<log, ids, wal, reports, writer, process, hub, eaten>>
      /\ Becomes(f, G) /\ G = Pushed(feed[f], e, "closed") /\ e \in Seq(Batch)
  BY <1>0, CloseFeedFacts
<1>2. active /\ feed[f] \in FeedState /\ "closed" \in Statuses
  BY <1>1, FeedActive DEF Statuses
<1> HIDE DEF G, e
<1>3. G \in FeedState /\ G.status = "closed" /\ G.hist = feed[f].hist
  BY <1>1, <1>2, FeedPushed
<1>4. /\ token' \in [Feeds -> Places] /\ begun' \in [Feeds -> Places]
      /\ got' \in [Feeds -> Seq(Delivered)]
  BY <1>0, <1>1, EatenTypes
<1> QED
  BY <1>1, <1>2, <1>3, <1>4, FeedGoesOn

LEMMA DropHub == ASSUME HubInv, NEW f \in Feeds, Drop(f) PROVE HubInv'
<1> USE DEF wal
<1>0. TypeOK
  BY DEF HubInv
<1>1. /\ UNCHANGED <<log, ids, wal, reports, writer, process, hub, eaten>>
      /\ Becomes(f, NoFeed)
  BY <1>0, DropFacts
<1>2. /\ token' \in [Feeds -> Places] /\ begun' \in [Feeds -> Places]
      /\ got' \in [Feeds -> Seq(Delivered)]
  BY <1>0, <1>1, EatenTypes
<1> QED
  BY <1>1, <1>2, NoFeedFields, ConsumerKeeps

LEMMA ConsumerHub == ASSUME HubInv, NEW f \in Feeds, Consumer(f) PROVE HubInv'
  BY SubscribeHub, PlanHub, HistoryStartHub, HistoryNextHub, PollBacklogHub, PollQueueHub,
     PollLaggedHub, SleepHub, CloseFeedHub, DropHub DEF Consumer, Poll

LEMMA StutterHub == ASSUME HubInv, UNCHANGED vars PROVE HubInv'
<1> USE DEF vars, wal, hub, eaten, process
<1>0. TypeOK /\ Modes /\ LogOrder /\ WalOrder /\ StreamInOrder /\ Numbers /\ Hears
  BY DEF HubInv
<1>1. TypeOK' /\ Modes' /\ LogOrder' /\ WalOrder' /\ Hears'
  BY <1>0 DEF TypeOK, Modes, LogOrder, WalOrder, Hears
<1>2. next_lsn' \in Nat /\ next_lsn' >= next_lsn
  BY <1>0 DEF TypeOK
<1>3. StreamInOrder' /\ Numbers'
  BY <1>0, <1>2, StreamKept, NumbersKept
<1> QED
  BY <1>1, <1>3 DEF HubInv

LEMMA StepHub == HubInv /\ [Next]_vars => HubInv'
<1> SUFFICES ASSUME HubInv, [Next]_vars PROVE HubInv'
  OBVIOUS
<1>1. CASE Writer
  BY <1>1, CommitHub, PublishStepHub, CommitInMemoryHub, CatalogHub, ActivateListenHub,
     ActivateReadHub, ActivateHub, CheckpointHub, RestoreHub, PublishResetHub,
     RestoreInMemoryHub DEF Writer
<1>2. CASE Fsync \/ FsyncFails \/ on_durable
  BY <1>2, FsyncHub, FsyncFailsHub, OnDurableHub
<1>3. CASE set_retention \/ close \/ Restart
  BY <1>3, RetentionHub, CloseHub, RestartHub
<1>4. CASE \E f \in Feeds : Consumer(f)
  BY <1>4, ConsumerHub
<1>5. CASE UNCHANGED vars
  BY <1>5, StutterHub
<1> QED
  BY <1>1, <1>2, <1>3, <1>4, <1>5 DEF Next

\* HubInv holds in every state: the types, the modes of the hub, the orders of
\* the log, of the WAL's counters and of what is announced, and what the hub
\* knows of what is durable.
THEOREM HubInvHolds == Spec => []HubInv
  BY InitHub, StepHub, PTL DEF Spec

\* Batches leave the hub in commit order, however late or reordered the
\* reports of durable LSNs are (ChangeHub::publish, on_durable).
THEOREM StreamInOrderHolds == Spec => []StreamInOrder
<1>1. HubInv => StreamInOrder
  BY DEF HubInv
<1> QED
  BY <1>1, HubInvHolds, PTL

\* A parked batch always waits for something, and once every report has
\* arrived the hub knows the WAL's durable LSN (activate_changes, on_durable).
THEOREM HubHearsDurableHolds == Spec => []HubHearsDurable
<1>1. HubInv => HubHearsDurable
  <2> SUFFICES ASSUME HubInv PROVE HubHearsDurable
    OBVIOUS
  <2>1. TypeOK /\ Hears
    BY DEF HubInv
  <2> QED
    BY <2>1 DEF Hears, HubHearsDurable
<1> QED
  BY <1>1, HubInvHolds, PTL

-----------------------------------------------------------------------------
(* Resets: with managed snapshots every restore since capture began is     *)
(* announced by a Reset of its own.                                        *)

\* Steps after which no less is announced.
LEMMA ResetsKept ==
  ASSUME Resets, log' = log, since' = since, closed' = closed, active' = active,
         \A k \in DOMAIN Announced : k \in DOMAIN Announced' /\ Announced'[k] = Announced[k],
         writer' = writer \/ writer.at # "reset"
  PROVE  Resets'
  BY DEF Resets

\* What is announced stays when a batch is published.
LEMMA PublishGrows ==
  ASSUME HubInv, NEW lsn \in Nat, NEW id \in Ids, NEW needs \in Nat, active, ~closed,
         publish_when_durable(lsn, id, needs)
  PROVE  /\ \A k \in DOMAIN Announced : k \in DOMAIN Announced' /\ Announced'[k] = Announced[k]
         /\ \E k \in DOMAIN Announced' : Announced'[k].lsn = lsn /\ Announced'[k].id = id
         /\ UNCHANGED <<active, closed, since>>
<1> USE DEF SendsOn, Parks
<1> DEFINE b == [lsn |-> lsn, id |-> id]
<1>1. TypeOK /\ Modes
  BY DEF HubInv
<1>2. \/ closed /\ UNCHANGED <<hub, feed>>
      \/ /\ UNCHANGED <<active, closed, deferred, durable, retention, since>>
         /\ parked \in Seq(Waiting) /\ Announces(b) /\ stream' \in Seq(Batch)
         /\ parked' \in Seq(Waiting)
  <2>1. \/ closed /\ UNCHANGED <<hub, feed>>
        \/ SendsOn(b, needs)
        \/ Parks(b, needs)
    BY <1>1, PublishFacts
  <2>2. parked \in Seq(Waiting) /\ stream \in Seq(Batch)
    BY <1>1 DEF TypeOK
  <2>3. CASE SendsOn(b, needs)
    <3>1. stream' \in Seq(Batch)
      BY <1>1, <2>3, ReleaseFacts
    <3> QED
      BY <2>2, <2>3, <3>1
  <2>4. CASE Parks(b, needs)
    BY <2>2, <2>4
  <2> QED
    BY <2>1, <2>3, <2>4
<1>3. b.lsn = lsn /\ b.id = id
  OBVIOUS
<1> HIDE DEF b
<1>4. /\ UNCHANGED <<active, closed, since>> /\ Announces(b)
      /\ stream' \in Seq(Batch) /\ parked' \in Seq(Waiting)
  BY <1>2
<1>5. Announced \in Seq(Batch) /\ Len(Announced) \in Nat
  BY <1>1, AnnouncedTypes
<1>6. (parked \in Seq(Waiting) /\ stream \in Seq(Batch) => Announced \in Seq(Batch))'
  BY AnnouncedFacts, PTL
<1>7. Announced' \in Seq(Batch)
  BY <1>4, <1>6
<1>8. /\ DOMAIN Announced = 1 .. Len(Announced)
      /\ DOMAIN Announced' = 1 .. Len(Announced) + 1
  BY <1>4, <1>5, <1>7 DEF Announces
<1>9. /\ \A k \in 1 .. Len(Announced) : Announced'[k] = Announced[k]
      /\ Announced'[Len(Announced) + 1] = b
  BY <1>4 DEF Announces
<1>10. \A k \in DOMAIN Announced : k \in DOMAIN Announced'
  BY <1>5, <1>8
<1>11. Len(Announced) + 1 \in DOMAIN Announced'
  BY <1>5, <1>8
<1> QED
  BY <1>3, <1>4, <1>8, <1>9, <1>10, <1>11

LEMMA InitResets == Init => Resets
  BY DEF Init, Resets

LEMMA CommitResets == ASSUME HubInv, Resets, Commit PROVE Resets'
<1> USE DEF hub
<1>0. TypeOK /\ LogOrder
  BY DEF HubInv
<1>1. /\ ~closed /\ writer.at = "idle" /\ wal_backed /\ ids < MaxItems
      /\ log' = Append(log, Item("tx", next_lsn + 2)) /\ UNCHANGED hub
  BY DEF Commit, Up
<1>2. Announced' = Announced
  BY <1>1, AnnouncedKept
<1>3. /\ DOMAIN log = 1 .. Len(log) /\ Len(log) \in Nat
      /\ \A i \in DOMAIN log' : \/ i \in DOMAIN log /\ log'[i] = log[i]
                                \/ log'[i].kind = "tx"
  <2>1. log \in Seq(Items) /\ next_lsn + 2 \in Nat /\ ids + 1 \in Ids
    BY <1>0, <1>1, ChangeHubAssumption DEF TypeOK, Ids
  <2> DEFINE e == Item("tx", next_lsn + 2)
  <2>2. e \in Items /\ e.kind = "tx" /\ log' = Append(log, e)
    BY <1>1, <2>1 DEF Item, Items
  <2> HIDE DEF e
  <2>3. /\ Len(log) \in Nat /\ DOMAIN log = 1 .. Len(log) /\ DOMAIN log' = 1 .. Len(log) + 1
        /\ \A i \in DOMAIN log : log'[i] = log[i]
        /\ log'[Len(log) + 1] = e
    BY <2>1, <2>2, AppendFacts
  <2>4. \A i \in DOMAIN log' : i \in DOMAIN log \/ i = Len(log) + 1
    BY <2>3
  <2> QED
    BY <2>2, <2>3, <2>4
<1> QED
  BY <1>1, <1>2, <1>3 DEF Resets

\* The log after an item is appended.
LEMMA LogAppended ==
  ASSUME TypeOK, ids < MaxItems, NEW kind \in {"tx", "restore"}, NEW lsn \in Nat,
         log' = Append(log, Item(kind, lsn))
  PROVE  /\ DOMAIN log = 1 .. Len(log) /\ Len(log) \in Nat
         /\ \A i \in DOMAIN log : i \in DOMAIN log' /\ log'[i] = log[i]
         /\ \A i \in DOMAIN log' :
              \/ i \in DOMAIN log /\ log'[i] = log[i]
              \/ /\ i = Len(log) + 1 /\ log'[i].kind = kind /\ log'[i].id = ids + 1
                 /\ log'[i].lsn = lsn
<1>1. log \in Seq(Items) /\ ids + 1 \in Ids
  BY ChangeHubAssumption DEF TypeOK, Ids
<1> DEFINE e == Item(kind, lsn)
<1>2. e \in Items /\ e.kind = kind /\ e.id = ids + 1 /\ e.lsn = lsn /\ log' = Append(log, e)
  BY <1>1 DEF Item, Items
<1> HIDE DEF e
<1>3. /\ Len(log) \in Nat /\ DOMAIN log = 1 .. Len(log) /\ DOMAIN log' = 1 .. Len(log) + 1
      /\ \A i \in DOMAIN log : log'[i] = log[i]
      /\ log'[Len(log) + 1] = e
  BY <1>1, <1>2, AppendFacts
<1>4. /\ \A i \in DOMAIN log' : i \in DOMAIN log \/ i = Len(log) + 1
      /\ \A i \in DOMAIN log : i \in DOMAIN log'
  BY <1>3
<1> QED
  BY <1>2, <1>3, <1>4

LEMMA InMemoryResets ==
  ASSUME HubInv, Resets, Up, ids < MaxItems, NEW kind \in {"tx", "restore"},
         log' = Append(log, Item(kind, IF active THEN last_assigned + 1 ELSE 0)),
         IF active THEN publish_when_durable(last_assigned + 1, ids + 1, last_assigned + 1)
         ELSE UNCHANGED <<hub, feed>>
  PROVE  Resets'
<1> DEFINE m == last_assigned + 1
           n == ids + 1
           l == IF active THEN m ELSE 0
<1>0. TypeOK
  BY DEF HubInv
<1>1. ~closed /\ writer.at = "idle"
  BY DEF Up
<1>2. m \in Nat /\ n \in Ids /\ l \in Nat
  BY <1>0, ChangeHubAssumption DEF TypeOK, Ids
<1>3. log' = Append(log, Item(kind, l)) /\ n = ids + 1
  OBVIOUS
<1>4. /\ active => publish_when_durable(m, n, m)
      /\ ~active => UNCHANGED <<hub, feed>>
  OBVIOUS
<1> HIDE DEF m, n, l
<1>5. \A i \in DOMAIN log' : \/ i \in DOMAIN log /\ log'[i] = log[i]
                             \/ log'[i].id = n
  <2>1. \A i \in DOMAIN log' :
          \/ i \in DOMAIN log /\ log'[i] = log[i]
          \/ /\ i = Len(log) + 1 /\ log'[i].kind = kind /\ log'[i].id = ids + 1
             /\ log'[i].lsn = l
    BY <1>0, <1>2, <1>3, LogAppended
  <2> QED
    BY <1>3, <2>1
<1>6. CASE active
  <2>1. /\ \A k \in DOMAIN Announced : k \in DOMAIN Announced' /\ Announced'[k] = Announced[k]
        /\ \E k \in DOMAIN Announced' : Announced'[k].lsn = m /\ Announced'[k].id = n
        /\ UNCHANGED <<active, closed, since>>
    BY <1>1, <1>2, <1>4, <1>6, PublishGrows
  <2> QED
    BY <1>1, <1>5, <2>1 DEF Resets
<1>7. CASE ~active
  BY <1>4, <1>7 DEF Resets, hub
<1> QED
  BY <1>6, <1>7

LEMMA RestoreResets == ASSUME HubInv, Resets, Restore PROVE Resets'
<1> USE DEF hub
<1>0. TypeOK
  BY DEF HubInv
<1>1. /\ ~closed /\ writer.at = "idle" /\ wal_backed /\ ids < MaxItems
      /\ log' = Append(log, Item("restore", next_lsn - 1))
      /\ writer' = IF active THEN [at |-> "reset", lsn |-> next_lsn', id |-> ids + 1] ELSE Idle
      /\ UNCHANGED hub
  BY DEF Restore, Up
<1>2. Announced' = Announced
  BY <1>1, AnnouncedKept
<1> DEFINE l == next_lsn - 1
<1>3. l \in Nat /\ log' = Append(log, Item("restore", l)) /\ "restore" \in {"tx", "restore"}
  BY <1>0, <1>1 DEF TypeOK
<1> HIDE DEF l
<1>4. \A i \in DOMAIN log' : \/ i \in DOMAIN log /\ log'[i] = log[i]
                             \/ log'[i].id = ids + 1
  <2>1. \A i \in DOMAIN log' :
          \/ i \in DOMAIN log /\ log'[i] = log[i]
          \/ /\ i = Len(log) + 1 /\ log'[i].kind = "restore" /\ log'[i].id = ids + 1
             /\ log'[i].lsn = l
    BY <1>0, <1>1, <1>3, LogAppended
  <2> QED
    BY <2>1
<1>5. active => writer'.at = "reset" /\ writer'.id = ids + 1
  BY <1>1
<1> QED
  BY <1>1, <1>2, <1>4, <1>5 DEF Resets

LEMMA PublishResets == ASSUME HubInv, Resets, publish PROVE Resets'
<1> DEFINE lsn == Bigger(writer.lsn, last_assigned + 1)
<1>0. TypeOK /\ Modes /\ Numbers
  BY DEF HubInv
<1>1. writer.at = "publish" /\ publish_when_durable(lsn, writer.id, lsn) /\ log' = log
  BY DEF publish
<1>2. /\ writer.lsn \in Nat /\ writer.id \in Ids \cup {0} /\ last_assigned \in Nat
      /\ ids \in 0 .. MaxItems /\ MaxItems \in Nat
  BY <1>0, WriterFields, ChangeHubAssumption DEF TypeOK
<1>3. active /\ writer.id \in Ids /\ lsn \in Nat
  BY <1>0, <1>1, <1>2 DEF Numbers, Modes, Ids, Bigger
<1> HIDE DEF lsn
<1>4. ~closed
  BY <1>0, <1>1 DEF Modes
<1>5. /\ \A k \in DOMAIN Announced : k \in DOMAIN Announced' /\ Announced'[k] = Announced[k]
      /\ UNCHANGED <<active, closed, since>>
  BY <1>1, <1>3, <1>4, PublishGrows
<1> QED
  BY <1>1, <1>5, ResetsKept

\* With managed snapshots the Reset always fits below the next commit's LSN.
LEMMA PublishResetResets == ASSUME Marker, HubInv, Resets, publish_reset PROVE Resets'
<1> DEFINE lsn == Bigger(writer.lsn, last_assigned + 1)
           m == writer.lsn - 1
<1>0. TypeOK /\ Modes /\ Numbers
  BY DEF HubInv
<1>1. /\ writer.at = "reset" /\ log' = log
      /\ lsn <= writer.lsn + 1 => publish_when_durable(lsn, writer.id, m)
      /\ writer' = Idle
  BY DEF publish_reset
<1>2. /\ writer.lsn \in Nat /\ writer.id \in Ids \cup {0} /\ last_assigned \in Nat
      /\ ids \in 0 .. MaxItems /\ MaxItems \in Nat /\ next_lsn \in Nat \ {0}
  BY <1>0, WriterFields, ChangeHubAssumption DEF TypeOK
<1>3. writer.id = ids /\ ids > 0 /\ writer.lsn = next_lsn /\ last_assigned < writer.lsn
  BY <1>0, <1>1 DEF Numbers
<1>4. active /\ writer.id \in Ids /\ lsn \in Nat /\ lsn <= writer.lsn + 1 /\ m \in Nat
  BY <1>0, <1>1, <1>2, <1>3 DEF Modes, Ids, Bigger
<1> HIDE DEF lsn, m
<1>5. ~closed
  BY <1>0, <1>1 DEF Modes
<1>6. /\ \A k \in DOMAIN Announced : k \in DOMAIN Announced' /\ Announced'[k] = Announced[k]
      /\ \E k \in DOMAIN Announced' : Announced'[k].lsn = lsn /\ Announced'[k].id = writer.id
      /\ UNCHANGED <<active, closed, since>>
  BY <1>1, <1>4, <1>5, PublishGrows
<1> QED
  BY <1>1, <1>6 DEF Resets

LEMMA OnDurableResets == ASSUME HubInv, Resets, on_durable PROVE Resets'
<1>0. TypeOK
  BY DEF HubInv
<1>1. log' = log /\ writer' = writer /\ Announced' = Announced
      /\ UNCHANGED <<active, closed, since>>
  <2>1. UNCHANGED <<log, writer>>
    BY <1>0, OnDurableFacts
  <2>2. PICK d \in reports :
          \/ d <= durable /\ UNCHANGED <<hub, feed>>
          \/ /\ UNCHANGED <<active, closed, last_assigned, deferred, retention, since>>
             /\ Announced' = Announced
    BY <1>0, OnDurableFacts DEF HandsOut, Reaches
  <2>3. CASE UNCHANGED <<hub, feed>>
    <3>1. UNCHANGED <<active, closed, since, stream, parked>>
      BY <2>3 DEF hub
    <3> QED
      BY <2>1, <3>1, AnnouncedKept
  <2> QED
    BY <2>1, <2>2, <2>3
<1> QED
  BY <1>1, ResetsKept

\* Every other step leaves the log, the writer and what is announced alone, or
\* starts or ends the capture.
LEMMA QuietResets ==
  ASSUME Resets, log' = log, writer' = writer \/ writer.at # "reset",
         UNCHANGED <<since, closed, active, stream, parked>>
  PROVE  Resets'
  BY AnnouncedKept, ResetsKept

\* A consumer touches neither the log nor the hub.
LEMMA ConsumerQuiet ==
  ASSUME NEW f \in Feeds, Consumer(f) PROVE UNCHANGED <<log, ids, writer, process, hub>>
<1>1. CASE Subscribe(f)
  BY <1>1 DEF Subscribe
<1>2. CASE Plan(f)
  BY <1>2 DEF Plan
<1>3. CASE HistoryStart(f)
  BY <1>3 DEF HistoryStart
<1>4. CASE HistoryNext(f)
  BY <1>4 DEF HistoryNext
<1>5. CASE PollBacklog(f)
  BY <1>5 DEF PollBacklog
<1>6. CASE PollQueue(f)
  BY <1>6 DEF PollQueue
<1>7. CASE PollLagged(f)
  BY <1>7 DEF PollLagged
<1>8. CASE Sleep(f)
  BY <1>8 DEF Sleep
<1>9. CASE close_feed(f)
  BY <1>9 DEF close_feed
<1>10. CASE Drop(f)
  BY <1>10 DEF Drop
<1> QED
  BY <1>1, <1>2, <1>3, <1>4, <1>5, <1>6, <1>7, <1>8, <1>9, <1>10 DEF Consumer, Poll

LEMMA StepResets == ASSUME Marker PROVE HubInv /\ Resets /\ [Next]_vars => Resets'
<1> SUFFICES ASSUME HubInv, Resets, [Next]_vars PROVE Resets'
  OBVIOUS
<1> USE DEF hub
<1>0. TypeOK /\ LogOrder
  BY DEF HubInv
<1>1. CASE Commit
  BY <1>1, CommitResets
<1>2. CASE publish
  BY <1>2, PublishResets
<1>3. CASE CommitInMemory
  <2>1. "tx" \in {"tx", "restore"}
    OBVIOUS
  <2>2. /\ Up /\ ids < MaxItems
        /\ log' = Append(log, Item("tx", IF active THEN last_assigned + 1 ELSE 0))
        /\ IF active THEN publish_when_durable(last_assigned + 1, ids + 1, last_assigned + 1)
           ELSE UNCHANGED <<hub, feed>>
    BY <1>3 DEF CommitInMemory
  <2> QED
    BY <2>1, <2>2, InMemoryResets
<1>4. CASE CatalogCommit \/ Checkpoint \/ ActivateRead \/ Fsync \/ FsyncFails \/ set_retention
  BY <1>4, QuietResets
     DEF CatalogCommit, Checkpoint, ActivateRead, Fsync, FsyncFails, set_retention
<1>5. CASE ActivateListen
  <2>1. \A i \in DOMAIN log : log[i].id \in Nat /\ log[i].id <= ids
    <3>1. \A i \in DOMAIN log : log[i] \in Items
      BY <1>0 DEF TypeOK
    <3> QED
      BY <1>0, <3>1 DEF LogOrder, Items, Ids
  <2>2. log' = log /\ ~active
    BY <1>5 DEF ActivateListen
  <2>3. CASE wal_backed
    BY <1>5, <2>2, <2>3 DEF ActivateListen, Resets
  <2>4. CASE ~wal_backed
    <3>1. since' = ids /\ ids \in Int
      BY <1>0, <1>5, <2>4 DEF ActivateListen, TypeOK
    <3> QED
      BY <2>1, <2>2, <3>1 DEF Resets
  <2> QED
    BY <2>3, <2>4
<1>6. CASE Activate
  <2>1. \A i \in DOMAIN log : log[i].id \in Nat /\ log[i].id <= ids
    <3>1. \A i \in DOMAIN log : log[i] \in Items
      BY <1>0 DEF TypeOK
    <3> QED
      BY <1>0, <3>1 DEF LogOrder, Items, Ids
  <2>2. log' = log /\ since' = ids /\ ids \in Int
    BY <1>0, <1>6 DEF Activate, TypeOK
  <2> QED
    BY <2>1, <2>2 DEF Resets
<1>7. CASE Restore
  BY <1>7, RestoreResets
<1>8. CASE publish_reset
  BY <1>8, PublishResetResets
<1>9. CASE RestoreInMemory
  <2>1. "restore" \in {"tx", "restore"}
    OBVIOUS
  <2>2. /\ Up /\ ids < MaxItems
        /\ log' = Append(log, Item("restore", IF active THEN last_assigned + 1 ELSE 0))
        /\ IF active THEN publish_when_durable(last_assigned + 1, ids + 1, last_assigned + 1)
           ELSE UNCHANGED <<hub, feed>>
    BY <1>9 DEF RestoreInMemory
  <2> QED
    BY <2>1, <2>2, InMemoryResets
<1>10. CASE on_durable
  BY <1>10, OnDurableResets
<1>11. CASE close \/ Restart
  BY <1>11, Zenon DEF close, Restart, Resets
<1>12. CASE \E f \in Feeds : Consumer(f)
  <2>1. PICK f \in Feeds : Consumer(f)
    BY <1>12
  <2>2. UNCHANGED <<log, writer, hub>>
    BY <2>1, ConsumerQuiet
  <2> QED
    BY <2>2, QuietResets
<1>13. CASE UNCHANGED vars
  BY <1>13, QuietResets DEF vars
<1> QED
  BY <1>1, <1>2, <1>3, <1>4, <1>5, <1>6, <1>7, <1>8, <1>9, <1>10, <1>11, <1>12, <1>13
     DEF Next, Writer

\* With managed snapshots, every restore since capture began has a Reset out or
\* on its way (load_snapshot_from_reader, publish_reset): the checkpoint marker
\* leaves it an LSN of its own.
THEOREM RestoresAnnouncedHolds == ASSUME Marker PROVE Spec => []RestoresAnnounced
<1>1. Init => HubInv /\ Resets
  BY InitHub, InitResets
<1>2. HubInv /\ Resets /\ [Next]_vars => (HubInv /\ Resets)'
  BY StepHub, StepResets
<1>3. HubInv /\ Resets => RestoresAnnounced
  <2> SUFFICES ASSUME HubInv, Resets, active, ~closed, writer.at = "idle",
                      NEW i \in DOMAIN log, log[i].kind = "restore", log[i].id > since
               PROVE  \E k \in DOMAIN Announced :
                        /\ Announced[k].id >= log[i].id
                        /\ \E j \in DOMAIN log :
                             log[j].id = Announced[k].id /\ log[j].kind = "restore"
    BY DEF RestoresAnnounced
  <2>1. PICK k \in DOMAIN Announced : Announced[k].id = log[i].id
    BY DEF Resets
  <2>2. log[i] \in Items
    BY DEF HubInv, TypeOK
  <2> QED
    BY <2>1, <2>2 DEF Items, Ids
<1> QED
  BY <1>1, <1>2, <1>3, PTL DEF Spec

-----------------------------------------------------------------------------
(* Rebuilt: without restores, and with segments that are not removed under *)
(* a replay, every replay rebuilds the graph of its place in the log.      *)

\* Items past l do not count.
LEMMA GraphOfSame ==
  ASSUME NEW s, NEW t, NEW l, DOMAIN s \subseteq DOMAIN t, \A i \in DOMAIN s : t[i] = s[i],
         \A i \in DOMAIN t : i \in DOMAIN s \/ ~(t[i].lsn <= l)
  PROVE  GraphOf(t, l) = GraphOf(s, l)
<1>1. {i \in DOMAIN t : t[i].lsn <= l} = {i \in DOMAIN s : s[i].lsn <= l}
  OBVIOUS
<1>2. \A i \in {i \in DOMAIN s : s[i].lsn <= l} : t[i].id = s[i].id
  OBVIOUS
<1> QED
  BY <1>1, <1>2 DEF GraphOf

LEMMA Numerals ==
  ASSUME TypeOK, NEW f \in Feeds
  PROVE  /\ feed[f] \in FeedState /\ feed[f].base \in Nat /\ feed[f].pos \in Nat
         /\ feed[f].from \in Nat /\ feed[f].after \in Nat /\ feed[f].upto \in Nat
         /\ next_lsn \in Nat /\ oldest \in Nat
<1>1. feed[f] \in FeedState /\ next_lsn \in Nat /\ oldest \in Nat
  BY DEF TypeOK
<1> QED
  BY <1>1, FeedFields

\* Steps that keep the log, the snapshots and the segments.
LEMMA RebuiltKept ==
  ASSUME TypeOK, Rebuilt, UNCHANGED <<log, bases, oldest>>, HistoryTrue',
         next_lsn' \in Nat, next_lsn' >= next_lsn,
         \A f \in Feeds : Undisturbed(feed'[f], feed[f])
  PROVE  Rebuilt'
<1>1. /\ \A i \in DOMAIN log' : log'[i].kind = "tx"
      /\ \A b \in bases' : b.has = GraphOf(log', b.lsn)
  BY DEF Rebuilt, GraphUpTo
<1>2. ASSUME NEW f \in Feeds PROVE Rebuilding(feed[f])'
  <2> DEFINE F == feed[f]
             G == feed'[f]
  <2>1. /\ F.base \in Nat /\ F.pos \in Nat /\ next_lsn \in Nat
    BY Numerals
  <2>2. Rebuilding(F) /\ Undisturbed(G, F)
    BY DEF Rebuilt
  <2>3. CASE G.hist \notin {"planned", "running"}
    BY <2>3 DEF Rebuilding
  <2>4. CASE /\ G.hist = F.hist /\ G.seen = F.seen /\ G.base = F.base /\ G.pos = F.pos
             /\ G.from = F.from /\ (F.errored => G.errored)
    <3>1. /\ F.hist = "planned" =>
               /\ F.seen = GraphOf(log, F.base) /\ F.base < next_lsn
               /\ ~F.errored => oldest <= F.base + 1
          /\ F.hist = "running" =>
               /\ F.seen = GraphOf(log, F.pos) /\ F.pos < next_lsn
               /\ F.from <= F.pos + 1
      BY <2>2 DEF Rebuilding, GraphUpTo
    <3>2. /\ F.base < next_lsn => F.base < next_lsn'
          /\ F.pos < next_lsn => F.pos < next_lsn'
      BY <2>1
    <3> HIDE DEF F
    <3>3. /\ G.hist = "planned" =>
               /\ G.seen = GraphOf(log', G.base) /\ G.base < next_lsn'
               /\ ~G.errored => oldest' <= G.base + 1
          /\ G.hist = "running" =>
               /\ G.seen = GraphOf(log', G.pos) /\ G.pos < next_lsn'
               /\ G.from <= G.pos + 1
      BY <2>4, <3>1, <3>2
    <3> QED
      BY <3>3 DEF Rebuilding, GraphUpTo
  <2> QED
    BY <2>2, <2>3, <2>4 DEF Undisturbed
<1> QED
  BY <1>1, <1>2 DEF Rebuilt, GraphUpTo

\* A step of one feed's replay.
LEMMA RebuiltFeed ==
  ASSUME Rebuilt, NEW f \in Feeds, NEW G, Becomes(f, G),
         UNCHANGED <<log, bases, oldest, next_lsn>>, HistoryTrue', Rebuilding(G)
  PROVE  Rebuilt'
<1>1. /\ \A i \in DOMAIN log' : log'[i].kind = "tx"
      /\ \A b \in bases' : b.has = GraphOf(log', b.lsn)
  BY DEF Rebuilt, GraphUpTo
<1>2. ASSUME NEW g \in Feeds PROVE Rebuilding(feed[g])'
  <2>1. CASE g = f
    <3>1. feed'[g] = G
      BY <2>1 DEF Becomes
    <3> QED
      BY <3>1 DEF Rebuilding, GraphUpTo
  <2>2. CASE g # f
    <3>1. feed'[g] = feed[g] /\ Rebuilding(feed[g])
      BY <2>2 DEF Becomes, Rebuilt
    <3> QED
      BY <3>1 DEF Rebuilding, GraphUpTo
  <2> QED
    BY <2>1, <2>2
<1> QED
  BY <1>1, <1>2 DEF Rebuilt, GraphUpTo

\* Deliveries.
LEMMA TrueDelivered ==
  ASSUME TypeOK, HistoryTrue, NEW f \in Feeds, NEW b \in Delivered, b.good, Deliver(f, b)
  PROVE  HistoryTrue'
<1>1. got' = [got EXCEPT ![f] = Append(got[f], b)] /\ got \in [Feeds -> Seq(Delivered)]
  BY DEF Deliver, TypeOK
<1>2. got[f] \in Seq(Delivered)
  BY <1>1
<1>3. ASSUME NEW g \in Feeds, NEW k \in DOMAIN got'[g] PROVE got'[g][k].good
  <2>1. CASE g = f
    <3>1. got'[g] = Append(got[f], b)
      BY <1>1, <2>1
    <3>2. /\ DOMAIN got[f] = 1 .. Len(got[f]) /\ DOMAIN got'[g] = 1 .. Len(got[f]) + 1
          /\ Len(got[f]) \in Nat /\ \A j \in 1 .. Len(got[f]) : got'[g][j] = got[f][j]
          /\ got'[g][Len(got[f]) + 1] = b
      BY <1>2, <3>1, AppendFacts
    <3>3. CASE k \in DOMAIN got[f]
      <4>1. got'[g][k] = got[f][k]
        BY <3>2, <3>3
      <4> QED
        BY <3>3, <4>1 DEF HistoryTrue
    <3>4. CASE k = Len(got[f]) + 1
      BY <3>2, <3>4
    <3> QED
      BY <3>2, <3>3, <3>4
  <2>2. CASE g # f
    <3>1. got'[g] = got[g]
      BY <1>1, <2>2
    <3> QED
      BY <3>1 DEF HistoryTrue
  <2> QED
    BY <2>1, <2>2
<1> QED
  BY <1>3 DEF HistoryTrue

LEMMA TrueKept == ASSUME HistoryTrue, UNCHANGED got PROVE HistoryTrue'
  BY DEF HistoryTrue

LEMMA TrueStartOver ==
  ASSUME TypeOK, HistoryTrue, NEW f \in Feeds, StartOver(f) PROVE HistoryTrue'
<1>1. got' = [got EXCEPT ![f] = <<>>] /\ got \in [Feeds -> Seq(Delivered)]
  BY DEF StartOver, TypeOK
<1>2. \A g \in Feeds : \A k \in DOMAIN got'[g] : k \in DOMAIN got[g] /\ got'[g] = got[g]
  <2> SUFFICES ASSUME NEW g \in Feeds, NEW k \in DOMAIN got'[g]
               PROVE  k \in DOMAIN got[g] /\ got'[g] = got[g]
    OBVIOUS
  <2>1. CASE g = f
    <3>1. got'[g] = <<>>
      BY <1>1, <2>1
    <3> QED
      BY <3>1
  <2>2. CASE g # f
    BY <1>1, <2>2
  <2> QED
    BY <2>1, <2>2
<1> QED
  BY <1>2 DEF HistoryTrue

LEMMA TrueLive == ASSUME NEW b \in Batch PROVE Live(b) \in Delivered /\ Live(b).good
<1>1. Live(b) \in Delivered
  BY LiveTypes
<1> QED
  BY <1>1 DEF Live

\* Releasing and closing leave every replay where it is.
LEMMA ReleaseUndisturbed ==
  ASSUME TypeOK, NEW bs \in Seq(Batch), Release(bs)
  PROVE  \A f \in Feeds : Undisturbed(feed'[f], feed[f])
<1> SUFFICES ASSUME NEW f \in Feeds PROVE Undisturbed(feed'[f], feed[f])
  OBVIOUS
<1> DEFINE F == feed[f]
           G == feed'[f]
<1>1. F \in FeedState /\ G = Push(F, bs)
  BY ReleaseFacts DEF TypeOK
<1> HIDE DEF F, G
<1>2. /\ G.errored = F.errored /\ G.hist = F.hist /\ G.base = F.base /\ G.seen = F.seen
      /\ G.pos = F.pos /\ G.from = F.from
  BY <1>1, PushKeeps
<1>3. Undisturbed(G, F)
  BY <1>2 DEF Undisturbed
<1> QED
  BY <1>3 DEF F, G

LEMMA SameUndisturbed ==
  ASSUME UNCHANGED feed PROVE \A f \in Feeds : Undisturbed(feed'[f], feed[f])
  BY DEF Undisturbed

LEMMA PublishUndisturbed ==
  ASSUME TypeOK, Modes, NEW lsn \in Nat, NEW id \in Ids, NEW needs \in Nat, active,
         publish_when_durable(lsn, id, needs)
  PROVE  \A f \in Feeds : Undisturbed(feed'[f], feed[f])
<1> DEFINE b == [lsn |-> lsn, id |-> id]
<1>1. \/ UNCHANGED feed
      \/ Release(<<b>>) /\ <<b>> \in Seq(Batch)
  BY PublishFacts DEF SendsOn, Parks
<1>2. CASE UNCHANGED feed
  BY <1>2, SameUndisturbed
<1>3. CASE Release(<<b>>) /\ <<b>> \in Seq(Batch)
  <2> DEFINE bs == <<b>>
  <2>1. bs \in Seq(Batch) /\ Release(bs)
    BY <1>3
  <2> HIDE DEF bs
  <2> QED
    BY <2>1, ReleaseUndisturbed
<1> QED
  BY <1>1, <1>2, <1>3

LEMMA BecomesUndisturbed ==
  ASSUME NEW f \in Feeds, NEW G, Becomes(f, G), Undisturbed(G, feed[f])
  PROVE  \A g \in Feeds : Undisturbed(feed'[g], feed[g])
  BY DEF Becomes, Undisturbed

\* An item that a commit adds is above everything rebuilt.
LEMMA RebuiltAppended ==
  ASSUME HubInv, Rebuilt, ids < MaxItems, NEW lsn \in Nat, log' = Append(log, Item("tx", lsn)),
         next_lsn' \in Nat, next_lsn' >= next_lsn, wal_backed => lsn >= next_lsn,
         UNCHANGED <<bases, oldest, got>>,
         \A f \in Feeds : Undisturbed(feed'[f], feed[f])
  PROVE  Rebuilt'
<1>0. TypeOK /\ Modes /\ WalOrder
  BY DEF HubInv
<1>1. /\ \A i \in DOMAIN log : i \in DOMAIN log' /\ log'[i] = log[i]
      /\ \A i \in DOMAIN log' :
           \/ i \in DOMAIN log /\ log'[i] = log[i]
           \/ /\ i = Len(log) + 1 /\ log'[i].kind = "tx" /\ log'[i].id = ids + 1
              /\ log'[i].lsn = lsn
  <2>1. "tx" \in {"tx", "restore"}
    OBVIOUS
  <2> QED
    BY <1>0, <2>1, LogAppended
<1>2. \A i \in DOMAIN log' : log'[i].kind = "tx"
  BY <1>1 DEF Rebuilt
<1>3. next_lsn \in Nat /\ (wal_backed => lsn >= next_lsn)
  BY <1>0 DEF TypeOK
<1>4. ASSUME wal_backed, NEW l \in Nat, l < next_lsn PROVE GraphOf(log', l) = GraphOf(log, l)
  <2>1. ~(lsn <= l)
    BY <1>3, <1>4
  <2>2. /\ DOMAIN log \subseteq DOMAIN log' /\ \A i \in DOMAIN log : log'[i] = log[i]
        /\ \A i \in DOMAIN log' : i \in DOMAIN log \/ ~(log'[i].lsn <= l)
    BY <1>1, <2>1
  <2> QED
    BY <2>2, GraphOfSame
<1>5. \A b \in bases' : b.has = GraphOf(log', b.lsn)
  <2> SUFFICES ASSUME NEW b \in bases PROVE b.has = GraphOf(log', b.lsn)
    OBVIOUS
  <2>1. /\ wal_backed /\ b.lsn \in Nat /\ b.lsn <= disk /\ disk \in Nat /\ durable_lsn \in Nat
        /\ disk <= durable_lsn /\ durable_lsn < next_lsn
    BY <1>0 DEF TypeOK, Modes, WalOrder
  <2>2. b.lsn \in Nat /\ b.lsn < next_lsn /\ b.has = GraphOf(log, b.lsn)
    BY <1>3, <2>1 DEF Rebuilt, GraphUpTo
  <2> QED
    BY <1>4, <2>1, <2>2
<1>6. ASSUME NEW f \in Feeds PROVE Rebuilding(feed[f])'
  <2> DEFINE F == feed[f]
             G == feed'[f]
  <2>1. F.base \in Nat /\ F.pos \in Nat
    BY <1>0, Numerals
  <2>2. Rebuilding(F) /\ Undisturbed(G, F)
    BY DEF Rebuilt
  <2>3. CASE G.hist \notin {"planned", "running"}
    BY <2>3 DEF Rebuilding
  <2>4. CASE /\ G.hist \in {"planned", "running"}
             /\ G.hist = F.hist /\ G.seen = F.seen /\ G.base = F.base /\ G.pos = F.pos
             /\ G.from = F.from /\ (F.errored => G.errored)
    <3>1. wal_backed
      BY <1>0, <2>4 DEF Modes
    <3>2. /\ F.hist = "planned" =>
               /\ F.seen = GraphOf(log, F.base) /\ F.base < next_lsn
               /\ ~F.errored => oldest <= F.base + 1
          /\ F.hist = "running" =>
               /\ F.seen = GraphOf(log, F.pos) /\ F.pos < next_lsn
               /\ F.from <= F.pos + 1
      BY <2>2 DEF Rebuilding, GraphUpTo
    <3>3. /\ F.base < next_lsn => F.base < next_lsn' /\ GraphOf(log', F.base) = GraphOf(log, F.base)
          /\ F.pos < next_lsn => F.pos < next_lsn' /\ GraphOf(log', F.pos) = GraphOf(log, F.pos)
      BY <1>3, <1>4, <2>1, <3>1
    <3> HIDE DEF F
    <3>4. /\ G.hist = "planned" =>
               /\ G.seen = GraphOf(log', G.base) /\ G.base < next_lsn'
               /\ ~G.errored => oldest' <= G.base + 1
          /\ G.hist = "running" =>
               /\ G.seen = GraphOf(log', G.pos) /\ G.pos < next_lsn'
               /\ G.from <= G.pos + 1
      BY <2>4, <3>2, <3>3
    <3> QED
      BY <3>4 DEF Rebuilding, GraphUpTo
  <2> QED
    BY <2>2, <2>3, <2>4 DEF Undisturbed
<1>7. HistoryTrue'
  BY TrueKept DEF Rebuilt
<1> QED
  BY <1>2, <1>5, <1>6, <1>7 DEF Rebuilt, GraphUpTo

LEMMA InitRebuilt == Init => Rebuilt
<1> SUFFICES ASSUME Init PROVE Rebuilt
  OBVIOUS
<1>1. log = <<>> /\ bases = {} /\ (\A f \in Feeds : feed[f] = NoFeed /\ got[f] = <<>>)
  BY DEF Init
<1>2. \A f \in Feeds : feed[f].hist = "no"
  BY <1>1, NoFeedFields
<1> QED
  BY <1>1, <1>2 DEF Rebuilt, Rebuilding, HistoryTrue

LEMMA CommitRebuilt == ASSUME HubInv, Rebuilt, Commit PROVE Rebuilt'
<1> USE DEF eaten
<1> DEFINE l == next_lsn + 2
<1>0. TypeOK
  BY DEF HubInv
<1>1. /\ ids < MaxItems /\ log' = Append(log, Item("tx", l)) /\ next_lsn' = next_lsn + 3
      /\ UNCHANGED <<bases, oldest, got, feed>> /\ next_lsn \in Nat
  BY <1>0 DEF Commit, TypeOK
<1>2. l \in Nat /\ l >= next_lsn /\ next_lsn' \in Nat /\ next_lsn' >= next_lsn
  BY <1>1
<1> HIDE DEF l
<1> QED
  BY <1>1, <1>2, SameUndisturbed, RebuiltAppended

LEMMA CommitInMemoryRebuilt == ASSUME HubInv, Rebuilt, CommitInMemory PROVE Rebuilt'
<1> USE DEF eaten, wal
<1> DEFINE m == last_assigned + 1
           n == ids + 1
           l == IF active THEN m ELSE 0
<1>0. TypeOK /\ Modes
  BY DEF HubInv
<1>1. /\ ~wal_backed /\ ids < MaxItems /\ log' = Append(log, Item("tx", l))
      /\ UNCHANGED <<bases, oldest, got, next_lsn>>
      /\ active => publish_when_durable(m, n, m)
      /\ ~active => UNCHANGED <<hub, feed>>
  BY DEF CommitInMemory
<1>2. m \in Nat /\ n \in Ids /\ l \in Nat /\ next_lsn \in Nat /\ next_lsn' >= next_lsn
  BY <1>0, <1>1, ChangeHubAssumption DEF TypeOK, Ids
<1> HIDE DEF l, m, n
<1>3. \A f \in Feeds : Undisturbed(feed'[f], feed[f])
  BY <1>0, <1>1, <1>2, PublishUndisturbed, SameUndisturbed
<1> QED
  BY <1>1, <1>2, <1>3, RebuiltAppended

\* A checkpoint's snapshot holds the graph of its fence.
LEMMA WholeGraph ==
  ASSUME TypeOK, LogOrder, wal_backed, \A i \in DOMAIN log : log[i].kind = "tx"
  PROVE  GraphAt(Len(log)) = GraphUpTo(next_lsn - 1)
<1>1. Len(log) \in Nat /\ DOMAIN log = 1 .. Len(log) /\ next_lsn \in Nat
  BY DEF TypeOK
<1>2. \A i \in DOMAIN log : log[i].lsn \in Nat /\ log[i].lsn < next_lsn
  <2>1. \A i \in DOMAIN log : log[i] \in Items
    BY DEF TypeOK
  <2> QED
    BY <2>1 DEF LogOrder, Items
<1>3. {i \in 1 .. Len(log) : \A j \in i + 1 .. Len(log) : log[j].kind # "restore"} = DOMAIN log
  BY <1>1
<1>4. {i \in DOMAIN log : log[i].lsn <= next_lsn - 1} = DOMAIN log
  BY <1>1, <1>2
<1> QED
  BY <1>3, <1>4 DEF GraphAt, GraphUpTo, GraphOf

LEMMA CheckpointRebuilt ==
  ASSUME HubInv, Rebuilt, "truncate_replay" \notin Ops, Checkpoint PROVE Rebuilt'
<1> USE DEF eaten
<1>0. TypeOK /\ LogOrder /\ WalOrder
  BY DEF HubInv
<1> DEFINE g == GraphAt(Len(log))
           fence == next_lsn - 1
<1>1. /\ wal_backed /\ checkpoint(g) /\ UNCHANGED <<log, feed, got>>
  BY DEF Checkpoint
<1>2. g = GraphUpTo(fence)
  BY <1>0, <1>1, WholeGraph DEF Rebuilt
<1>3. \A b \in bases' : b \in bases \/ (b.lsn = fence /\ b.has = g)
  <2>1. bases' = Stored([lsn |-> fence, has |-> g])
    BY <1>1 DEF checkpoint
  <2> QED
    BY <2>1 DEF Stored
<1>4. \A b \in bases' : b.has = GraphUpTo(b.lsn)
  <2> SUFFICES ASSUME NEW b \in bases' PROVE b.has = GraphUpTo(b.lsn)
    OBVIOUS
  <2>1. CASE b \in bases
    BY <2>1 DEF Rebuilt
  <2>2. CASE b.lsn = fence /\ b.has = g
    <3> HIDE DEF g, fence
    <3> QED
      BY <1>2, <2>2
  <2> QED
    BY <1>3, <2>1, <2>2
<1>5. \/ oldest' = oldest
      \/ \A f \in Feeds : ~Replaying(f)
  BY <1>1 DEF checkpoint, MayTruncate, May
<1>6. next_lsn \in Nat /\ next_lsn' \in Nat /\ next_lsn' >= next_lsn
  <2>1. next_lsn \in Nat /\ next_lsn' = (IF Marker THEN next_lsn + 1 ELSE next_lsn)
    BY <1>0, <1>1 DEF checkpoint, TypeOK
  <2> QED
    BY <2>1
<1>7. ASSUME NEW f \in Feeds PROVE Rebuilding(feed[f])'
  <2> DEFINE F == feed[f]
  <2>1. F.base \in Nat /\ F.pos \in Nat /\ feed'[f] = F
    BY <1>0, <1>1, Numerals
  <2>2. /\ F.hist = "planned" =>
             /\ F.seen = GraphOf(log, F.base) /\ F.base < next_lsn
             /\ ~F.errored => oldest <= F.base + 1
        /\ F.hist = "running" =>
             /\ F.seen = GraphOf(log, F.pos) /\ F.pos < next_lsn
             /\ F.from <= F.pos + 1
    BY DEF Rebuilt, Rebuilding, GraphUpTo
  <2>3. F.hist = "planned" /\ ~F.errored => oldest' = oldest
    BY <1>5 DEF Replaying
  <2> HIDE DEF F
  <2>4. /\ F.hist = "planned" =>
             /\ F.seen = GraphOf(log', F.base) /\ F.base < next_lsn'
             /\ ~F.errored => oldest' <= F.base + 1
        /\ F.hist = "running" =>
             /\ F.seen = GraphOf(log', F.pos) /\ F.pos < next_lsn'
             /\ F.from <= F.pos + 1
    BY <1>1, <1>6, <2>1, <2>2, <2>3
  <2>5. /\ feed'[f].hist = "planned" =>
             /\ feed'[f].seen = GraphOf(log', feed'[f].base) /\ feed'[f].base < next_lsn'
             /\ ~feed'[f].errored => oldest' <= feed'[f].base + 1
        /\ feed'[f].hist = "running" =>
             /\ feed'[f].seen = GraphOf(log', feed'[f].pos) /\ feed'[f].pos < next_lsn'
             /\ feed'[f].from <= feed'[f].pos + 1
    BY <2>1, <2>4
  <2> QED
    BY <2>5 DEF Rebuilding, GraphUpTo
<1> HIDE DEF g, fence
<1>8. \A b \in bases' : b.has = GraphOf(log', b.lsn)
  BY <1>1, <1>4 DEF GraphUpTo
<1>9. \A i \in DOMAIN log' : log'[i].kind = "tx"
  BY <1>1 DEF Rebuilt
<1>10. HistoryTrue'
  BY <1>1, TrueKept DEF Rebuilt
<1> QED
  BY <1>7, <1>8, <1>9, <1>10 DEF Rebuilt, GraphUpTo

\* What a crash takes is above every snapshot.
LEMMA RestartRebuilt == ASSUME HubInv, Rebuilt, Restart PROVE Rebuilt'
<1> USE DEF eaten
<1>0. TypeOK /\ LogOrder /\ WalOrder
  BY DEF HubInv
<1>1. wal_backed /\ feed' = [f \in Feeds |-> NoFeed] /\ UNCHANGED <<oldest, bases, got>>
  BY DEF Restart
<1>2. disk \in Nat /\ next_lsn \in Nat /\ disk <= next_lsn - 1
  BY <1>0 DEF TypeOK, WalOrder
<1>3. \E cut \in disk .. next_lsn - 1 : log' = SubSeq(log, 1, UpTo(log, cut))
  <2>1. \/ Reopened(next_lsn - 1, disk)
        \/ \E cut \in disk .. next_lsn - 1 : Reopened(cut, cut)
    BY DEF Restart
  <2>2. next_lsn - 1 \in disk .. next_lsn - 1
    BY <1>2
  <2> QED
    BY <2>1, <2>2 DEF Reopened
<1>4. PICK cut \in disk .. next_lsn - 1 : log' = SubSeq(log, 1, UpTo(log, cut))
  BY <1>3
<1> DEFINE n == UpTo(log, cut)
<1>5. /\ n \in 0 .. Len(log) /\ DOMAIN log = 1 .. Len(log) /\ DOMAIN log' = 1 .. n
      /\ Len(log) \in Nat
      /\ \A i \in DOMAIN log' : i \in DOMAIN log /\ log'[i] = log[i] /\ log'[i].lsn <= cut
      /\ n < Len(log) => log[n + 1].lsn > cut
  <2>1. TypeOK /\ cut \in Int
    BY <1>0
  <2> QED
    BY <1>4, <2>1, LogCut
<1> HIDE DEF n
<1>6. \A i \in DOMAIN log : i \in DOMAIN log' \/ log[i].lsn > cut
  <2> SUFFICES ASSUME NEW i \in DOMAIN log, i \notin DOMAIN log' PROVE log[i].lsn > cut
    OBVIOUS
  <2>1. n \in Nat /\ i \in Nat /\ i > n /\ n + 1 <= i /\ n < Len(log) /\ n + 1 \in DOMAIN log
    BY <1>5
  <2>2. \A j \in DOMAIN log : log[j].lsn \in Nat
    <3>1. \A j \in DOMAIN log : log[j] \in Items
      BY <1>0 DEF TypeOK
    <3> QED
      BY <3>1 DEF Items
  <2>3. n + 1 < i => log[n + 1].lsn <= log[i].lsn
    BY <1>0, <1>1, <2>1 DEF LogOrder
  <2>4. log[n + 1].lsn > cut /\ log[n + 1].lsn \in Nat /\ log[i].lsn \in Nat /\ cut \in Int
    BY <1>5, <2>1, <2>2
  <2>5. CASE n + 1 < i
    BY <2>3, <2>4, <2>5
  <2>6. CASE n + 1 = i
    BY <2>4, <2>6
  <2> QED
    BY <2>1, <2>5, <2>6
<1>7. \A b \in bases : GraphOf(log', b.lsn) = GraphOf(log, b.lsn)
  <2> SUFFICES ASSUME NEW b \in bases PROVE GraphOf(log, b.lsn) = GraphOf(log', b.lsn)
    OBVIOUS
  <2>1. b.lsn \in Nat /\ b.lsn <= disk
    BY <1>0 DEF TypeOK, WalOrder
  <2>2. b.lsn <= cut /\ cut \in Int
    BY <1>2, <2>1
  <2>3. \A i \in DOMAIN log : log[i].lsn \in Nat
    <3>1. \A j \in DOMAIN log : log[j] \in Items
      BY <1>0 DEF TypeOK
    <3> QED
      BY <3>1 DEF Items
  <2>4. \A i \in DOMAIN log : i \in DOMAIN log' \/ ~(log[i].lsn <= b.lsn)
    BY <1>6, <2>1, <2>2, <2>3
  <2>5. DOMAIN log' \subseteq DOMAIN log /\ \A i \in DOMAIN log' : log[i] = log'[i]
    BY <1>5
  <2> QED
    BY <2>4, <2>5, GraphOfSame
<1>8. \A b \in bases' : b.has = GraphOf(log', b.lsn)
  BY <1>1, <1>7 DEF Rebuilt, GraphUpTo
<1>9. \A i \in DOMAIN log' : log'[i].kind = "tx"
  BY <1>5 DEF Rebuilt
<1>10. \A f \in Feeds : feed'[f].hist = "no"
  BY <1>1, NoFeedFields
<1>11. HistoryTrue'
  BY <1>1, TrueKept DEF Rebuilt
<1> QED
  BY <1>8, <1>9, <1>10, <1>11 DEF Rebuilt, Rebuilding, GraphUpTo

\* Opening a feed and planning its replay.
LEMMA SubscribeRebuilt ==
  ASSUME HubInv, Rebuilt, NEW f \in Feeds, Subscribe(f) PROVE Rebuilt'
<1> USE DEF wal
<1>0. TypeOK
  BY DEF HubInv
<1>1. UNCHANGED <<log, bases, oldest, next_lsn>> /\ next_lsn \in Nat
  BY <1>0, SubscribeFacts DEF TypeOK
<1>2. CASE StartOver(f) /\ UNCHANGED feed
  <2>1. HistoryTrue'
    BY <1>0, <1>2, TrueStartOver DEF Rebuilt
  <2> QED
    BY <1>0, <1>1, <1>2, <2>1, SameUndisturbed, RebuiltKept
<1>3. CASE UNCHANGED got /\ \E G : Becomes(f, G) /\ G.hist \in {"no", "wanted"}
  <2>1. PICK G : Becomes(f, G) /\ G.hist \in {"no", "wanted"}
    BY <1>3
  <2>2. Rebuilding(G)
    BY <2>1 DEF Rebuilding
  <2>3. HistoryTrue'
    BY <1>3, TrueKept DEF Rebuilt
  <2> QED
    BY <1>1, <2>1, <2>2, <2>3, RebuiltFeed
<1>4. \/ StartOver(f) /\ UNCHANGED feed
      \/ UNCHANGED got /\ Becomes(f, FreshFeed(ids, last_lsn))
      \/ /\ UNCHANGED got
         /\ \E from \in Nat :
              /\ After(ring, from) \in Seq(Batch)
              /\ Becomes(f, ResumedFeed(ids, from, ring_floor, After(ring, from),
                                        IF from >= ring_floor THEN "no" ELSE "wanted"))
  BY <1>0, SubscribeFacts DEF ResumesFrom
<1>5. CASE UNCHANGED got /\ Becomes(f, FreshFeed(ids, last_lsn))
  <2> DEFINE G == FreshFeed(ids, last_lsn)
  <2>1. ids \in Nat /\ last_lsn \in Nat
    BY <1>0, ChangeHubAssumption DEF TypeOK
  <2>2. G.hist = "no" /\ Becomes(f, G)
    BY <1>5, <2>1, FeedFresh
  <2> HIDE DEF G
  <2> QED
    BY <1>3, <1>5, <2>2
<1>6. CASE /\ UNCHANGED got
           /\ \E from \in Nat :
                /\ After(ring, from) \in Seq(Batch)
                /\ Becomes(f, ResumedFeed(ids, from, ring_floor, After(ring, from),
                                          IF from >= ring_floor THEN "no" ELSE "wanted"))
  <2>1. PICK from \in Nat :
              /\ After(ring, from) \in Seq(Batch)
              /\ Becomes(f, ResumedFeed(ids, from, ring_floor, After(ring, from),
                                        IF from >= ring_floor THEN "no" ELSE "wanted"))
    BY <1>6
  <2> DEFINE h == IF from >= ring_floor THEN "no" ELSE "wanted"
             bs == After(ring, from)
             G == ResumedFeed(ids, from, ring_floor, bs, h)
  <2>2. ids \in Nat /\ ring_floor \in Nat /\ bs \in Seq(Batch) /\ Becomes(f, G)
    BY <1>0, <2>1, ChangeHubAssumption DEF TypeOK
  <2>3. h \in Hists /\ h \in {"no", "wanted"}
    BY DEF Hists
  <2> HIDE DEF h, bs
  <2>4. G.hist = h
    <3>1. /\ ids \in Nat /\ from \in Nat /\ ring_floor \in Nat /\ bs \in Seq(Batch)
          /\ h \in Hists
      BY <2>2, <2>3
    <3> QED
      BY ONLY <3>1, FeedResumed
  <2> HIDE DEF G
  <2> QED
    BY <1>3, <1>6, <2>2, <2>3, <2>4
<1> QED
  BY <1>2, <1>4, <1>5, <1>6

\* The empty graph is that of LSN 0.
LEMMA EmptyGraph ==
  ASSUME TypeOK, LogOrder, wal_backed, \A i \in DOMAIN log : log[i].kind = "tx"
  PROVE  GraphUpTo(0) = {}
<1>1. \A i \in DOMAIN log : log[i].lsn \in Nat /\ log[i].lsn > 0
  <2>1. \A j \in DOMAIN log : log[j] \in Items
    BY DEF TypeOK
  <2> QED
    BY <2>1 DEF Items, LogOrder
<1>2. {i \in DOMAIN log : log[i].lsn <= 0} = {}
  BY <1>1
<1> QED
  BY <1>2 DEF GraphUpTo, GraphOf

LEMMA PlanRebuilt == ASSUME HubInv, Rebuilt, NEW f \in Feeds, Plan(f) PROVE Rebuilt'
<1> USE DEF wal, eaten, PlannedOn
<1>0. TypeOK /\ LogOrder /\ WalOrder
  BY DEF HubInv
<1>1. UNCHANGED <<log, bases, oldest, next_lsn>>
  BY <1>0, PlanFacts
<1>2. CASE Becomes(f, NoFeed) /\ StartOver(f)
  <2>1. HistoryTrue'
    BY <1>0, <1>2, TrueStartOver DEF Rebuilt
  <2>2. Rebuilding(NoFeed)
    BY NoFeedFields DEF Rebuilding
  <2> QED
    BY <1>1, <1>2, <2>1, <2>2, RebuiltFeed
<1>3. CASE /\ wal_backed /\ UNCHANGED eaten
           /\ \E b \in bases \cup {EmptyBase} : PlannedOn(f, b)
  <2>1. PICK b \in bases \cup {EmptyBase} : PlannedOn(f, b)
    BY <1>3
  <2> DEFINE F == feed[f]
             G == Moved(F, "planned", b.lsn, b.has, F.pos, F.from)
  <2>2. /\ F \in FeedState /\ F.pos \in Nat /\ F.from \in Nat
    BY <1>0, Numerals
  <2>3. "planned" \in Hists
    BY DEF Hists
  <2>4. Becomes(f, G)
    BY <2>1
  <2> HIDE DEF F
  <2>5. G.hist = "planned" /\ G.base = b.lsn /\ G.seen = b.has
    BY <2>1, <2>2, <2>3, FeedMoved
  <2> HIDE DEF G
  <2>6. b.has = GraphUpTo(b.lsn) /\ b.lsn < next_lsn
    <3>1. CASE b \in bases
      <4>1. b.lsn <= disk /\ disk \in Nat /\ durable_lsn \in Nat /\ disk <= durable_lsn
            /\ durable_lsn < next_lsn /\ next_lsn \in Nat
        BY <1>0, <3>1 DEF TypeOK, WalOrder
      <4> QED
        BY <2>1, <3>1, <4>1 DEF Rebuilt
    <3>2. CASE b = EmptyBase
      <4>1. b.lsn = 0 /\ b.has = {}
        BY <3>2 DEF EmptyBase
      <4>2. GraphUpTo(0) = {}
        BY <1>0, <1>3, EmptyGraph DEF Rebuilt
      <4>3. next_lsn \in Nat \ {0}
        BY <1>0 DEF TypeOK
      <4> QED
        BY <4>1, <4>2, <4>3
    <3> QED
      BY <3>1, <3>2
  <2>7. oldest <= b.lsn + 1
    BY <2>1 DEF Covers
  <2>8. Rebuilding(G)
    BY <2>5, <2>6, <2>7 DEF Rebuilding
  <2>9. HistoryTrue'
    BY <1>3, TrueKept DEF Rebuilt
  <2> QED
    BY <1>1, <2>4, <2>8, <2>9, RebuiltFeed
<1> QED
  BY <1>0, <1>2, <1>3, PlanFacts

LEMMA EndedRebuilt ==
  ASSUME TypeOK, Rebuilt, NEW f \in Feeds, Becomes(f, Ended(feed[f], <<>>)),
         UNCHANGED <<log, bases, oldest, next_lsn, got>>
  PROVE  Rebuilt'
<1> DEFINE F == feed[f]
           e == <<>>
           G == Ended(F, e)
<1>1. F \in FeedState /\ e \in Seq(Batch) /\ Becomes(f, G) /\ next_lsn \in Nat
  BY DEF TypeOK
<1> HIDE DEF e
<1>2. G.errored /\ G.hist = F.hist /\ G.base = F.base /\ G.seen = F.seen /\ G.pos = F.pos
      /\ G.from = F.from
  BY <1>1, FeedEnded
<1> HIDE DEF G
<1>3. Undisturbed(G, feed[f])
  BY <1>2 DEF Undisturbed
<1>4. \A g \in Feeds : Undisturbed(feed'[g], feed[g])
  BY <1>1, <1>3, BecomesUndisturbed
<1>5. HistoryTrue'
  BY TrueKept DEF Rebuilt
<1>6. next_lsn' \in Nat /\ next_lsn' >= next_lsn
  BY <1>1
<1> QED
  BY <1>4, <1>5, <1>6, RebuiltKept

LEMMA HistoryStartRebuilt ==
  ASSUME HubInv, Rebuilt, NEW f \in Feeds, HistoryStart(f) PROVE Rebuilt'
<1> USE DEF eaten
<1>0. TypeOK
  BY DEF HubInv
<1>1. /\ feed[f].hist = "planned" /\ ~feed[f].errored
      /\ UNCHANGED <<log, bases, oldest, next_lsn, got>>
      /\ \/ Becomes(f, Ended(feed[f], <<>>))
         \/ \E s \in SUBSET Ids :
              /\ s = feed[f].seen \/ \E b \in bases : b.lsn = feed[f].base /\ s = b.has
              /\ Becomes(f, Moved(feed[f], "running", feed[f].base, s, feed[f].base, oldest))
  BY <1>0, HistoryStartFacts
<1>2. CASE Becomes(f, Ended(feed[f], <<>>))
  BY <1>0, <1>1, <1>2, EndedRebuilt
<1>3. CASE \E s \in SUBSET Ids :
              /\ s = feed[f].seen \/ \E b \in bases : b.lsn = feed[f].base /\ s = b.has
              /\ Becomes(f, Moved(feed[f], "running", feed[f].base, s, feed[f].base, oldest))
  <2>1. PICK s \in SUBSET Ids :
              /\ s = feed[f].seen \/ \E b \in bases : b.lsn = feed[f].base /\ s = b.has
              /\ Becomes(f, Moved(feed[f], "running", feed[f].base, s, feed[f].base, oldest))
    BY <1>3
  <2> DEFINE F == feed[f]
             G == Moved(F, "running", F.base, s, F.base, oldest)
  <2>2. F \in FeedState /\ F.base \in Nat /\ oldest \in Nat
    BY <1>0, Numerals
  <2>3. F.seen = GraphUpTo(F.base) /\ F.base < next_lsn /\ oldest <= F.base + 1
    BY <1>1 DEF Rebuilt, Rebuilding
  <2>4. s = GraphUpTo(F.base)
    BY <2>1, <2>3 DEF Rebuilt
  <2>5. "running" \in Hists /\ Becomes(f, G)
    BY <2>1 DEF Hists
  <2> HIDE DEF F
  <2>6. G.hist = "running" /\ G.seen = s /\ G.pos = F.base /\ G.from = oldest
    BY <2>2, <2>5, FeedMoved
  <2> HIDE DEF G
  <2>7. Rebuilding(G)
    BY <2>3, <2>4, <2>6 DEF Rebuilding
  <2>8. HistoryTrue'
    BY <1>1, TrueKept DEF Rebuilt
  <2> QED
    BY <1>1, <2>5, <2>7, <2>8, RebuiltFeed
<1> QED
  BY <1>1, <1>2, <1>3

\* The first transaction to read is the next one: those before it are rebuilt,
\* and with it the graph of its LSN is.
LEMMA NextToRead ==
  ASSUME HubInv, Rebuilt, NEW f \in Feeds, feed[f].hist = "running",
         NEW i \in ToRead(f), \A j \in ToRead(f) : i <= j
  PROVE  /\ feed[f].seen = GraphAt(i - 1)
         /\ feed[f].seen \cup {log[i].id} = GraphUpTo(log[i].lsn)
         /\ log[i].lsn \in Nat /\ log[i].lsn < next_lsn /\ log[i].lsn > feed[f].pos
<1> DEFINE F == feed[f]
           l == log[i].lsn
<1>0. TypeOK /\ Modes /\ LogOrder
  BY DEF HubInv
<1>1. F.pos \in Nat /\ F.from \in Nat /\ F.upto \in Nat /\ next_lsn \in Nat
  BY <1>0, Numerals
<1>2. F.seen = GraphUpTo(F.pos) /\ F.from <= F.pos + 1 /\ wal_backed
  BY <1>0 DEF Rebuilt, Rebuilding, Modes
<1>3. /\ DOMAIN log = 1 .. Len(log) /\ Len(log) \in Nat
      /\ \A j \in DOMAIN log : log[j].lsn \in Nat /\ log[j].kind = "tx" /\ log[j].lsn < next_lsn
  <2>1. \A j \in DOMAIN log : log[j] \in Items
    BY <1>0 DEF TypeOK
  <2>2. DOMAIN log = 1 .. Len(log) /\ Len(log) \in Nat
    BY <1>0 DEF TypeOK
  <2> QED
    BY <1>0, <1>2, <2>1, <2>2 DEF Items, Rebuilt, LogOrder
<1>4. i \in DOMAIN log /\ l > F.pos /\ l <= F.upto /\ l >= F.from
  BY DEF ToRead
<1>5. \A j, k \in DOMAIN log : j < k => log[j].lsn < log[k].lsn
  BY <1>0, <1>2, <1>3 DEF LogOrder
<1>6. \A j \in DOMAIN log : j < i => log[j].lsn <= F.pos
  <2> SUFFICES ASSUME NEW j \in DOMAIN log, j < i, log[j].lsn > F.pos PROVE FALSE
    BY <1>1, <1>3
  <2>1. log[j].lsn < l /\ log[j].lsn \in Nat /\ l \in Nat
    BY <1>3, <1>4, <1>5
  <2>2. log[j].lsn <= F.upto /\ log[j].lsn >= F.from
    BY <1>1, <1>2, <1>4, <2>1
  <2>3. j \in ToRead(f)
    BY <1>3, <2>2 DEF ToRead
  <2>4. i <= j /\ i \in Nat /\ j \in Nat
    BY <1>3, <1>4, <2>3
  <2> QED
    BY <2>4
<1>7. \A j \in DOMAIN log : j > i => log[j].lsn > l
  BY <1>3, <1>4, <1>5
<1>8. /\ l \in Nat /\ l < next_lsn /\ i \in Nat /\ i >= 1 /\ i <= Len(log)
  BY <1>3, <1>4
<1> HIDE DEF F, l
<1>9. {j \in DOMAIN log : log[j].lsn <= F.pos} = 1 .. i - 1
  <2>1. \A j \in DOMAIN log : log[j].lsn <= F.pos => j < i
    <3> SUFFICES ASSUME NEW j \in DOMAIN log, log[j].lsn <= F.pos, ~(j < i) PROVE FALSE
      OBVIOUS
    <3>1. j \in Nat /\ (j = i \/ j > i)
      BY <1>3, <1>8
    <3>2. log[j].lsn >= l /\ log[j].lsn \in Nat
      BY <1>3, <1>7, <1>8, <3>1 DEF l
    <3> QED
      BY <1>1, <1>4, <1>8, <3>2
  <2> QED
    BY <1>3, <1>6, <1>8, <2>1
<1>10. {j \in DOMAIN log : log[j].lsn <= l} = 1 .. i
  <2>1. \A j \in DOMAIN log : log[j].lsn <= l => j <= i
    <3> SUFFICES ASSUME NEW j \in DOMAIN log, log[j].lsn <= l, ~(j <= i) PROVE FALSE
      OBVIOUS
    <3>1. j \in Nat /\ j > i /\ log[j].lsn \in Nat
      BY <1>3, <1>8
    <3> QED
      BY <1>7, <1>8, <3>1
  <2>2. \A j \in 1 .. i : j \in DOMAIN log /\ log[j].lsn <= l
    <3> SUFFICES ASSUME NEW j \in 1 .. i PROVE j \in DOMAIN log /\ log[j].lsn <= l
      OBVIOUS
    <3>1. j \in DOMAIN log /\ (j = i \/ j < i) /\ log[j].lsn \in Nat
      BY <1>3, <1>8
    <3>2. CASE j = i
      BY <1>8, <3>2 DEF l
    <3>3. CASE j < i
      <4>1. log[j].lsn < log[i].lsn
        BY <1>4, <1>5, <3>1, <3>3
      <4> QED
        BY <1>8, <3>1, <4>1 DEF l
    <3> QED
      BY <3>1, <3>2, <3>3
  <2> QED
    BY <1>3, <1>8, <2>1, <2>2
<1>11. GraphAt(i - 1) = {log[j].id : j \in 1 .. i - 1}
  <2>1. {j \in 1 .. i - 1 : \A k \in j + 1 .. i - 1 : log[k].kind # "restore"} = 1 .. i - 1
    <3>1. \A k \in 1 .. i - 1 : k \in DOMAIN log
      BY <1>3, <1>8
    <3>2. \A j \in 1 .. i - 1 : \A k \in j + 1 .. i - 1 : k \in 1 .. i - 1
      BY <1>8
    <3> QED
      BY <1>3, <3>1, <3>2
  <2> QED
    BY <2>1 DEF GraphAt
<1>12. F.seen = {log[j].id : j \in 1 .. i - 1}
  BY <1>2, <1>9 DEF GraphUpTo, GraphOf
<1>13. GraphUpTo(l) = {log[j].id : j \in 1 .. i}
  BY <1>10 DEF GraphUpTo, GraphOf
<1>14. {log[j].id : j \in 1 .. i - 1} \cup {log[i].id} = {log[j].id : j \in 1 .. i}
  <2>1. 1 .. i = (1 .. i - 1) \cup {i}
    BY <1>8
  <2> QED
    BY <2>1
<1> QED
  BY <1>4, <1>8, <1>11, <1>12, <1>13, <1>14 DEF F, l

LEMMA HistoryNextRebuilt ==
  ASSUME HubInv, Rebuilt, NEW f \in Feeds, HistoryNext(f) PROVE Rebuilt'
<1> USE DEF wal, eaten, ReadOut, ReadsPast, ReadsOn, Reads
<1>0. TypeOK
  BY DEF HubInv
<1> DEFINE F == feed[f]
<1>1. F.hist = "running" /\ UNCHANGED <<log, bases, oldest, next_lsn>> /\ F \in FeedState
  BY <1>0, HistoryNextFacts, Numerals
<1>2. /\ F.queue \in Seq(Batch) /\ F.backlog \in Seq(Batch) /\ F.last \in Places
      /\ F.seen \in SUBSET Ids /\ F.base \in Nat /\ F.pos \in Nat /\ F.from \in Nat
  BY <1>1, FeedFields
\* What reading transaction i leaves.
<1>3. ASSUME NEW i \in ToRead(f), \A j \in ToRead(f) : i <= j, i \in DOMAIN log,
             NEW q \in Seq(Batch), NEW bl \in Seq(Batch), NEW la \in Places,
             Becomes(f, Took(F, q, bl, la, F.seen \cup {log[i].id}, log[i].lsn)), HistoryTrue'
      PROVE  Rebuilt'
  <2> DEFINE s == F.seen \cup {log[i].id}
             p == log[i].lsn
             G == Took(F, q, bl, la, s, p)
  <2>1. s = GraphUpTo(p) /\ p \in Nat /\ p < next_lsn /\ p > F.pos
    BY <1>1, <1>3, NextToRead
  <2>2. s \in SUBSET Ids
    <3>1. log[i] \in Items
      BY <1>0, <1>3 DEF TypeOK
    <3> QED
      BY <1>2, <3>1 DEF Items
  <2>3. Becomes(f, G) /\ F.from <= F.pos + 1
    BY <1>1, <1>3 DEF Rebuilt, Rebuilding
  <2> HIDE DEF F, s, p
  <2>4. G.hist = F.hist /\ G.seen = s /\ G.pos = p /\ G.from = F.from
    BY <1>1, <2>1, <2>2, FeedTook
  <2> HIDE DEF G
  <2>5. F.from <= p + 1
    BY <1>2, <2>1, <2>3
  <2>6. Rebuilding(G)
    BY <1>1, <2>1, <2>4, <2>5 DEF Rebuilding
  <2> QED
    BY <1>1, <1>3, <2>3, <2>6, RebuiltFeed
<1>4. CASE ReadOut(f)
  <2> DEFINE G == Moved(F, "no", F.base, F.seen, F.pos, F.from)
  <2>1. "no" \in Hists /\ Becomes(f, G)
    BY <1>4 DEF Hists
  <2> HIDE DEF F
  <2>2. G.hist = "no"
    BY <1>1, <1>2, <2>1, FeedMoved
  <2> HIDE DEF G
  <2>3. Rebuilding(G)
    BY <2>2 DEF Rebuilding
  <2>4. HistoryTrue'
    BY <1>4, TrueKept DEF Rebuilt
  <2> QED
    BY <1>1, <2>1, <2>3, <2>4, RebuiltFeed
<1>5. CASE UNCHANGED eaten /\ Becomes(f, Ended(F, <<>>))
  BY <1>0, <1>1, <1>5, EndedRebuilt
<1>6. CASE \E i \in ToRead(f) : ReadsPast(f, i)
  <2>1. PICK i \in ToRead(f) : ReadsPast(f, i)
    BY <1>6
  <2>2. HistoryTrue'
    BY <2>1, TrueKept DEF Rebuilt
  <2> QED
    BY <1>2, <1>3, <2>1, <2>2
<1>7. CASE \E i \in ToRead(f) : ReadsOn(f, i)
  <2>1. PICK i \in ToRead(f) : ReadsOn(f, i)
    BY <1>7
  <2> DEFINE g == F.seen = GraphAt(i - 1)
             d == [lsn |-> log[i].lsn, id |-> log[i].id, good |-> g]
  <2>2. g
    BY <1>1, <2>1, NextToRead
  <2>3. log[i].lsn \in Nat /\ log[i].id \in Ids
    <3>1. log[i] \in Items
      BY <1>0, <2>1 DEF TypeOK
    <3> QED
      BY <3>1 DEF Items
  <2>4. Deliver(f, d) /\ d.good = g
    BY <2>1
  <2>5. d \in Delivered
    <3>1. \A b \in BOOLEAN : [lsn |-> log[i].lsn, id |-> log[i].id, good |-> b] \in Delivered
      BY <2>3 DEF Delivered
    <3>2. g \in BOOLEAN
      OBVIOUS
    <3> HIDE DEF g
    <3> QED
      BY <3>1, <3>2, Zenon
  <2> HIDE DEF d, g
  <2>6. HistoryTrue'
    BY <1>0, <2>2, <2>4, <2>5, TrueDelivered DEF Rebuilt
  <2>7. log[i].lsn \in Places
    BY <2>3 DEF Places
  <2> QED
    BY <1>2, <1>3, <2>1, <2>6, <2>7
<1> QED
  BY <1>0, <1>4, <1>5, <1>6, <1>7, HistoryNextFacts

\* Steps of a feed that is not reading history.
LEMMA TookRebuilt ==
  ASSUME TypeOK, Rebuilt, NEW f \in Feeds, feed[f].hist = "no",
         NEW q \in Seq(Batch), NEW bl \in Seq(Batch), NEW la \in Places,
         Becomes(f, Took(feed[f], q, bl, la, feed[f].seen, feed[f].pos)),
         UNCHANGED <<log, bases, oldest, next_lsn>>, HistoryTrue'
  PROVE  Rebuilt'
<1> DEFINE F == feed[f]
           s == F.seen
           p == F.pos
           G == Took(F, q, bl, la, s, p)
<1>1. F \in FeedState /\ Becomes(f, G) /\ F.hist = "no"
  BY DEF TypeOK
<1>2. s \in SUBSET Ids /\ p \in Nat
  BY <1>1, FeedFields
<1> HIDE DEF F, s, p
<1>3. G.hist = F.hist
  BY <1>1, <1>2, FeedTook
<1> HIDE DEF G
<1>4. Rebuilding(G)
  BY <1>1, <1>3 DEF Rebuilding
<1> QED
  BY <1>1, <1>4, RebuiltFeed

LEMMA PollBacklogRebuilt ==
  ASSUME HubInv, Rebuilt, NEW f \in Feeds, PollBacklog(f) PROVE Rebuilt'
<1> USE DEF wal, eaten
<1> DEFINE F == feed[f]
           b == Head(F.backlog)
           t == Tail(F.backlog)
<1>0. TypeOK
  BY DEF HubInv
<1>1. /\ F.hist = "no" /\ UNCHANGED <<log, bases, oldest, next_lsn>>
      /\ b \in Batch /\ t \in Seq(Batch)
      /\ \/ /\ Deliver(f, Live(b))
            /\ Becomes(f, Took(F, F.queue, t, b.lsn, F.seen, F.pos))
         \/ /\ UNCHANGED eaten
            /\ Becomes(f, Took(F, F.queue, t, F.last, F.seen, F.pos))
  BY <1>0, PollBacklogFacts DEF CaughtUp
<1>2. F \in FeedState
  BY <1>0 DEF TypeOK
<1>3. F.queue \in Seq(Batch) /\ F.last \in Places
  BY <1>2, FeedFields
<1>4. b.lsn \in Places
  BY <1>1 DEF Batch, Places
<1> HIDE DEF b, t
<1>5. CASE /\ Deliver(f, Live(b))
           /\ Becomes(f, Took(F, F.queue, t, b.lsn, F.seen, F.pos))
  <2>1. HistoryTrue'
    <3>1. Live(b) \in Delivered /\ Live(b).good
      BY <1>1, TrueLive
    <3> QED
      BY <1>0, <1>5, <3>1, TrueDelivered DEF Rebuilt
  <2> QED
    BY <1>0, <1>1, <1>3, <1>4, <1>5, <2>1, TookRebuilt
<1>6. CASE /\ UNCHANGED eaten
           /\ Becomes(f, Took(F, F.queue, t, F.last, F.seen, F.pos))
  <2>1. HistoryTrue'
    BY <1>6, TrueKept DEF Rebuilt
  <2> QED
    BY <1>0, <1>1, <1>3, <1>6, <2>1, TookRebuilt
<1> QED
  BY <1>1, <1>5, <1>6

LEMMA PollQueueRebuilt ==
  ASSUME HubInv, Rebuilt, NEW f \in Feeds, PollQueue(f) PROVE Rebuilt'
<1> USE DEF wal
<1> DEFINE F == feed[f]
           b == Head(F.queue)
           t == Tail(F.queue)
<1>0. TypeOK
  BY DEF HubInv
<1>1. /\ F.hist = "no" /\ UNCHANGED <<log, bases, oldest, next_lsn>>
      /\ b \in Batch /\ t \in Seq(Batch) /\ Deliver(f, Live(b))
      /\ Becomes(f, Took(F, t, F.backlog, b.lsn, F.seen, F.pos))
  BY <1>0, PollQueueFacts DEF CaughtUp
<1>2. F \in FeedState
  BY <1>0 DEF TypeOK
<1>3. F.backlog \in Seq(Batch)
  BY <1>2, FeedFields
<1>4. b.lsn \in Places
  BY <1>1 DEF Batch, Places
<1> HIDE DEF b, t
<1>5. HistoryTrue'
  <2>1. Live(b) \in Delivered /\ Live(b).good
    BY <1>1, TrueLive
  <2> QED
    BY <1>0, <1>1, <2>1, TrueDelivered DEF Rebuilt
<1> QED
  BY <1>0, <1>1, <1>3, <1>4, <1>5, TookRebuilt

LEMMA ConsumerRebuilt ==
  ASSUME HubInv, Rebuilt, NEW f \in Feeds, Consumer(f) PROVE Rebuilt'
<1> USE DEF wal, eaten
<1> DEFINE F == feed[f]
<1>0. TypeOK
  BY DEF HubInv
<1>a. F \in FeedState
  BY <1>0 DEF TypeOK
<1>1. CASE Subscribe(f)
  BY <1>1, SubscribeRebuilt
<1>2. CASE Plan(f)
  BY <1>2, PlanRebuilt
<1>3. CASE HistoryStart(f)
  BY <1>3, HistoryStartRebuilt
<1>4. CASE HistoryNext(f)
  BY <1>4, HistoryNextRebuilt
<1>5. CASE PollBacklog(f)
  BY <1>5, PollBacklogRebuilt
<1>6. CASE PollQueue(f)
  BY <1>6, PollQueueRebuilt
<1>7. CASE PollLagged(f)
  <2>1. UNCHANGED <<log, bases, oldest, next_lsn, got>> /\ Becomes(f, Ended(feed[f], <<>>))
    BY <1>0, <1>7, PollLaggedFacts
  <2> QED
    BY <1>0, <2>1, EndedRebuilt
<1>8. ASSUME NEW G, Becomes(f, G), Rebuilding(G), UNCHANGED <<log, bases, oldest, next_lsn, got>>
      PROVE  Rebuilt'
  <2>1. HistoryTrue'
    BY <1>8, TrueKept DEF Rebuilt
  <2> QED
    BY <1>8, <2>1, RebuiltFeed
<1>9. CASE Sleep(f)
  <2> DEFINE G == Slept(F)
  <2>1. UNCHANGED <<log, bases, oldest, next_lsn, got>> /\ Becomes(f, G) /\ F.hist = "no"
    BY <1>0, <1>9, SleepFacts DEF CaughtUp
  <2>2. G.hist = F.hist
    BY <1>a, FeedSlept
  <2>3. Rebuilding(G)
    BY <2>1, <2>2 DEF Rebuilding
  <2> HIDE DEF G
  <2> QED
    BY <1>8, <2>1, <2>3
<1>10. CASE close_feed(f)
  <2> DEFINE e == <<>>
             G == Pushed(F, e, "closed")
  <2>1. UNCHANGED <<log, bases, oldest, next_lsn, got>> /\ Becomes(f, G)
    BY <1>0, <1>10, CloseFeedFacts
  <2>2. e \in Seq(Batch) /\ "closed" \in Statuses
    BY DEF Statuses
  <2> HIDE DEF e, F
  <2>3. /\ G.errored = F.errored /\ G.hist = F.hist /\ G.base = F.base /\ G.seen = F.seen
        /\ G.pos = F.pos /\ G.from = F.from
    BY <1>a, <2>2, FeedPushed
  <2> HIDE DEF G
  <2>4. Rebuilding(F)
    BY DEF F, Rebuilt
  <2>5. Rebuilding(G)
    BY <2>3, <2>4 DEF Rebuilding
  <2> QED
    BY <1>8, <2>1, <2>5
<1>11. CASE Drop(f)
  <2>1. UNCHANGED <<log, bases, oldest, next_lsn, got>> /\ Becomes(f, NoFeed)
    BY <1>0, <1>11, DropFacts
  <2>2. Rebuilding(NoFeed)
    BY NoFeedFields DEF Rebuilding
  <2> QED
    BY <1>8, <2>1, <2>2
<1> QED
  BY <1>1, <1>2, <1>3, <1>4, <1>5, <1>6, <1>7, <1>9, <1>10, <1>11 DEF Consumer, Poll

\* The other steps of the writer and the WAL.
LEMMA QuietRebuilt ==
  ASSUME HubInv, Rebuilt, UNCHANGED <<log, bases, oldest, got>>,
         next_lsn' = next_lsn \/ next_lsn' = next_lsn + 3,
         \A f \in Feeds : Undisturbed(feed'[f], feed[f])
  PROVE  Rebuilt'
<1>1. TypeOK /\ next_lsn' \in Nat /\ next_lsn' >= next_lsn
  BY DEF HubInv, TypeOK
<1>2. HistoryTrue'
  BY TrueKept DEF Rebuilt
<1> QED
  BY <1>1, <1>2, RebuiltKept

LEMMA PublishRebuilt ==
  ASSUME HubInv, Rebuilt, publish \/ publish_reset PROVE Rebuilt'
<1> USE DEF wal, eaten
<1> DEFINE lsn == Bigger(writer.lsn, last_assigned + 1)
<1>0. TypeOK /\ Modes /\ Numbers
  BY DEF HubInv
<1>1. /\ UNCHANGED <<log, bases, oldest, got, next_lsn>>
      /\ writer.at \in {"publish", "reset"}
      /\ \/ UNCHANGED feed
         \/ publish_when_durable(lsn, writer.id, lsn)
         \/ writer.at = "reset" /\ publish_when_durable(lsn, writer.id, writer.lsn - 1)
  BY DEF publish, publish_reset
<1>2. /\ writer.lsn \in Nat /\ writer.id \in Ids \cup {0} /\ last_assigned \in Nat
      /\ ids \in 0 .. MaxItems /\ MaxItems \in Nat /\ next_lsn \in Nat \ {0}
  BY <1>0, WriterFields, ChangeHubAssumption DEF TypeOK
<1>3. active /\ writer.id \in Ids /\ lsn \in Nat /\ (writer.at = "reset" => writer.lsn - 1 \in Nat)
  BY <1>0, <1>1, <1>2 DEF Numbers, Modes, Ids, Bigger
<1> HIDE DEF lsn
<1>4. \A f \in Feeds : Undisturbed(feed'[f], feed[f])
  BY <1>0, <1>1, <1>3, PublishUndisturbed, SameUndisturbed
<1> QED
  BY <1>1, <1>4, QuietRebuilt

LEMMA OnDurableRebuilt == ASSUME HubInv, Rebuilt, on_durable PROVE Rebuilt'
<1> USE DEF wal, eaten
<1>0. TypeOK
  BY DEF HubInv
<1>1. UNCHANGED <<log, bases, oldest, got, next_lsn>>
  BY <1>0, OnDurableFacts
<1>2. UNCHANGED feed \/ \E bs \in Seq(Batch) : Release(bs)
  BY <1>0, OnDurableFacts DEF HandsOut, Reaches
<1>3. \A f \in Feeds : Undisturbed(feed'[f], feed[f])
  BY <1>0, <1>2, ReleaseUndisturbed, SameUndisturbed
<1> QED
  BY <1>1, <1>3, QuietRebuilt

LEMMA CloseRebuilt == ASSUME HubInv, Rebuilt, close PROVE Rebuilt'
<1> USE DEF wal, eaten
<1>0. TypeOK
  BY DEF HubInv
<1>1. /\ UNCHANGED <<log, bases, oldest, got, next_lsn>>
      /\ \A f \in Feeds : feed'[f] = Closed(feed[f])
  BY DEF close
<1>2. ASSUME NEW f \in Feeds PROVE Undisturbed(feed'[f], feed[f])
  <2> DEFINE F == feed[f]
             G == feed'[f]
             e == <<>>
  <2>1. F \in FeedState /\ e \in Seq(Batch) /\ "closed" \in Statuses
    BY <1>0 DEF TypeOK, Statuses
  <2>2. G = F \/ G = Pushed(F, e, "closed")
    BY <1>1, <2>1, ClosedFacts
  <2> HIDE DEF F, G, e
  <2>3. /\ G.errored = F.errored /\ G.hist = F.hist /\ G.base = F.base /\ G.seen = F.seen
        /\ G.pos = F.pos /\ G.from = F.from
    BY <2>1, <2>2, FeedPushed
  <2> QED
    BY <2>3 DEF Undisturbed, F, G
<1> QED
  BY <1>1, <1>2, QuietRebuilt

LEMMA StepRebuilt ==
  ASSUME "restore" \notin Ops, "truncate_replay" \notin Ops
  PROVE  HubInv /\ Rebuilt /\ [Next]_vars => Rebuilt'
<1> SUFFICES ASSUME HubInv, Rebuilt, [Next]_vars PROVE Rebuilt'
  OBVIOUS
<1> USE DEF wal, eaten
<1>1. CASE Commit
  BY <1>1, CommitRebuilt
<1>2. CASE CommitInMemory
  BY <1>2, CommitInMemoryRebuilt
<1>3. CASE publish \/ publish_reset
  BY <1>3, PublishRebuilt
<1>4. CASE CatalogCommit \/ Fsync \/ FsyncFails \/ ActivateListen \/ ActivateRead \/ Activate
           \/ set_retention
  <2>1. /\ UNCHANGED <<log, bases, oldest, got, feed>>
        /\ next_lsn' = next_lsn \/ next_lsn' = next_lsn + 3
    BY <1>4 DEF CatalogCommit, Fsync, FsyncFails, ActivateListen, ActivateRead, Activate,
                set_retention
  <2> QED
    BY <2>1, SameUndisturbed, QuietRebuilt
<1>5. CASE Restore \/ RestoreInMemory
  BY <1>5 DEF Restore, RestoreInMemory, May
<1>6. CASE Checkpoint
  BY <1>6, CheckpointRebuilt
<1>7. CASE on_durable
  BY <1>7, OnDurableRebuilt
<1>8. CASE close
  BY <1>8, CloseRebuilt
<1>9. CASE Restart
  BY <1>9, RestartRebuilt
<1>10. CASE \E f \in Feeds : Consumer(f)
  BY <1>10, ConsumerRebuilt
<1>11. CASE UNCHANGED vars
  <2>1. UNCHANGED <<log, bases, oldest, got, feed, next_lsn>>
    BY <1>11 DEF vars
  <2> QED
    BY <2>1, SameUndisturbed, QuietRebuilt
<1> QED
  BY <1>1, <1>2, <1>3, <1>4, <1>5, <1>6, <1>7, <1>8, <1>9, <1>10, <1>11 DEF Next, Writer

\* A transaction delivered from history was rebuilt on the graph as it was at
\* that commit (HistoryReplay::next_batch), when no restore is in the WAL and
\* no segment is removed under a replay.
THEOREM HistoryTrueHolds ==
  ASSUME "restore" \notin Ops, "truncate_replay" \notin Ops PROVE Spec => []HistoryTrue
<1>1. Init => HubInv /\ Rebuilt
  BY InitHub, InitRebuilt
<1>2. HubInv /\ Rebuilt /\ [Next]_vars => (HubInv /\ Rebuilt)'
  BY StepHub, StepRebuilt
<1>3. HubInv /\ Rebuilt => HistoryTrue
  BY DEF Rebuilt
<1> QED
  BY <1>1, <1>2, <1>3, PTL DEF Spec

-----------------------------------------------------------------------------
(* Live feeds: what a feed has in store leaves out nothing.                *)

LEMMA BatchTypes ==
  ASSUME NEW s \in Seq(Batch)
  PROVE  /\ DOMAIN s = 1 .. Len(s) /\ Len(s) \in Nat
         /\ \A k \in 1 .. Len(s) : s[k] \in Batch /\ s[k].lsn \in Nat /\ s[k].id \in Ids
<1>1. DOMAIN s = 1 .. Len(s) /\ Len(s) \in Nat /\ \A k \in 1 .. Len(s) : s[k] \in Batch
  OBVIOUS
<1>2. \A k \in 1 .. Len(s) : s[k].lsn \in Nat /\ s[k].id \in Ids
  BY <1>1 DEF Batch
<1> QED
  BY <1>1, <1>2

\* Releasing batches extends the window.
LEMMA WindowReleased ==
  ASSUME NEW R \in Seq(Batch), NEW S \in Seq(Batch), NEW bs \in Seq(Batch), NEW fl \in Nat,
         EndOf(R, S, fl), \A k \in 1 .. Len(bs) : bs[k].lsn > fl
  PROVE  EndOf(R \o bs, S \o bs, fl)
<1> DEFINE R2 == R \o bs
           S2 == S \o bs
<1>1. /\ R2 \in Seq(Batch) /\ Len(R2) = Len(R) + Len(bs) /\ DOMAIN R2 = 1 .. Len(R) + Len(bs)
      /\ \A k \in 1 .. Len(R) : R2[k] = R[k]
      /\ \A k \in 1 .. Len(bs) : R2[Len(R) + k] = bs[k]
  BY ONLY R \in Seq(Batch), bs \in Seq(Batch)
<1>2. /\ S2 \in Seq(Batch) /\ Len(S2) = Len(S) + Len(bs) /\ DOMAIN S2 = 1 .. Len(S) + Len(bs)
      /\ \A k \in 1 .. Len(S) : S2[k] = S[k]
      /\ \A k \in 1 .. Len(bs) : S2[Len(S) + k] = bs[k]
  BY ONLY S \in Seq(Batch), bs \in Seq(Batch)
<1>3. /\ DOMAIN R = 1 .. Len(R) /\ DOMAIN S = 1 .. Len(S)
      /\ Len(R) \in Nat /\ Len(S) \in Nat /\ Len(bs) \in Nat
  OBVIOUS
<1>4. /\ Len(R) <= Len(S)
      /\ \A k \in 1 .. Len(R) : R[k] = S[Len(S) - Len(R) + k]
      /\ \A i \in 1 .. Len(S) : S[i].lsn > fl <=> i > Len(S) - Len(R)
  BY <1>3 DEF EndOf
<1> HIDE DEF R2, S2
<1>5. Len(R2) <= Len(S2) /\ Len(S2) - Len(R2) = Len(S) - Len(R)
  BY ONLY <1>1, <1>2, <1>3, <1>4
<1>6. ASSUME NEW k \in 1 .. Len(R2) PROVE R2[k] = S2[Len(S2) - Len(R2) + k]
  <2> DEFINE d == Len(S) - Len(R)
  <2>1. d \in Nat /\ Len(S) = d + Len(R)
    BY ONLY <1>3, <1>4
  <2>2. CASE k <= Len(R)
    <3>1. k \in 1 .. Len(R) /\ d + k \in 1 .. Len(S)
      BY ONLY <1>3, <2>1, <2>2, k \in 1 .. Len(R2)
    <3> QED
      BY <1>1, <1>2, <1>4, <1>5, <3>1
  <2>3. CASE k > Len(R)
    <3> DEFINE j == k - Len(R)
    <3>1. j \in 1 .. Len(bs) /\ k = Len(R) + j /\ d + k = Len(S) + j
      BY <1>1, <1>3, <2>1, <2>3
    <3> HIDE DEF j
    <3> QED
      BY <1>1, <1>2, <1>5, <3>1
  <2> QED
    BY <1>1, <1>3, <2>2, <2>3
<1>7. ASSUME NEW i \in 1 .. Len(S2)
      PROVE  S2[i].lsn > fl <=> i > Len(S2) - Len(R2)
  <2>1. CASE i <= Len(S)
    <3>1. i \in 1 .. Len(S)
      BY <1>3, <2>1
    <3> QED
      BY <1>2, <1>4, <1>5, <3>1
  <2>2. CASE i > Len(S)
    <3> DEFINE j == i - Len(S)
    <3>1. j \in 1 .. Len(bs) /\ i = Len(S) + j
      BY <1>2, <1>3, <2>2
    <3> HIDE DEF j
    <3>2. S2[i].lsn > fl
      BY <1>2, <3>1
    <3>3. i > Len(S) - Len(R)
      BY ONLY <1>3, <2>2, i \in 1 .. Len(S2)
    <3> QED
      BY <1>5, <3>2, <3>3
  <2> QED
    BY <1>2, <1>3, <2>1, <2>2
<1>8. DOMAIN R2 = 1 .. Len(R2) /\ DOMAIN S2 = 1 .. Len(S2)
  BY <1>1, <1>2
<1>9. EndOf(R2, S2, fl)
  BY <1>5, <1>6, <1>7, <1>8 DEF EndOf
<1> QED
  BY <1>9 DEF R2, S2

\* Trimming narrows it.
LEMMA WindowTrimmed ==
  ASSUME NEW R \in Seq(Batch), NEW S \in Seq(Batch), NEW fl \in Nat, NEW limit \in Nat,
         NEW head \in Nat, EndOf(R, S, fl), Increasing(S), fl <= head,
         \A i \in 1 .. Len(S) : S[i].lsn <= head
  PROVE  /\ EndOf(Trimmed(R, limit), S, FloorAfter(R, limit, fl))
         /\ FloorAfter(R, limit, fl) <= head
<1> DEFINE T == Trimmed(R, limit)
           nf == FloorAfter(R, limit, fl)
<1>1. T \in Seq(Batch) /\ nf \in Nat
  BY TrimFacts
<1>2. PICK n \in 0 .. Len(R) :
        /\ Len(T) = Len(R) - n
        /\ \A k \in 1 .. Len(R) - n : T[k] = R[n + k]
        /\ nf = IF n = 0 THEN fl ELSE R[n].lsn
  BY TrimFacts
<1> HIDE DEF T, nf
<1>3. /\ DOMAIN R = 1 .. Len(R) /\ DOMAIN S = 1 .. Len(S) /\ DOMAIN T = 1 .. Len(T)
      /\ Len(R) \in Nat /\ Len(S) \in Nat /\ Len(T) \in Nat /\ n \in Nat /\ n <= Len(R)
  BY <1>1
<1>4. /\ Len(R) <= Len(S)
      /\ \A k \in 1 .. Len(R) : R[k] = S[Len(S) - Len(R) + k]
      /\ \A i \in 1 .. Len(S) : S[i].lsn > fl <=> i > Len(S) - Len(R)
  BY <1>3 DEF EndOf
<1> DEFINE d == Len(S) - Len(R)
<1>5. d \in Nat /\ Len(S) = d + Len(R) /\ Len(S) - Len(T) = d + n /\ Len(T) <= Len(S)
  BY ONLY <1>2, <1>3, <1>4
<1>6. /\ \A k \in 1 .. Len(R) : R[k] = S[d + k]
      /\ \A i \in 1 .. Len(S) : S[i].lsn > fl <=> i > d
  BY <1>4
<1> HIDE DEF d
<1>7. ASSUME NEW k \in 1 .. Len(T) PROVE T[k] = S[Len(S) - Len(T) + k]
  <2>1. n + k \in 1 .. Len(R) /\ k \in 1 .. Len(R) - n
    BY <1>2, <1>3
  <2>2. T[k] = S[d + (n + k)]
    BY <1>2, <1>6, <2>1
  <2>3. d + (n + k) = Len(S) - Len(T) + k
    BY ONLY <1>3, <1>5, k \in 1 .. Len(T)
  <2> QED
    BY <2>2, <2>3
<1>8. CASE n = 0
  <2>1. nf = fl /\ Len(T) = Len(R)
    BY <1>2, <1>3, <1>8
  <2>2. \A i \in DOMAIN S : S[i].lsn > nf <=> i > Len(S) - Len(T)
    BY <1>3, <1>4, <2>1
  <2> QED
    BY <1>3, <1>5, <1>7, <2>1, <2>2 DEF EndOf, T, nf
<1>9. CASE n # 0
  <2>1. n \in 1 .. Len(R) /\ d + n \in 1 .. Len(S)
    BY <1>3, <1>5, <1>9
  <2>2. nf = S[d + n].lsn
    BY <1>2, <1>6, <1>9, <2>1
  <2>3. nf <= head
    BY <2>1, <2>2
  <2>4. ASSUME NEW i \in 1 .. Len(S) PROVE S[i].lsn > nf <=> i > d + n
    <3>0. S[i].lsn \in Nat /\ S[d + n].lsn \in Nat
      BY <2>1, BatchTypes
    <3>1. CASE i > d + n
      <4>1. S[d + n].lsn < S[i].lsn
        BY <1>3, <2>1, <3>1 DEF Increasing
      <4> QED
        BY <2>2, <3>0, <3>1, <4>1
    <3>2. CASE i = d + n
      BY <1>5, <2>2, <3>0, <3>2, <1>3
    <3>3. CASE i < d + n
      <4>1. S[i].lsn < S[d + n].lsn
        BY <1>3, <2>1, <3>3 DEF Increasing
      <4>2. ~(S[i].lsn > nf) /\ ~(i > d + n)
        <5>1. i \in Nat /\ d + n \in Nat
          BY <1>3, <1>5
        <5> QED
          BY ONLY <2>2, <3>0, <3>3, <4>1, <5>1
      <4> QED
        BY <4>2
    <3>4. i > d + n \/ i = d + n \/ i < d + n
      BY ONLY <1>3, <1>5, i \in 1 .. Len(S)
    <3> QED
      BY <3>1, <3>2, <3>3, <3>4
  <2>5. \A i \in DOMAIN S : S[i].lsn > nf <=> i > Len(S) - Len(T)
    BY <1>3, <1>5, <2>4
  <2> QED
    BY <1>3, <1>5, <1>7, <2>3, <2>5 DEF EndOf, T, nf
<1> QED
  BY <1>8, <1>9

\* Delivering the first batch in store.
Taken(P, Q, l, G, H) ==
  P # <<>> /\ Q = Tail(P) /\ l = P[1].lsn /\ H = Append(G, Live(P[1]))

LEMMA StockTaken ==
  ASSUME NEW P \in Seq(Batch), NEW st \in Nat, NEW la \in Places, NEW s,
         NEW S \in Seq(Batch), NEW G \in Seq(Delivered), Stocked(P, st, la, s, S, G),
         NEW Q \in Seq(Batch), NEW l, NEW H \in Seq(Delivered), Taken(P, Q, l, G, H)
  PROVE  Stocked(Q, st, l, s, S, H)
<1>0. P # <<>> /\ Q = Tail(P) /\ l = P[1].lsn /\ H = Append(G, Live(P[1]))
  BY DEF Taken
<1> USE <1>0
<1>1. /\ DOMAIN P = 1 .. Len(P) /\ Len(P) \in Nat /\ Len(P) >= 1
      /\ DOMAIN Q = 1 .. Len(Q) /\ Len(Q) = Len(P) - 1
      /\ \A k \in 1 .. Len(Q) : Q[k] = P[k + 1] /\ k + 1 \in 1 .. Len(P)
  <2>1. Len(P) \in Nat /\ Len(P) >= 1 /\ DOMAIN P = 1 .. Len(P)
    BY ONLY P \in Seq(Batch), <1>0
  <2>2. Len(Q) = Len(P) - 1 /\ DOMAIN Q = 1 .. Len(Q)
        /\ \A k \in 1 .. Len(P) - 1 : Q[k] = P[k + 1]
    BY ONLY P \in Seq(Batch), <1>0
  <2> QED
    BY <2>1, <2>2
<1>2. /\ \A k \in 1 .. Len(P) : P[k].lsn \in Nat
      /\ DOMAIN S = 1 .. Len(S) /\ \A i \in 1 .. Len(S) : S[i].lsn \in Nat
  BY BatchTypes
<1>3. /\ Increasing(P)
      /\ \A k \in DOMAIN P :
           (\E i \in DOMAIN S : S[i] = P[k]) /\ P[k].lsn > st /\ P[k].lsn > la
      /\ \A i \in DOMAIN S : S[i].lsn > st =>
           \/ S[i].lsn <= la /\ \E k \in DOMAIN G : G[k].id = S[i].id
           \/ \E k \in DOMAIN P : P[k] = S[i]
           \/ /\ s = "lagged" /\ S[i].lsn > la
              /\ \A k \in DOMAIN P : P[k].lsn < S[i].lsn
  BY DEF Stocked
<1>4. 1 \in 1 .. Len(P) /\ l \in Nat /\ la < l /\ la \in Int
  <2>1. 1 \in 1 .. Len(P)
    BY <1>1
  <2>2. P[1].lsn > la /\ P[1].lsn \in Nat
    BY <1>1, <1>2, <1>3, <2>1
  <2>3. la \in Int
    BY DEF Places, NoLsn
  <2> QED
    BY <1>0, <2>1, <2>2, <2>3
<1>5. ASSUME NEW k \in 1 .. Len(P), k # 1 PROVE P[k].lsn > l
  <2>1. 1 < k
    BY <1>1, <1>5
  <2> QED
    BY <1>1, <1>2, <1>3, <1>4, <2>1 DEF Increasing
<1>6. /\ DOMAIN G = 1 .. Len(G) /\ DOMAIN H = 1 .. Len(G) + 1 /\ Len(G) \in Nat
      /\ \A k \in 1 .. Len(G) : H[k] = G[k] /\ H[Len(G) + 1].id = P[1].id
  <2>1. Live(P[1]) \in Delivered /\ Live(P[1]).id = P[1].id
    <3>1. P[1] \in Batch
      BY <1>4, BatchTypes
    <3> QED
      BY <3>1, LiveTypes DEF Live
  <2> HIDE DEF Live
  <2> QED
    BY <1>0, <2>1, AppendFacts
<1>6a. Len(G) + 1 \in DOMAIN H /\ H[Len(G) + 1].id = P[1].id
  <2>1. Live(P[1]) \in Delivered /\ Live(P[1]).id = P[1].id
    <3>1. P[1] \in Batch
      BY <1>4, BatchTypes
    <3> QED
      BY <3>1, LiveTypes DEF Live
  <2>2. Len(G) + 1 \in 1 .. Len(G) + 1
    BY <1>6
  <2>3. H[Len(G) + 1] = Live(P[1])
    BY <1>0, <2>1, AppendFacts
  <2> QED
    BY <1>6, <2>1, <2>2, <2>3
<1>7. Increasing(Q)
  <2> SUFFICES ASSUME NEW i \in 1 .. Len(Q), NEW j \in 1 .. Len(Q), i < j
               PROVE  Q[i].lsn < Q[j].lsn
    BY <1>1 DEF Increasing
  <2>1. i + 1 \in DOMAIN P /\ j + 1 \in DOMAIN P /\ i + 1 < j + 1
    BY <1>1
  <2> QED
    BY <1>1, <1>3, <2>1 DEF Increasing
<1>8. ASSUME NEW k \in DOMAIN Q
      PROVE  (\E i \in DOMAIN S : S[i] = Q[k]) /\ Q[k].lsn > st /\ Q[k].lsn > l
  <2>1. Q[k] = P[k + 1] /\ k + 1 \in DOMAIN P /\ k + 1 # 1
    BY <1>1
  <2> QED
    BY <1>1, <1>3, <1>5, <2>1
<1>9. ASSUME NEW i \in DOMAIN S, S[i].lsn > st
      PROVE  \/ S[i].lsn <= l /\ \E k \in DOMAIN H : H[k].id = S[i].id
             \/ \E k \in DOMAIN Q : Q[k] = S[i]
             \/ /\ s = "lagged" /\ S[i].lsn > l
                /\ \A k \in DOMAIN Q : Q[k].lsn < S[i].lsn
  <2>0. S[i].lsn \in Nat
    BY <1>2
  <2>1. CASE S[i].lsn <= la /\ \E k \in DOMAIN G : G[k].id = S[i].id
    <3>1. PICK k \in DOMAIN G : G[k].id = S[i].id
      BY <2>1
    <3>2. k \in DOMAIN H /\ H[k].id = S[i].id
      BY <1>6, <3>1
    <3>3. S[i].lsn <= l
      BY <1>4, <2>0, <2>1
    <3> QED
      BY <3>2, <3>3
  <2>2. CASE \E k \in DOMAIN P : P[k] = S[i]
    <3>1. PICK k \in DOMAIN P : P[k] = S[i]
      BY <2>2
    <3>2. CASE k = 1
      <4>1. S[i].lsn <= l
        BY <1>4, <3>1, <3>2
      <4> QED
        BY <1>6a, <3>1, <3>2, <4>1
    <3>3. CASE k # 1
      <4>1. k - 1 \in 1 .. Len(Q) /\ k - 1 + 1 = k
        BY <1>1, <3>3
      <4>2. Q[k - 1] = S[i]
        BY <1>1, <3>1, <4>1
      <4> QED
        BY <1>1, <4>1, <4>2
    <3> QED
      BY <3>2, <3>3
  <2>3. CASE /\ s = "lagged" /\ S[i].lsn > la
             /\ \A k \in DOMAIN P : P[k].lsn < S[i].lsn
    <3>1. S[i].lsn > l
      BY <1>1, <1>4, <2>0, <2>3
    <3>2. \A k \in DOMAIN Q : Q[k].lsn < S[i].lsn
      BY <1>1, <2>3
    <3> QED
      BY <2>3, <3>1, <3>2
  <2> QED
    BY <1>3, <1>9, <2>1, <2>2, <2>3
<1> QED
  BY <1>7, <1>8, <1>9 DEF Stocked

\* Delivering a transaction from history, below everything in store.
LEMMA StockBehind ==
  ASSUME NEW P \in Seq(Batch), NEW st \in Nat, NEW la \in Places, NEW s,
         NEW S \in Seq(Batch), NEW G, Stocked(P, st, la, s, S, G), la <= st,
         NEW l \in Nat, l <= st, NEW H
  PROVE  Stocked(P, st, l, s, S, H)
<1>1. /\ DOMAIN P = 1 .. Len(P) /\ DOMAIN S = 1 .. Len(S)
      /\ \A k \in DOMAIN P : P[k].lsn \in Nat /\ \A i \in DOMAIN S : S[i].lsn \in Nat
  BY BatchTypes
<1>2. \A i \in DOMAIN S : S[i].lsn \in Nat
  BY BatchTypes
<1>3. la \in Int
  BY DEF Places, NoLsn
<1>4. ASSUME NEW k \in DOMAIN P
      PROVE  (\E i \in DOMAIN S : S[i] = P[k]) /\ P[k].lsn > st /\ P[k].lsn > l
  BY <1>1 DEF Stocked
<1>5. ASSUME NEW i \in DOMAIN S, S[i].lsn > st
      PROVE  \/ S[i].lsn <= l /\ \E k \in DOMAIN H : H[k].id = S[i].id
             \/ \E k \in DOMAIN P : P[k] = S[i]
             \/ /\ s = "lagged" /\ S[i].lsn > l
                /\ \A k \in DOMAIN P : P[k].lsn < S[i].lsn
  <2>1. S[i].lsn > l /\ ~(S[i].lsn <= la)
    BY <1>2, <1>3, <1>5
  <2> QED
    BY <1>5, <2>1 DEF Stocked
<1> QED
  BY <1>4, <1>5 DEF Stocked

\* Batches above all others, n of which go to a feed that was in status s.
Above(bs, n, head, S, s, t) ==
  /\ Increasing(bs) /\ \A k \in 1 .. Len(bs) : bs[k].lsn > head
  /\ \A i \in 1 .. Len(S) : S[i].lsn <= head
  /\ n < Len(bs) => t = "lagged"
  /\ s = "lagged" => t = "lagged" /\ n = 0

\* What is left out of store when such batches are released.
LEMMA StockPushed ==
  ASSUME NEW P \in Seq(Batch), NEW st \in Nat, NEW la \in Places, NEW s, NEW t,
         NEW S \in Seq(Batch), NEW G, Stocked(P, st, la, s, S, G),
         NEW bs \in Seq(Batch), NEW n \in 0 .. Len(bs), NEW head \in Nat,
         NEW Q, Q = P \o SubSeq(bs, 1, n), NEW T, T = S \o bs,
         Above(bs, n, head, S, s, t), st <= head, la <= head
  PROVE  Stocked(Q, st, la, t, T, G)
<1> USE DEF Above
<1> DEFINE ps == SubSeq(bs, 1, n)
<1>1. /\ ps \in Seq(Batch) /\ Len(ps) = n /\ \A k \in 1 .. n : ps[k] = bs[k]
  BY ONLY bs \in Seq(Batch), n \in 0 .. Len(bs), PartFacts
<1>2. n \in Nat /\ n <= Len(bs) /\ Len(bs) \in Nat /\ DOMAIN bs = 1 .. Len(bs)
  OBVIOUS
<1>3. Q = P \o ps
  OBVIOUS
<1> HIDE DEF ps
<1>4. /\ DOMAIN Q = 1 .. Len(P) + n /\ Len(P) \in Nat
      /\ \A k \in 1 .. Len(P) : Q[k] = P[k]
      /\ \A k \in 1 .. n : Q[Len(P) + k] = bs[k]
  <2>1. /\ DOMAIN Q = 1 .. Len(P) + Len(ps) /\ Len(P) \in Nat
        /\ \A k \in 1 .. Len(P) : Q[k] = P[k]
        /\ \A k \in 1 .. Len(ps) : Q[Len(P) + k] = ps[k]
    BY <1>1, <1>3, JoinFacts
  <2> QED
    BY ONLY <1>1, <2>1
<1>5. /\ DOMAIN T = 1 .. Len(S) + Len(bs) /\ Len(S) \in Nat
      /\ \A k \in 1 .. Len(S) : T[k] = S[k]
      /\ \A k \in 1 .. Len(bs) : T[Len(S) + k] = bs[k]
  BY ONLY S \in Seq(Batch), bs \in Seq(Batch), T = S \o bs, JoinFacts
<1>6. /\ DOMAIN P = 1 .. Len(P) /\ DOMAIN S = 1 .. Len(S)
      /\ \A k \in 1 .. Len(P) : P[k].lsn \in Nat
      /\ \A i \in 1 .. Len(S) : S[i].lsn \in Nat
      /\ \A i \in 1 .. Len(bs) : bs[i].lsn \in Nat
  BY BatchTypes
<1>7. la \in Int
  BY DEF Places, NoLsn
<1>8. /\ Increasing(P)
      /\ \A k \in 1 .. Len(P) :
           (\E i \in 1 .. Len(S) : S[i] = P[k]) /\ P[k].lsn > st /\ P[k].lsn > la
  BY <1>6 DEF Stocked
<1>9. \A k \in 1 .. Len(P) : P[k].lsn <= head
  BY <1>8
<1>10. ASSUME NEW k \in 1 .. Len(P) + n
       PROVE  \/ k \in 1 .. Len(P) /\ Q[k] = P[k]
              \/ k - Len(P) \in 1 .. n /\ k - Len(P) \in 1 .. Len(bs) /\ k > Len(P)
                 /\ Q[k] = bs[k - Len(P)]
  <2>1. CASE k <= Len(P)
    BY <1>4, <2>1
  <2>2. CASE k > Len(P)
    <3>1. k - Len(P) \in 1 .. n /\ k - Len(P) \in 1 .. Len(bs) /\ Len(P) + (k - Len(P)) = k
      BY ONLY <1>2, <1>4, <2>2, k \in 1 .. Len(P) + n
    <3> QED
      BY <1>4, <2>2, <3>1
  <2> QED
    BY <1>4, <2>1, <2>2
<1>11. Increasing(Q)
  <2> SUFFICES ASSUME NEW i \in 1 .. Len(P) + n, NEW j \in 1 .. Len(P) + n, i < j
               PROVE  Q[i].lsn < Q[j].lsn
    BY <1>4 DEF Increasing
  <2>0. i \in Nat /\ j \in Nat /\ Len(P) \in Nat
    BY <1>4
  <2>1. CASE j \in 1 .. Len(P) /\ Q[j] = P[j]
    <3>1. i \in 1 .. Len(P) /\ Q[i] = P[i]
      <4>1. i \in 1 .. Len(P)
        BY ONLY <2>0, <2>1, i < j, i \in 1 .. Len(P) + n
      <4> QED
        BY <1>4, <4>1
    <3> QED
      BY <1>6, <1>8, <2>1, <3>1 DEF Increasing
  <2>2. CASE j - Len(P) \in 1 .. n /\ j - Len(P) \in 1 .. Len(bs) /\ j > Len(P)
                 /\ Q[j] = bs[j - Len(P)]
    <3>1. CASE i \in 1 .. Len(P) /\ Q[i] = P[i]
      <4>1. P[i].lsn <= head /\ bs[j - Len(P)].lsn > head
        BY <1>9, <2>2, <3>1
      <4>2. P[i].lsn \in Nat /\ bs[j - Len(P)].lsn \in Nat
        BY <1>6, <2>2, <3>1
      <4>3. P[i].lsn < bs[j - Len(P)].lsn
        <5> DEFINE x == P[i].lsn
                   y == bs[j - Len(P)].lsn
        <5>1. x \in Nat /\ y \in Nat /\ x <= head /\ y > head
          BY ONLY <4>1, <4>2
        <5> HIDE DEF x, y
        <5>2. x < y
          BY ONLY <5>1, head \in Nat
        <5> QED
          BY ONLY <5>2 DEF x, y
      <4> QED
        BY ONLY <2>2, <3>1, <4>3
    <3>2. CASE i - Len(P) \in 1 .. n /\ i - Len(P) \in 1 .. Len(bs) /\ Q[i] = bs[i - Len(P)]
      <4>1. i - Len(P) < j - Len(P)
        BY ONLY <2>0, i < j
      <4> QED
        BY <1>2, <2>2, <3>2, <4>1 DEF Increasing
    <3> QED
      BY <1>10, <3>1, <3>2
  <2> QED
    BY <1>10, <2>1, <2>2
<1>12. ASSUME NEW k \in 1 .. Len(P) + n
       PROVE  (\E i \in DOMAIN T : T[i] = Q[k]) /\ Q[k].lsn > st /\ Q[k].lsn > la
  <2>1. CASE k \in 1 .. Len(P) /\ Q[k] = P[k]
    <3>1. PICK i \in 1 .. Len(S) : S[i] = P[k]
      BY <1>8, <2>1
    <3>2. i \in DOMAIN T /\ T[i] = Q[k]
      BY <1>2, <1>5, <2>1, <3>1
    <3> QED
      BY <1>8, <2>1, <3>2
  <2>2. CASE k - Len(P) \in 1 .. n /\ k - Len(P) \in 1 .. Len(bs) /\ Q[k] = bs[k - Len(P)]
    <3> DEFINE j == k - Len(P)
    <3>1. j \in 1 .. Len(bs) /\ Q[k] = bs[j]
      BY <2>2
    <3> HIDE DEF j
    <3>2. Len(S) + j \in DOMAIN T /\ T[Len(S) + j] = Q[k]
      <4>1. Len(S) + j \in 1 .. Len(S) + Len(bs)
        BY <1>2, <1>5, <3>1
      <4> QED
        BY <1>5, <3>1, <4>1
    <3>3. bs[j].lsn > head /\ bs[j].lsn \in Nat
      BY <1>6, <3>1
    <3>4. bs[j].lsn > st /\ bs[j].lsn > la
      BY ONLY <1>7, <3>3, head \in Nat, st \in Nat, st <= head, la <= head
    <3> QED
      BY <3>1, <3>2, <3>4
  <2> QED
    BY <1>10, <2>1, <2>2
<1>13. ASSUME NEW i \in DOMAIN T, T[i].lsn > st
       PROVE  \/ T[i].lsn <= la /\ \E k \in DOMAIN G : G[k].id = T[i].id
              \/ \E k \in DOMAIN Q : Q[k] = T[i]
              \/ /\ t = "lagged" /\ T[i].lsn > la
                 /\ \A k \in DOMAIN Q : Q[k].lsn < T[i].lsn
  <2>1. CASE i <= Len(S)
    <3>1. i \in 1 .. Len(S) /\ T[i] = S[i]
      BY <1>5, <2>1
    <3>2. CASE S[i].lsn <= la /\ \E k \in DOMAIN G : G[k].id = S[i].id
      BY <3>1, <3>2
    <3>3. CASE \E k \in DOMAIN P : P[k] = S[i]
      <4>1. PICK k \in 1 .. Len(P) : P[k] = S[i]
        BY <1>6, <3>3
      <4>2. k \in DOMAIN Q /\ Q[k] = T[i]
        BY <1>2, <1>4, <3>1, <4>1
      <4> QED
        BY <4>2
    <3>4. CASE /\ s = "lagged" /\ S[i].lsn > la
               /\ \A k \in DOMAIN P : P[k].lsn < S[i].lsn
      <4>1. t = "lagged" /\ n = 0
        BY <3>4
      <4>2. \A k \in DOMAIN Q : k \in DOMAIN P /\ Q[k] = P[k]
        BY <1>4, <1>6, <4>1
      <4> QED
        BY <3>1, <3>4, <4>1, <4>2
    <3> QED
      BY <1>6, <1>13, <3>1, <3>2, <3>3, <3>4 DEF Stocked
  <2>2. CASE i > Len(S)
    <3> DEFINE j == i - Len(S)
    <3>1. j \in 1 .. Len(bs) /\ i = Len(S) + j
      BY <1>2, <1>5, <2>2
    <3> HIDE DEF j
    <3>2. T[i] = bs[j] /\ bs[j].lsn > head /\ bs[j].lsn \in Nat
      BY <1>5, <1>6, <3>1
    <3>3. CASE j <= n
      <4>1. j \in 1 .. n /\ Len(P) + j \in DOMAIN Q
        BY <1>2, <1>4, <3>1, <3>3
      <4>2. Q[Len(P) + j] = T[i]
        BY <1>4, <3>2, <4>1
      <4> QED
        BY <4>1, <4>2
    <3>4. CASE j > n
      <4>1. t = "lagged"
        BY <1>2, <3>1, <3>4
      <4>2. T[i].lsn > la
        BY ONLY <1>7, <3>2, head \in Nat, la <= head
      <4>3. ASSUME NEW k \in 1 .. Len(P) + n PROVE Q[k].lsn < T[i].lsn
        <5>1. CASE k \in 1 .. Len(P) /\ Q[k] = P[k]
          <6>1. P[k].lsn \in Nat /\ P[k].lsn <= head
            BY <1>6, <1>9, <5>1
          <6> QED
            BY ONLY <3>2, <5>1, <6>1, head \in Nat
        <5>2. CASE k - Len(P) \in 1 .. n /\ k - Len(P) \in 1 .. Len(bs)
                   /\ Q[k] = bs[k - Len(P)]
          <6>1. k - Len(P) < j
            BY ONLY <1>2, <3>1, <3>4, <5>2
          <6> QED
            BY <1>2, <3>1, <3>2, <5>2, <6>1 DEF Increasing
        <5> QED
          BY <1>10, <5>1, <5>2
      <4> QED
        BY <1>4, <4>1, <4>2, <4>3
    <3>5. j <= n \/ j > n
      BY ONLY <1>2, <3>1
    <3> QED
      BY <3>3, <3>4, <3>5
  <2>3. i <= Len(S) \/ i > Len(S)
    BY ONLY <1>2, <1>5, i \in DOMAIN T
  <2> QED
    BY <2>1, <2>2, <2>3
<1> QED
  BY <1>4, <1>11, <1>12, <1>13 DEF Stocked

\* Where the stream is against the head.
LEMMA StreamFacts ==
  HubInv => /\ stream \in Seq(Batch) /\ ring \in Seq(Batch) /\ Increasing(stream)
            /\ last_lsn \in Nat /\ ring_floor \in Nat
            /\ \A i \in 1 .. Len(stream) : stream[i].lsn <= last_lsn
<1> SUFFICES ASSUME HubInv
             PROVE  /\ stream \in Seq(Batch) /\ ring \in Seq(Batch) /\ Increasing(stream)
                    /\ last_lsn \in Nat /\ ring_floor \in Nat
                    /\ \A i \in 1 .. Len(stream) : stream[i].lsn <= last_lsn
  OBVIOUS
<1>1. /\ stream \in Seq(Batch) /\ ring \in Seq(Batch) /\ parked \in Seq(Waiting)
      /\ last_lsn \in Nat /\ ring_floor \in Nat /\ Increasing(Announced) /\ Numbers
  BY DEF HubInv, TypeOK, StreamInOrder
<1>2. /\ DOMAIN Announced = 1 .. Len(stream) + Len(parked)
      /\ Len(stream) \in Nat /\ Len(parked) \in Nat
      /\ \A k \in 1 .. Len(stream) : Announced[k] = stream[k]
  BY <1>1, AnnouncedFacts
<1>3. DOMAIN stream = 1 .. Len(stream)
  BY <1>1
<1>4. \A k \in 1 .. Len(stream) : k \in DOMAIN Announced
  BY ONLY <1>2
<1>5. Increasing(stream)
  BY <1>1, <1>2, <1>3, <1>4 DEF Increasing
<1>6. \A i \in 1 .. Len(stream) : stream[i].lsn <= last_lsn
  <2> TAKE i \in 1 .. Len(stream)
  <2>1. i \in DOMAIN Announced /\ i <= Len(stream) /\ Announced[i] = stream[i]
    BY <1>2, <1>4
  <2> QED
    BY <1>1, <2>1 DEF Numbers
<1> QED
  BY <1>1, <1>5, <1>6

\* Changes to a feed that are not about what it has in store.
LEMMA StoreSame ==
  ASSUME NEW F, NEW G, NEW S, NEW H, NEW head, Store(F, S, H, head),
         G.backlog = F.backlog, G.queue = F.queue, G.last = F.last, G.status = F.status,
         G.after = F.after, G.upto = F.upto, F.hist = "no" => G.hist = "no"
  PROVE  Store(G, S, H, head)
  BY DEF Store, Pending, Start

LEMMA StoreEnded ==
  ASSUME NEW G, NEW S, NEW H, NEW head, G.status \in {"none", "closed"}
  PROVE  Store(G, S, H, head)
  BY DEF Store

\* The batches in store, when the queue grows.
LEMMA PendingPushed ==
  ASSUME NEW b \in Seq(Batch), NEW q \in Seq(Batch), NEW p \in Seq(Batch)
  PROVE  b \o (q \o p) = (b \o q) \o p
<1> DEFINE u == q \o p
           v == b \o q
           l == b \o u
           r == v \o p
<1>1. /\ u \in Seq(Batch) /\ Len(u) = Len(q) + Len(p) /\ Len(q) \in Nat /\ Len(p) \in Nat
      /\ \A k \in 1 .. Len(q) : u[k] = q[k]
      /\ \A k \in 1 .. Len(p) : u[Len(q) + k] = p[k]
  BY JoinFacts
<1>2. /\ v \in Seq(Batch) /\ Len(v) = Len(b) + Len(q) /\ Len(b) \in Nat
      /\ \A k \in 1 .. Len(b) : v[k] = b[k]
      /\ \A k \in 1 .. Len(q) : v[Len(b) + k] = q[k]
  BY JoinFacts
<1> HIDE DEF u, v
<1>a. u \in Seq(Batch) /\ v \in Seq(Batch)
  BY <1>1, <1>2
<1>3. /\ l \in Seq(Batch) /\ Len(l) = Len(b) + Len(u)
      /\ \A k \in 1 .. Len(b) : l[k] = b[k]
      /\ \A k \in 1 .. Len(u) : l[Len(b) + k] = u[k]
  BY ONLY <1>a, b \in Seq(Batch)
<1>4. /\ r \in Seq(Batch) /\ Len(r) = Len(v) + Len(p)
      /\ \A k \in 1 .. Len(v) : r[k] = v[k]
      /\ \A k \in 1 .. Len(p) : r[Len(v) + k] = p[k]
  BY ONLY <1>a, p \in Seq(Batch)
<1> HIDE DEF l, r
<1>5. Len(l) = Len(r) /\ Len(l) = Len(b) + Len(q) + Len(p)
  BY ONLY <1>1, <1>2, <1>3, <1>4
<1>6. ASSUME NEW k \in 1 .. Len(l) PROVE l[k] = r[k]
  <2>1. CASE k \in 1 .. Len(b)
    <3>1. k \in 1 .. Len(v)
      BY ONLY <1>1, <1>2, <2>1
    <3> QED
      BY <1>2, <1>3, <1>4, <2>1, <3>1
  <2>2. CASE k > Len(b) /\ k <= Len(b) + Len(q)
    <3> DEFINE j == k - Len(b)
    <3>1. j \in 1 .. Len(q) /\ j \in 1 .. Len(u) /\ k = Len(b) + j /\ k \in 1 .. Len(v)
      BY ONLY <1>1, <1>2, <1>5, <2>2, k \in 1 .. Len(l)
    <3> HIDE DEF j
    <3>2. l[k] = q[j]
      BY <1>1, <1>3, <3>1
    <3>3. r[k] = q[j]
      BY <1>2, <1>4, <3>1
    <3> QED
      BY <3>2, <3>3
  <2>3. CASE k > Len(b) + Len(q)
    <3> DEFINE j == k - (Len(b) + Len(q))
    <3>1. j \in 1 .. Len(p) /\ Len(q) + j \in 1 .. Len(u)
          /\ k = Len(b) + (Len(q) + j) /\ k = Len(v) + j
      BY ONLY <1>1, <1>2, <1>5, <2>3, k \in 1 .. Len(l)
    <3> HIDE DEF j
    <3>2. l[k] = p[j]
      BY <1>1, <1>3, <3>1
    <3>3. r[k] = p[j]
      BY <1>4, <3>1
    <3> QED
      BY <3>2, <3>3
  <2>4. k \in 1 .. Len(b) \/ (k > Len(b) /\ k <= Len(b) + Len(q)) \/ k > Len(b) + Len(q)
    BY ONLY <1>1, <1>2, <1>5, k \in 1 .. Len(l)
  <2> QED
    BY <2>1, <2>2, <2>3, <2>4
<1>7. l = r
  BY <1>3, <1>4, <1>5, <1>6, SameSeq
<1> QED
  BY <1>7 DEF l, r, u, v

LEMMA StorePushed ==
  ASSUME NEW F \in FeedState, NEW S \in Seq(Batch), NEW H, NEW head \in Nat,
         Store(F, S, H, head), NEW bs \in Seq(Batch), NEW G, G = Push(F, bs),
         Increasing(bs), \A k \in 1 .. Len(bs) : bs[k].lsn > head,
         \A i \in 1 .. Len(S) : S[i].lsn <= head, NEW T, T = S \o bs,
         NEW new \in Nat, new >= head
  PROVE  Store(G, T, H, new)
<1>1. /\ F.backlog \in Seq(Batch) /\ F.queue \in Seq(Batch) /\ F.last \in Places
      /\ F.after \in Nat /\ F.upto \in Nat
  BY FeedFields
<1>2. /\ G.backlog = F.backlog /\ G.last = F.last /\ G.hist = F.hist
      /\ G.after = F.after /\ G.upto = F.upto
  BY PushKeeps
<1>3. Start(F) \in Nat /\ Start(G) = Start(F) /\ F.last \in Int
  BY <1>1, <1>2 DEF Start, Bigger, Places, NoLsn
<1>4. Pending(F) \in Seq(Batch)
  BY <1>1, JoinFacts DEF Pending
<1> SUFFICES ASSUME G.status \in {"open", "lagged"} PROVE Store(G, T, H, new)
  BY DEF Store
<1>5. ASSUME NEW n \in 0 .. Len(bs), Pending(G) = Pending(F) \o SubSeq(bs, 1, n),
             F.status \in {"open", "lagged"},
             n < Len(bs) => G.status = "lagged",
             F.status = "lagged" => G.status = "lagged" /\ n = 0
      PROVE  Store(G, T, H, new)
  <2>1. /\ F.last <= head /\ Start(F) <= head
        /\ F.hist # "no" => F.last <= F.upto
        /\ Stocked(Pending(F), Start(F), F.last, F.status, S, H)
    BY <1>5 DEF Store
  <2> DEFINE P == Pending(F)
             Q == Pending(G)
             st == Start(F)
             la == F.last
             s == F.status
             t == G.status
  <2>2. /\ P \in Seq(Batch) /\ st \in Nat /\ la \in Places /\ Stocked(P, st, la, s, S, H)
        /\ Q = P \o SubSeq(bs, 1, n) /\ st <= head /\ la <= head
        /\ n < Len(bs) => t = "lagged"
        /\ s = "lagged" => t = "lagged" /\ n = 0
    BY <1>1, <1>3, <1>4, <1>5, <2>1
  <2> HIDE DEF P, Q, st, la, s, t
  <2>a. /\ S \in Seq(Batch) /\ bs \in Seq(Batch) /\ n \in 0 .. Len(bs) /\ head \in Nat
        /\ T = S \o bs /\ Above(bs, n, head, S, s, t)
    BY <2>2 DEF Above
  <2>3. Stocked(Q, st, la, t, T, H)
    BY ONLY <2>a, <2>2, StockPushed
  <2>4. Stocked(Pending(G), Start(G), G.last, G.status, T, H)
    BY <1>2, <1>3, <2>3 DEF Q, st, la, t
  <2>5. G.last <= new /\ Start(G) <= new /\ (G.hist # "no" => G.last <= G.upto)
    BY <1>2, <1>3, <2>1
  <2> QED
    BY <2>4, <2>5 DEF Store
<1>6. CASE G = F /\ (F.status # "open" \/ bs = <<>>)
  <2>1. SubSeq(bs, 1, 0) = <<>> /\ 0 \in 0 .. Len(bs) /\ (bs = <<>> => Len(bs) = 0)
    OBVIOUS
  <2>2. Pending(F) \o <<>> = Pending(F)
    BY <1>4
  <2>3. F.status \in {"open", "lagged"} /\ G.status = F.status
    BY <1>6
  <2>4. 0 < Len(bs) => G.status = "lagged"
    BY <1>6, <2>1, <2>3
  <2> QED
    BY <1>5, <1>6, <2>1, <2>2, <2>3, <2>4
<1>7. CASE /\ F.status = "open"
           /\ \E n \in 0 .. Len(bs) : /\ G.queue = F.queue \o SubSeq(bs, 1, n)
                                      /\ G.status \in {"open", "lagged"}
                                      /\ G.status = "open" => n = Len(bs)
  <2>1. PICK n \in 0 .. Len(bs) : /\ G.queue = F.queue \o SubSeq(bs, 1, n)
                                  /\ G.status \in {"open", "lagged"}
                                  /\ G.status = "open" => n = Len(bs)
    BY <1>7
  <2> DEFINE p == SubSeq(bs, 1, n)
  <2>2. p \in Seq(Batch)
    BY PartFacts
  <2>3. G.queue = F.queue \o p
    BY <2>1
  <2> HIDE DEF p
  <2>4. Pending(G) = Pending(F) \o p
    <3> DEFINE bl == F.backlog
               qu == F.queue
    <3>1. bl \in Seq(Batch) /\ qu \in Seq(Batch)
      BY <1>1
    <3>2. G.backlog = bl /\ G.queue = qu \o p /\ Pending(F) = bl \o qu
      BY <1>2, <2>3 DEF Pending
    <3> HIDE DEF bl, qu
    <3>3. bl \o (qu \o p) = (bl \o qu) \o p
      BY ONLY <2>2, <3>1, PendingPushed, SMTT(30)
    <3>4. Pending(G) = bl \o (qu \o p)
      BY ONLY <3>2 DEF Pending
    <3> QED
      BY ONLY <3>2, <3>3, <3>4
  <2>5. n < Len(bs) => G.status = "lagged"
    BY <2>1
  <2>6. /\ n \in 0 .. Len(bs) /\ Pending(G) = Pending(F) \o SubSeq(bs, 1, n)
        /\ F.status = "open" /\ G.status \in {"open", "lagged"}
        /\ (n < Len(bs) => G.status = "lagged")
        /\ (F.status = "lagged" => G.status = "lagged" /\ n = 0)
    BY ONLY <1>7, <2>1, <2>4, <2>5 DEF p
  <2> QED
    BY <1>5, <2>6
<1>8. PushedTo(F, bs, G)
  BY PushOpen
<1> QED
  BY ONLY <1>6, <1>7, <1>8 DEF PushedTo

\* A release keeps the window and every feed's store.
LEMMA ReleaseLive ==
  ASSUME HubInv, HubInv', Window, Stores, NEW bs \in Seq(Batch), Release(bs),
         \A k \in 1 .. Len(bs) : bs[k].lsn > last_lsn, UNCHANGED got
  PROVE  Window' /\ Stores'
<1>0. TypeOK
  BY DEF HubInv
<1>1. /\ stream \in Seq(Batch) /\ ring \in Seq(Batch)
      /\ last_lsn \in Nat /\ ring_floor \in Nat
      /\ \A i \in 1 .. Len(stream) : stream[i].lsn <= last_lsn
  BY StreamFacts
<1>2. /\ stream' \in Seq(Batch) /\ Increasing(stream') /\ last_lsn' \in Nat
      /\ \A i \in 1 .. Len(stream') : stream'[i].lsn <= last_lsn'
  <2>1. (HubInv => /\ stream \in Seq(Batch) /\ ring \in Seq(Batch) /\ Increasing(stream)
                   /\ last_lsn \in Nat /\ ring_floor \in Nat
                   /\ \A i \in 1 .. Len(stream) : stream[i].lsn <= last_lsn)'
    BY StreamFacts, PTL
  <2> QED
    BY <2>1 DEF Increasing
<1>3. /\ stream' = stream \o bs /\ ring \o bs \in Seq(Batch)
      /\ ring' = Trimmed(ring \o bs, retention)
      /\ ring_floor' = FloorAfter(ring \o bs, retention, ring_floor)
      /\ last_lsn' = (IF bs = <<>> THEN last_lsn ELSE bs[Len(bs)].lsn)
      /\ feed' \in [Feeds -> FeedState]
      /\ \A f \in Feeds : feed'[f] = Push(feed[f], bs)
  BY <1>0, ReleaseFacts
<1>4. retention \in Nat
  BY <1>0, ChangeHubAssumption DEF TypeOK
<1>5. last_lsn' >= last_lsn
  <2>1. CASE bs = <<>>
    BY <1>1, <1>3, <2>1
  <2>2. CASE bs # <<>>
    <3>1. Len(bs) \in 1 .. Len(bs)
      BY <2>2
    <3>2. bs[Len(bs)].lsn > last_lsn /\ last_lsn' = bs[Len(bs)].lsn
      BY <1>3, <2>2, <3>1
    <3> QED
      BY <1>1, <1>2, <3>2
  <2> QED
    BY <2>1, <2>2
<1>6. ring_floor <= last_lsn /\ EndOf(ring, stream, ring_floor)
  BY DEF Window
<1>7. \A k \in 1 .. Len(bs) : bs[k].lsn > ring_floor
  <2> TAKE k \in 1 .. Len(bs)
  <2>1. bs[k].lsn \in Nat /\ bs[k].lsn > last_lsn
    BY BatchTypes
  <2> QED
    BY <1>1, <1>6, <2>1
<1>8. EndOf(ring \o bs, stream', ring_floor)
  <2>1. EndOf(ring \o bs, stream \o bs, ring_floor)
    BY <1>1, <1>6, <1>7, WindowReleased
  <2> QED
    BY <1>3, <2>1
<1>9. Window'
  <2> DEFINE R == ring \o bs
             S == stream'
             head == last_lsn'
  <2>1. /\ R \in Seq(Batch) /\ S \in Seq(Batch) /\ EndOf(R, S, ring_floor) /\ Increasing(S)
        /\ head \in Nat /\ ring_floor <= head /\ \A i \in 1 .. Len(S) : S[i].lsn <= head
    BY <1>1, <1>2, <1>3, <1>5, <1>6, <1>8
  <2> HIDE DEF R, S, head
  <2>2. /\ EndOf(Trimmed(R, retention), S, FloorAfter(R, retention, ring_floor))
        /\ FloorAfter(R, retention, ring_floor) <= head
    BY <1>1, <1>4, <2>1, WindowTrimmed
  <2>3. EndOf(ring', stream', ring_floor') /\ ring_floor' <= last_lsn'
    BY <1>3, <2>2 DEF R, S, head
  <2> QED
    BY <2>3 DEF Window, EndOf
<1>10. Increasing(bs)
  <2>1. /\ DOMAIN stream' = 1 .. Len(stream) + Len(bs) /\ Len(stream) \in Nat /\ Len(bs) \in Nat
        /\ \A k \in 1 .. Len(bs) : stream'[Len(stream) + k] = bs[k]
    BY <1>1, <1>3, JoinFacts
  <2> SUFFICES ASSUME NEW i \in 1 .. Len(bs), NEW j \in 1 .. Len(bs), i < j
               PROVE  bs[i].lsn < bs[j].lsn
    BY <2>1, BatchTypes DEF Increasing
  <2>2. /\ Len(stream) + i \in DOMAIN stream' /\ Len(stream) + j \in DOMAIN stream'
        /\ Len(stream) + i < Len(stream) + j
    BY ONLY <2>1, i \in 1 .. Len(bs), j \in 1 .. Len(bs), i < j
  <2>3. stream'[Len(stream) + i].lsn < stream'[Len(stream) + j].lsn
    BY <1>2, <2>2 DEF Increasing
  <2> QED
    BY <2>1, <2>3
<1>11. ASSUME NEW f \in Feeds PROVE Store(feed'[f], stream', got'[f], last_lsn')
  <2> DEFINE F == feed[f]
             G == feed'[f]
             H == got[f]
  <2>1. F \in FeedState /\ Store(F, stream, H, last_lsn) /\ G = Push(F, bs)
    BY <1>0, <1>3 DEF TypeOK, Stores
  <2>2. got'[f] = H
    OBVIOUS
  <2> HIDE DEF F, G, H
  <2>3. Store(G, stream', H, last_lsn')
    BY <1>1, <1>2, <1>3, <1>5, <1>10, <2>1, StorePushed
  <2> QED
    BY <2>2, <2>3 DEF G
<1>12. Stores'
  BY <1>11 DEF Stores, Store, Stocked, Increasing, Pending, Start
<1> QED
  BY <1>9, <1>12

\* Steps of one feed.
LEMMA FeedLive ==
  ASSUME Window, Stores, NEW f \in Feeds, NEW G, Becomes(f, G),
         UNCHANGED <<stream, ring, ring_floor, last_lsn>>,
         \A g \in Feeds : g # f => got'[g] = got[g],
         Store(G, stream, got'[f], last_lsn)
  PROVE  Window' /\ Stores'
<1>1. Window'
  BY DEF Window, EndOf
<1>2. ASSUME NEW g \in Feeds PROVE Store(feed'[g], stream', got'[g], last_lsn')
  <2>1. CASE g = f
    BY <2>1 DEF Becomes
  <2>2. CASE g # f
    <3>1. feed'[g] = feed[g] /\ got'[g] = got[g] /\ Store(feed[g], stream, got[g], last_lsn)
      BY <2>2 DEF Becomes, Stores
    <3> QED
      BY <3>1
  <2> QED
    BY <2>1, <2>2
<1>3. Stores'
  BY <1>2 DEF Stores, Store, Stocked, Increasing, Pending, Start
<1> QED
  BY <1>1, <1>3

\* Steps that are not about the stream or a feed.
LEMMA QuietLive ==
  ASSUME Window, Stores, UNCHANGED <<stream, ring, ring_floor, last_lsn, feed, got>>
  PROVE  Window' /\ Stores'
<1>1. Window'
  BY DEF Window, EndOf
<1>2. \A g \in Feeds : Store(feed'[g], stream', got'[g], last_lsn')
  BY DEF Stores
<1>3. Stores'
  BY <1>2 DEF Stores, Store, Stocked, Increasing, Pending, Start
<1> QED
  BY <1>1, <1>3

\* Steps after which no feed is open.
LEMMA EndedLive ==
  ASSUME Window', \A f \in Feeds : feed'[f].status \in {"none", "closed"}
  PROVE  Window' /\ Stores'
<1>1. \A g \in Feeds : Store(feed'[g], stream', got'[g], last_lsn')
  BY StoreEnded
<1>2. Stores'
  BY <1>1 DEF Stores, Store, Stocked, Increasing, Pending, Start
<1> QED
  BY <1>2

LEMMA PublishLive ==
  ASSUME HubInv, HubInv', Window, Stores, NEW lsn \in Nat, NEW id \in Ids, NEW needs \in Nat,
         active, publish_when_durable(lsn, id, needs), lsn > last_assigned, UNCHANGED got
  PROVE  Window' /\ Stores'
<1> DEFINE b == [lsn |-> lsn, id |-> id]
<1>0. TypeOK /\ Modes /\ last_lsn \in Nat /\ last_assigned \in Nat /\ last_lsn <= last_assigned
  BY DEF HubInv, TypeOK, Numbers
<1>1. \/ UNCHANGED <<hub, feed>>
      \/ Release(<<b>>) /\ <<b>> \in Seq(Batch)
      \/ UNCHANGED <<last_lsn, ring, ring_floor, stream, feed>>
  BY <1>0, PublishFacts DEF SendsOn, Parks
<1>2. CASE UNCHANGED <<hub, feed>> \/ UNCHANGED <<last_lsn, ring, ring_floor, stream, feed>>
  <2>1. UNCHANGED <<stream, ring, ring_floor, last_lsn, feed, got>>
    BY <1>2 DEF hub
  <2> QED
    BY <2>1, QuietLive
<1>3. CASE Release(<<b>>) /\ <<b>> \in Seq(Batch)
  <2> DEFINE bs == <<b>>
  <2>1. bs \in Seq(Batch) /\ Release(bs)
    BY <1>3
  <2>2. \A k \in 1 .. Len(bs) : bs[k].lsn > last_lsn
    BY <1>0
  <2> HIDE DEF bs
  <2> QED
    BY <2>1, <2>2, ReleaseLive
<1> QED
  BY <1>1, <1>2, <1>3

LEMMA PublishStepLive ==
  ASSUME HubInv, HubInv', Window, Stores, publish \/ publish_reset PROVE Window' /\ Stores'
<1> USE DEF eaten
<1> DEFINE lsn == Bigger(writer.lsn, last_assigned + 1)
<1>0. TypeOK /\ Modes /\ Numbers
  BY DEF HubInv
<1>1. /\ UNCHANGED got
      /\ writer.at \in {"publish", "reset"}
      /\ \/ UNCHANGED <<hub, feed>>
         \/ publish_when_durable(lsn, writer.id, lsn)
         \/ writer.at = "reset" /\ publish_when_durable(lsn, writer.id, writer.lsn - 1)
  BY DEF publish, publish_reset
<1>2. /\ writer.lsn \in Nat /\ writer.id \in Ids \cup {0} /\ last_assigned \in Nat
      /\ ids \in 0 .. MaxItems /\ MaxItems \in Nat /\ next_lsn \in Nat \ {0}
  BY <1>0, WriterFields, ChangeHubAssumption DEF TypeOK
<1>3. active /\ writer.id \in Ids /\ lsn \in Nat /\ (writer.at = "reset" => writer.lsn - 1 \in Nat)
      /\ lsn > last_assigned
  BY <1>0, <1>1, <1>2 DEF Numbers, Modes, Ids, Bigger
<1> HIDE DEF lsn
<1>4. CASE UNCHANGED <<hub, feed>>
  <2>1. UNCHANGED <<stream, ring, ring_floor, last_lsn, feed, got>>
    BY <1>1, <1>4 DEF hub
  <2> QED
    BY <2>1, QuietLive
<1>5. CASE publish_when_durable(lsn, writer.id, lsn)
  BY <1>1, <1>3, <1>5, PublishLive
<1>6. CASE writer.at = "reset" /\ publish_when_durable(lsn, writer.id, writer.lsn - 1)
  BY <1>1, <1>3, <1>6, PublishLive
<1> QED
  BY <1>1, <1>4, <1>5, <1>6

LEMMA InMemoryLive ==
  ASSUME HubInv, HubInv', Window, Stores, CommitInMemory \/ RestoreInMemory
  PROVE  Window' /\ Stores'
<1> USE DEF eaten
<1> DEFINE lsn == last_assigned + 1
           id == ids + 1
<1>0. TypeOK
  BY DEF HubInv
<1>1. /\ UNCHANGED got /\ ids < MaxItems
      /\ \/ UNCHANGED <<hub, feed>>
         \/ active /\ publish_when_durable(lsn, id, lsn)
  BY DEF CommitInMemory, RestoreInMemory
<1>2. lsn \in Nat /\ id \in Ids /\ lsn > last_assigned
  BY <1>0, <1>1, ChangeHubAssumption DEF TypeOK, Ids
<1> HIDE DEF lsn, id
<1>3. CASE UNCHANGED <<hub, feed>>
  <2>1. UNCHANGED <<stream, ring, ring_floor, last_lsn, feed, got>>
    BY <1>1, <1>3 DEF hub
  <2> QED
    BY <2>1, QuietLive
<1>4. CASE active /\ publish_when_durable(lsn, id, lsn)
  BY <1>1, <1>2, <1>4, PublishLive
<1> QED
  BY <1>1, <1>3, <1>4

LEMMA OnDurableLive ==
  ASSUME HubInv, HubInv', Window, Stores, on_durable PROVE Window' /\ Stores'
<1>0. TypeOK /\ Numbers
  BY DEF HubInv
<1>1. UNCHANGED got
  BY <1>0, OnDurableFacts DEF eaten
<1>2. \/ UNCHANGED <<hub, feed>>
      \/ \E n \in 0 .. Len(parked), bs \in Seq(Batch) :
           /\ Len(bs) = n /\ \A k \in 1 .. n : bs[k] = parked[k].batch
           /\ Release(bs)
  BY <1>0, OnDurableFacts DEF HandsOut, Reaches
<1>3. CASE UNCHANGED <<hub, feed>>
  <2>1. UNCHANGED <<stream, ring, ring_floor, last_lsn, feed, got>>
    BY <1>1, <1>3 DEF hub
  <2> QED
    BY <2>1, QuietLive
<1>4. CASE \E n \in 0 .. Len(parked), bs \in Seq(Batch) :
             /\ Len(bs) = n /\ \A k \in 1 .. n : bs[k] = parked[k].batch
             /\ Release(bs)
  <2>1. PICK n \in 0 .. Len(parked), bs \in Seq(Batch) :
             /\ Len(bs) = n /\ \A k \in 1 .. n : bs[k] = parked[k].batch
             /\ Release(bs)
    BY <1>4
  <2>2. ASSUME NEW k \in 1 .. Len(bs) PROVE bs[k].lsn > last_lsn
    <3>1. /\ Len(stream) \in Nat /\ Len(parked) \in Nat
          /\ DOMAIN Announced = 1 .. Len(stream) + Len(parked)
          /\ \A j \in 1 .. Len(parked) : Announced[Len(stream) + j] = parked[j].batch
      BY <1>0, AnnouncedFacts DEF TypeOK
    <3>2. n \in 0 .. Len(parked) /\ Len(bs) = n
      BY <2>1
    <3>3. /\ k \in 1 .. n /\ k \in 1 .. Len(parked) /\ Len(stream) + k \in DOMAIN Announced
          /\ ~(Len(stream) + k <= Len(stream))
      BY ONLY <3>1, <3>2, k \in 1 .. Len(bs)
    <3>4. Announced[Len(stream) + k] = bs[k]
      BY <2>1, <3>1, <3>3
    <3> QED
      BY <1>0, <3>3, <3>4 DEF Numbers
  <2> QED
    BY <1>1, <2>1, <2>2, ReleaseLive
<1> QED
  BY <1>2, <1>3, <1>4

LEMMA ActivateLive ==
  ASSUME HubInv, Activate PROVE Window' /\ Stores'
<1>1. /\ ring' = ring /\ stream' = stream /\ feed' = feed /\ writer.at = "activate"
      /\ ring_floor' = last_lsn' /\ last_lsn' = Bigger(next_lsn - 1, last_lsn)
  BY DEF Activate
<1>2. /\ ring = <<>> /\ stream = <<>> /\ \A f \in Feeds : feed[f].status = "none"
  BY <1>1 DEF HubInv, Modes
<1>3. last_lsn' \in Int
  BY <1>1 DEF HubInv, TypeOK, Bigger
<1>4. Window'
  <2>1. EndOf(ring', stream', ring_floor')
    <3>1. ring' = <<>> /\ stream' = <<>>
      BY <1>1, <1>2
    <3> QED
      BY <3>1 DEF EndOf
  <2> QED
    BY <1>1, <1>3, <2>1 DEF Window, EndOf
<1> QED
  BY <1>1, <1>2, <1>4, EndedLive

LEMMA RetentionLive ==
  ASSUME HubInv, Window, Stores, set_retention PROVE Window' /\ Stores'
<1> USE DEF eaten
<1>0. TypeOK
  BY DEF HubInv
<1>1. PICK r \in Retentions \ {retention} :
        ring' = Trimmed(ring, r) /\ ring_floor' = FloorAfter(ring, r, ring_floor)
  BY DEF set_retention
<1>2. UNCHANGED <<stream, last_lsn, feed, got>>
  BY DEF set_retention
<1>3. /\ stream \in Seq(Batch) /\ ring \in Seq(Batch) /\ Increasing(stream)
      /\ last_lsn \in Nat /\ ring_floor \in Nat /\ r \in Nat
      /\ \A i \in 1 .. Len(stream) : stream[i].lsn <= last_lsn
  BY StreamFacts, ChangeHubAssumption
<1>4. EndOf(ring, stream, ring_floor) /\ ring_floor <= last_lsn
  BY DEF Window
<1>5. /\ EndOf(Trimmed(ring, r), stream, FloorAfter(ring, r, ring_floor))
      /\ FloorAfter(ring, r, ring_floor) <= last_lsn
  BY <1>3, <1>4, WindowTrimmed
<1>6. Window'
  <2>1. EndOf(ring', stream', ring_floor') /\ ring_floor' <= last_lsn'
    BY <1>1, <1>2, <1>5
  <2> QED
    BY <2>1 DEF Window, EndOf
<1>7. \A g \in Feeds : Store(feed'[g], stream', got'[g], last_lsn')
  BY <1>2 DEF Stores
<1>8. Stores'
  BY <1>7 DEF Stores, Store, Stocked, Increasing, Pending, Start
<1> QED
  BY <1>6, <1>8

LEMMA CloseLive ==
  ASSUME HubInv, Window, Stores, close PROVE Window' /\ Stores'
<1>0. TypeOK
  BY DEF HubInv
<1>1. /\ UNCHANGED <<stream, ring, ring_floor, last_lsn>>
      /\ \A f \in Feeds : feed'[f] = Closed(feed[f])
  BY DEF close
<1>2. Window'
  BY <1>1 DEF Window, EndOf
<1>3. ASSUME NEW f \in Feeds PROVE feed'[f].status \in {"none", "closed"}
  <2> DEFINE F == feed[f]
             G == feed'[f]
             e == <<>>
  <2>1. F \in FeedState /\ e \in Seq(Batch) /\ "closed" \in Statuses
    BY <1>0 DEF TypeOK, Statuses
  <2>2. \/ F.status \in {"none", "closed"} /\ G = F
        \/ G = Pushed(F, e, "closed")
    BY <1>1, <2>1, ClosedFacts
  <2> HIDE DEF F, G, e
  <2>3. G = Pushed(F, e, "closed") => G.status = "closed"
    BY <2>1, FeedPushed
  <2>4. G.status \in {"none", "closed"}
    BY <2>2, <2>3
  <2> QED
    BY <2>4 DEF G
<1> QED
  BY <1>2, <1>3, EndedLive

LEMMA RestartLive ==
  ASSUME Restart PROVE Window' /\ Stores'
<1>1. /\ last_lsn' = 0 /\ ring' = <<>> /\ ring_floor' = 0 /\ stream' = <<>>
      /\ \A f \in Feeds : feed'[f] = NoFeed
  BY DEF Restart
<1>2. EndOf(ring', stream', ring_floor') /\ ring_floor' <= last_lsn'
  BY <1>1 DEF EndOf
<1>3. Window'
  BY <1>2 DEF Window, EndOf
<1> QED
  BY <1>1, <1>3, NoFeedFields, EndedLive

\* Subscribing with a resume point: the retained batches after it.
LEMMA SubscribedStock ==
  ASSUME NEW R \in Seq(Batch), NEW S \in Seq(Batch), NEW fl \in Nat, NEW from \in Nat,
         NEW s, NEW G, EndOf(R, S, fl), Increasing(S)
  PROVE  Stocked(After(R, from), Bigger(from, fl), from, s, S, G)
<1> DEFINE P == After(R, from)
           n == UpTo(R, from)
           st == Bigger(from, fl)
           d == Len(S) - Len(R)
<1>1. /\ P \in Seq(Batch) /\ n \in 0 .. Len(R) /\ Len(P) = Len(R) - n
      /\ \A k \in 1 .. Len(P) : P[k] = R[n + k]
      /\ \A i \in 1 .. n : R[i].lsn <= from
      /\ n < Len(R) => R[n + 1].lsn > from
  <2>1. from \in Int
    OBVIOUS
  <2>2. /\ After(R, from) \in Seq(Batch) /\ UpTo(R, from) \in 0 .. Len(R)
        /\ Len(After(R, from)) = Len(R) - UpTo(R, from)
        /\ \A k \in 1 .. Len(After(R, from)) : After(R, from)[k] = R[UpTo(R, from) + k]
        /\ \A i \in 1 .. UpTo(R, from) : R[i].lsn <= from
        /\ UpTo(R, from) < Len(R) => R[UpTo(R, from) + 1].lsn > from
    BY ONLY <2>1, R \in Seq(Batch), AfterFacts
  <2> QED
    BY ONLY <2>2
<1> HIDE DEF P, n
<1>2. /\ DOMAIN R = 1 .. Len(R) /\ DOMAIN S = 1 .. Len(S) /\ DOMAIN P = 1 .. Len(P)
      /\ Len(R) \in Nat /\ Len(S) \in Nat /\ Len(P) \in Nat /\ n \in Nat /\ n <= Len(R)
      /\ \A i \in 1 .. Len(S) : S[i].lsn \in Nat
  BY <1>1, BatchTypes
<1>3. /\ Len(R) <= Len(S)
      /\ \A k \in 1 .. Len(R) : R[k] = S[d + k]
      /\ \A i \in 1 .. Len(S) : S[i].lsn > fl <=> i > d
  BY <1>2 DEF EndOf
<1>4. d \in Nat /\ Len(S) = d + Len(R)
  BY ONLY <1>2, <1>3
<1> HIDE DEF d
<1>5. st \in Nat /\ st >= from /\ st >= fl /\ (st = from \/ st = fl)
  BY DEF Bigger
<1> HIDE DEF st
\* The batches in store are the end of the stream.
<1>6. ASSUME NEW k \in 1 .. Len(P)
      PROVE  d + n + k \in 1 .. Len(S) /\ P[k] = S[d + n + k] /\ d + n + k > d
  <2>0. /\ Len(P) = Len(R) - n /\ Len(R) \in Nat /\ n \in Nat /\ n <= Len(R)
        /\ d \in Nat /\ Len(S) = d + Len(R) /\ k \in Nat /\ 1 <= k /\ k <= Len(P)
    BY ONLY <1>1, <1>2, <1>4, k \in 1 .. Len(P)
  <2>1. n + k \in 1 .. Len(R) /\ d + n + k \in 1 .. Len(S) /\ d + (n + k) = d + n + k
        /\ d + n + k > d
    BY ONLY <2>0
  <2> QED
    BY <1>1, <1>3, <2>1
<1>7. ASSUME NEW i \in 1 .. Len(S), i > d + n PROVE S[i].lsn > from
  <2>1. n < Len(R) /\ d + (n + 1) \in 1 .. Len(S) /\ n + 1 \in 1 .. Len(R) /\ d + (n + 1) <= i
    BY ONLY <1>2, <1>4, <1>7, i \in 1 .. Len(S)
  <2>2. S[d + (n + 1)].lsn > from /\ S[d + (n + 1)].lsn \in Nat
    BY <1>1, <1>2, <1>3, <2>1
  <2>3. CASE i = d + (n + 1)
    BY <2>2, <2>3
  <2>4. CASE i > d + (n + 1)
    <3>1. S[d + (n + 1)].lsn < S[i].lsn /\ S[i].lsn \in Nat
      BY <1>2, <2>1, <2>4 DEF Increasing
    <3> QED
      BY ONLY <2>2, <3>1, from \in Nat
  <2>5. i = d + (n + 1) \/ i > d + (n + 1)
    BY ONLY <1>2, <1>4, <2>1, i \in 1 .. Len(S)
  <2> QED
    BY <2>3, <2>4, <2>5
<1>8. Increasing(P)
  <2> SUFFICES ASSUME NEW i \in 1 .. Len(P), NEW j \in 1 .. Len(P), i < j
               PROVE  P[i].lsn < P[j].lsn
    BY <1>2 DEF Increasing
  <2>1. d + n + i < d + n + j
    BY ONLY <1>2, <1>4, i \in 1 .. Len(P), j \in 1 .. Len(P), i < j
  <2> QED
    BY <1>2, <1>6, <2>1 DEF Increasing
<1>9. ASSUME NEW k \in DOMAIN P
      PROVE  (\E i \in DOMAIN S : S[i] = P[k]) /\ P[k].lsn > st /\ P[k].lsn > from
  <2> DEFINE i == d + n + k
  <2>1. i \in 1 .. Len(S) /\ P[k] = S[i] /\ i > d
    BY <1>2, <1>6
  <2>2. i > d + n
    BY <1>2, <1>4
  <2> HIDE DEF i
  <2>3. S[i].lsn > from /\ S[i].lsn > fl
    BY <1>3, <1>7, <2>1, <2>2
  <2>4. S[i].lsn > st
    BY <1>5, <2>3
  <2> QED
    BY <1>2, <2>1, <2>3, <2>4
<1>10. ASSUME NEW i \in DOMAIN S, S[i].lsn > st PROVE \E k \in DOMAIN P : P[k] = S[i]
  <2>1. i \in 1 .. Len(S) /\ S[i].lsn \in Nat
    BY <1>2
  <2>1a. S[i].lsn > fl /\ S[i].lsn > from
    BY ONLY <1>5, <1>10, <2>1, fl \in Nat, from \in Nat
  <2>2. i > d
    BY <1>3, <2>1, <2>1a
  <2>3. i > d + n
    <3> SUFFICES ASSUME ~(i > d + n) PROVE FALSE
      OBVIOUS
    <3> DEFINE j == i - d
    <3>1. j \in 1 .. n /\ j \in 1 .. Len(R) /\ d + j = i
      BY ONLY <1>2, <1>4, <2>1, <2>2, ~(i > d + n)
    <3> HIDE DEF j
    <3>2. R[j].lsn <= from /\ R[j] = S[i]
      BY <1>1, <1>3, <3>1
    <3> QED
      BY ONLY <2>1, <2>1a, <3>2, from \in Nat
  <2> DEFINE k == i - (d + n)
  <2>4. k \in 1 .. Len(P) /\ d + n + k = i
    BY ONLY <1>1, <1>2, <1>4, <2>1, <2>3
  <2> HIDE DEF k
  <2> QED
    BY <1>2, <1>6, <2>4
<1>11. Stocked(P, st, from, s, S, G)
  BY <1>8, <1>9, <1>10 DEF Stocked
<1> QED
  BY <1>11 DEF P, st

LEMMA EmptyPending ==
  ASSUME NEW b \in Seq(Batch) PROVE b \o <<>> = b /\ <<>> \o b = b
  OBVIOUS

LEMMA HeadTailJoin ==
  ASSUME NEW b \in Seq(Batch), b # <<>>, NEW q \in Seq(Batch)
  PROVE  /\ b \o q # <<>> /\ Head(b \o q) = Head(b) /\ Tail(b \o q) = Tail(b) \o q
         /\ 1 \in DOMAIN (b \o q) /\ (b \o q)[1] = Head(b)
<1> DEFINE u == b \o q
           t == Tail(b)
           v == t \o q
           w == Tail(u)
<1>1. /\ u \in Seq(Batch) /\ Len(u) = Len(b) + Len(q) /\ Len(q) \in Nat /\ Len(b) \in Nat
      /\ Len(b) >= 1 /\ DOMAIN u = 1 .. Len(b) + Len(q)
      /\ \A k \in 1 .. Len(b) : u[k] = b[k]
      /\ \A k \in 1 .. Len(q) : u[Len(b) + k] = q[k]
  BY ONLY b \in Seq(Batch), b # <<>>, q \in Seq(Batch)
<1>2. t \in Seq(Batch) /\ Len(t) = Len(b) - 1 /\ Head(b) = b[1]
      /\ \A k \in 1 .. Len(b) - 1 : t[k] = b[k + 1]
  BY HeadTail
<1> HIDE DEF t, u
<1>3. u # <<>> /\ Head(u) = u[1]
  BY ONLY <1>1
<1>4. w \in Seq(Batch) /\ Len(w) = Len(u) - 1 /\ \A k \in 1 .. Len(u) - 1 : w[k] = u[k + 1]
  BY <1>1, <1>3, HeadTail
<1>a. t \in Seq(Batch)
  BY <1>2
<1>5. /\ v \in Seq(Batch) /\ Len(v) = Len(t) + Len(q)
      /\ \A k \in 1 .. Len(t) : v[k] = t[k]
      /\ \A k \in 1 .. Len(q) : v[Len(t) + k] = q[k]
  BY ONLY <1>a, q \in Seq(Batch)
<1> HIDE DEF v, w
<1>6. Len(w) = Len(v) /\ Len(w) = Len(b) - 1 + Len(q)
  BY ONLY <1>1, <1>2, <1>4, <1>5
<1>7. ASSUME NEW k \in 1 .. Len(w) PROVE w[k] = v[k]
  <2>1. CASE k <= Len(t)
    <3>1. k \in 1 .. Len(t) /\ k \in 1 .. Len(b) - 1 /\ k + 1 \in 1 .. Len(b)
          /\ k \in 1 .. Len(u) - 1
      BY ONLY <1>1, <1>2, <1>6, <2>1, k \in 1 .. Len(w)
    <3> QED
      BY <1>1, <1>2, <1>4, <1>5, <3>1
  <2>2. CASE k > Len(t)
    <3> DEFINE j == k - Len(t)
    <3>1. j \in 1 .. Len(q) /\ k = Len(t) + j /\ k + 1 = Len(b) + j /\ k \in 1 .. Len(u) - 1
      BY ONLY <1>1, <1>2, <1>6, <2>2, k \in 1 .. Len(w)
    <3> HIDE DEF j
    <3> QED
      BY <1>1, <1>4, <1>5, <3>1
  <2>3. k <= Len(t) \/ k > Len(t)
    BY ONLY <1>1, <1>2, k \in 1 .. Len(w)
  <2> QED
    BY <2>1, <2>2, <2>3
<1>8. w = v
  BY <1>4, <1>5, <1>6, <1>7, SameSeq
<1>9. 1 \in DOMAIN u /\ u[1] = b[1]
  <2>1. 1 \in 1 .. Len(b) /\ 1 \in 1 .. Len(b) + Len(q)
    BY ONLY <1>1
  <2> QED
    BY <1>1, <2>1
<1> QED
  BY <1>2, <1>3, <1>8, <1>9 DEF u, v, w, t

LEMMA AfterAll ==
  ASSUME NEW b \in Seq(Batch), NEW l \in Int, \A k \in 1 .. Len(b) : b[k].lsn > l
  PROVE  After(b, l) = b
<1>1. /\ After(b, l) \in Seq(Batch) /\ UpTo(b, l) \in 0 .. Len(b)
      /\ \A i \in 1 .. UpTo(b, l) : b[i].lsn <= l
  BY AfterFacts
<1>2. UpTo(b, l) = 0
  <2> SUFFICES ASSUME UpTo(b, l) # 0 PROVE FALSE
    OBVIOUS
  <2>1. 1 \in 1 .. UpTo(b, l) /\ 1 \in 1 .. Len(b)
    BY <1>1
  <2>2. b[1].lsn \in Nat
    BY <2>1, BatchTypes
  <2> QED
    BY <1>1, <2>1, <2>2
<1>3. After(b, l) = SubSeq(b, 1, Len(b))
  BY <1>2 DEF After
<1> QED
  BY <1>3

\* Deliveries are to one feed.
LEMMA DeliverGot ==
  ASSUME TypeOK, NEW f \in Feeds, NEW b \in Delivered, Deliver(f, b)
  PROVE  /\ got'[f] = Append(got[f], b) /\ got'[f] \in Seq(Delivered) /\ got[f] \in Seq(Delivered)
         /\ \A g \in Feeds : g # f => got'[g] = got[g]
<1>1. got' = [got EXCEPT ![f] = Append(got[f], b)] /\ got \in [Feeds -> Seq(Delivered)]
  BY DEF Deliver, TypeOK
<1> QED
  BY <1>1

LEMMA StartOverGot ==
  ASSUME TypeOK, NEW f \in Feeds, StartOver(f)
  PROVE  \A g \in Feeds : g # f => got'[g] = got[g]
  BY DEF StartOver, TypeOK

LEMMA SubscribeLive ==
  ASSUME HubInv, Window, Stores, NEW f \in Feeds, Subscribe(f) PROVE Window' /\ Stores'
<1> USE DEF hub
<1>0. TypeOK
  BY DEF HubInv
<1>1. feed[f].status = "none" /\ UNCHANGED <<stream, ring, ring_floor, last_lsn>>
  BY <1>0, SubscribeFacts
<1>2. /\ stream \in Seq(Batch) /\ ring \in Seq(Batch) /\ Increasing(stream)
      /\ last_lsn \in Nat /\ ring_floor \in Nat /\ ids \in Nat
      /\ \A i \in 1 .. Len(stream) : stream[i].lsn <= last_lsn
  BY <1>0, StreamFacts, ChangeHubAssumption DEF TypeOK
<1>3. CASE StartOver(f) /\ UNCHANGED feed
  <2>1. Becomes(f, feed[f])
    BY <1>0, <1>3 DEF Becomes, TypeOK
  <2>2. Store(feed[f], stream, got'[f], last_lsn)
    BY <1>1, StoreEnded
  <2> QED
    BY <1>0, <1>1, <1>3, <2>1, <2>2, StartOverGot, FeedLive
<1>4. CASE UNCHANGED <<token, got>> /\ Becomes(f, FreshFeed(ids, last_lsn))
  <2> DEFINE G == FreshFeed(ids, last_lsn)
             e == <<>>
  <2>0. Becomes(f, G)
    BY <1>4
  <2>1. /\ G.queue = e /\ G.backlog = e /\ G.last = NoLsn
        /\ G.hist = "no" /\ G.after = last_lsn /\ G.upto = 0
    BY <1>2, FeedFresh
  <2>2. e \in Seq(Batch) /\ e \o e = e /\ Len(e) = 0 /\ DOMAIN e = 1 .. 0
    OBVIOUS
  <2> HIDE DEF G, e
  <2>3. Pending(G) = e /\ Start(G) = last_lsn
    BY <1>2, <2>1, <2>2 DEF Pending, Start, Bigger
  <2>4. DOMAIN e = {} /\ DOMAIN stream = 1 .. Len(stream)
    BY <1>2, <2>2
  <2>5. \A i \in DOMAIN stream : ~(stream[i].lsn > last_lsn)
    <3> TAKE i \in DOMAIN stream
    <3>1. stream[i].lsn \in Nat /\ stream[i].lsn <= last_lsn
      BY <1>2, <2>4, BatchTypes
    <3> QED
      BY ONLY <1>2, <3>1
  <2>6. Stocked(e, last_lsn, NoLsn, G.status, stream, got[f])
    BY <2>4, <2>5 DEF Stocked, Increasing
  <2>7. NoLsn <= last_lsn /\ last_lsn <= last_lsn
    BY <1>2 DEF NoLsn
  <2>8. Store(G, stream, got'[f], last_lsn)
    BY <1>4, <2>1, <2>3, <2>6, <2>7 DEF Store
  <2> QED
    BY <1>1, <1>4, <2>0, <2>8, FeedLive
<1>5. CASE /\ UNCHANGED <<token, got>>
           /\ \E from \in Nat :
                /\ from <= last_lsn /\ After(ring, from) \in Seq(Batch)
                /\ Becomes(f, ResumedFeed(ids, from, ring_floor, After(ring, from),
                                IF from >= ring_floor THEN "no" ELSE "wanted"))
  <2>1. PICK from \in Nat :
          /\ from <= last_lsn /\ After(ring, from) \in Seq(Batch)
          /\ Becomes(f, ResumedFeed(ids, from, ring_floor, After(ring, from),
                          IF from >= ring_floor THEN "no" ELSE "wanted"))
    BY <1>5
  <2> DEFINE b == After(ring, from)
             h == IF from >= ring_floor THEN "no" ELSE "wanted"
             G == ResumedFeed(ids, from, ring_floor, b, h)
             e == <<>>
  <2>2. h \in Hists /\ (h # "no" => from <= ring_floor) /\ b \in Seq(Batch) /\ from \in Nat
    BY <1>2, <2>1 DEF Hists
  <2>3. Becomes(f, G)
    BY <2>1
  <2>4. EndOf(ring, stream, ring_floor) /\ ring_floor <= last_lsn
    BY DEF Window
  <2>5. Stocked(b, Bigger(from, ring_floor), from, G.status, stream, got[f])
    BY <1>2, <2>4, SubscribedStock
  <2>5a. G = ResumedFeed(ids, from, ring_floor, b, h)
    OBVIOUS
  <2> HIDE DEF h, b, G
  <2>6. /\ G.queue = e /\ G.backlog = b /\ G.last = from
        /\ G.hist = h /\ G.after = from /\ G.upto = ring_floor
    <3>1. /\ ids \in Nat /\ from \in Nat /\ ring_floor \in Nat /\ b \in Seq(Batch)
          /\ h \in Hists
      BY <1>2, <2>2
    <3>2. /\ G \in FeedState /\ G.status = "open" /\ G.queue = <<>> /\ G.backlog = b
          /\ G.last = from /\ ~G.errored /\ G.hist = h /\ G.after = from
          /\ G.upto = ring_floor
      BY ONLY <2>5a, <3>1, FeedResumed
    <3> QED
      BY ONLY <3>2
  <2>7. Pending(G) = b
    BY <2>2, <2>6, EmptyPending DEF Pending
  <2>8. Start(G) = Bigger(from, ring_floor) /\ Start(G) <= last_lsn
    BY <1>2, <2>1, <2>4, <2>6 DEF Start, Bigger
  <2>9. Store(G, stream, got'[f], last_lsn)
    BY <1>5, <2>1, <2>2, <2>5, <2>6, <2>7, <2>8 DEF Store
  <2> QED
    BY <1>1, <1>5, <2>3, <2>9, FeedLive
<1> QED
  BY <1>0, <1>3, <1>4, <1>5, SubscribeFacts DEF ResumesFrom

\* Steps of a feed that only move its history replay, or end it.
LEMMA MovedLive ==
  ASSUME HubInv, Window, Stores, NEW f \in Feeds, NEW h \in Hists, NEW b \in Nat,
         NEW s \in SUBSET Ids, NEW p \in Nat, NEW r \in Nat,
         Becomes(f, Moved(feed[f], h, b, s, p, r)), feed[f].hist = "no" => h = "no",
         UNCHANGED <<stream, ring, ring_floor, last_lsn, got>>
  PROVE  Window' /\ Stores'
<1> DEFINE F == feed[f]
           G == Moved(F, h, b, s, p, r)
<1>1. F \in FeedState /\ Store(F, stream, got[f], last_lsn) /\ Becomes(f, G)
      /\ (F.hist = "no" => h = "no")
  BY DEF HubInv, TypeOK, Stores
<1> HIDE DEF F
<1>2. /\ G.hist = h
      /\ G.status = F.status /\ G.queue = F.queue /\ G.backlog = F.backlog
      /\ G.last = F.last /\ G.after = F.after /\ G.upto = F.upto
  BY <1>1, FeedMoved
<1> HIDE DEF G
<1>3. Store(G, stream, got[f], last_lsn)
  BY <1>1, <1>2, StoreSame
<1> QED
  BY <1>1, <1>3, FeedLive

LEMMA FeedEndedLive ==
  ASSUME HubInv, Window, Stores, NEW f \in Feeds,
         Becomes(f, Ended(feed[f], <<>>)) \/ Becomes(f, NoFeed)
           \/ Becomes(f, Pushed(feed[f], <<>>, "closed")),
         UNCHANGED <<stream, ring, ring_floor, last_lsn>>,
         \A g \in Feeds : g # f => got'[g] = got[g]
  PROVE  Window' /\ Stores'
<1> DEFINE F == feed[f]
           e == <<>>
<1>1. F \in FeedState /\ e \in Seq(Batch) /\ "closed" \in Statuses
      /\ (Becomes(f, Ended(F, e)) \/ Becomes(f, NoFeed) \/ Becomes(f, Pushed(F, e, "closed")))
  BY DEF HubInv, TypeOK, Statuses
<1> HIDE DEF F, e
<1>2. Ended(F, e).status = "closed" /\ Pushed(F, e, "closed").status = "closed"
      /\ NoFeed.status = "none"
  BY <1>1, FeedEnded, FeedPushed, NoFeedFields
<1>3. ASSUME NEW G, Becomes(f, G), G.status \in {"none", "closed"} PROVE Window' /\ Stores'
  <2>1. Store(G, stream, got'[f], last_lsn)
    BY <1>3, StoreEnded
  <2> QED
    BY <1>3, <2>1, FeedLive
<1> QED
  BY <1>1, <1>2, <1>3

LEMMA PlanLive ==
  ASSUME HubInv, Window, Stores, NEW f \in Feeds, Plan(f) PROVE Window' /\ Stores'
<1> USE DEF hub, eaten
<1>0. TypeOK
  BY DEF HubInv
<1>1. feed[f].hist = "wanted" /\ UNCHANGED <<stream, ring, ring_floor, last_lsn>>
  BY <1>0, PlanFacts
<1>2. CASE Becomes(f, NoFeed) /\ StartOver(f)
  BY <1>0, <1>1, <1>2, StartOverGot, FeedEndedLive
<1>3. CASE /\ UNCHANGED eaten
           /\ \E b \in bases \cup {EmptyBase} :
                /\ b.lsn \in Nat /\ b.has \in SUBSET Ids
                /\ Becomes(f, Moved(feed[f], "planned", b.lsn, b.has, feed[f].pos,
                                    feed[f].from))
  <2>1. PICK b \in bases \cup {EmptyBase} :
          /\ b.lsn \in Nat /\ b.has \in SUBSET Ids
          /\ Becomes(f, Moved(feed[f], "planned", b.lsn, b.has, feed[f].pos, feed[f].from))
    BY <1>3
  <2> DEFINE l == b.lsn
             s == b.has
             p == feed[f].pos
             r == feed[f].from
  <2>2. feed[f] \in FeedState
    BY <1>0 DEF TypeOK
  <2>3. p \in Nat /\ r \in Nat /\ "planned" \in Hists
    BY <2>2, FeedFields DEF Hists
  <2>4. l \in Nat /\ s \in SUBSET Ids /\ Becomes(f, Moved(feed[f], "planned", l, s, p, r))
    BY <2>1
  <2> HIDE DEF l, s, p, r
  <2>5. UNCHANGED <<stream, ring, ring_floor, last_lsn, got>>
    BY <1>1, <1>3
  <2> QED
    BY <1>1, <2>3, <2>4, <2>5, MovedLive
<1> QED
  BY <1>0, <1>2, <1>3, PlanFacts DEF PlannedOn

LEMMA HistoryStartLive ==
  ASSUME HubInv, Window, Stores, NEW f \in Feeds, HistoryStart(f) PROVE Window' /\ Stores'
<1> USE DEF hub, eaten
<1>0. TypeOK
  BY DEF HubInv
<1>1. feed[f].hist = "planned" /\ UNCHANGED <<stream, ring, ring_floor, last_lsn, got>>
  BY <1>0, HistoryStartFacts
<1>2. CASE Becomes(f, Ended(feed[f], <<>>))
  BY <1>1, <1>2, FeedEndedLive
<1>3. CASE \E s \in SUBSET Ids :
             Becomes(f, Moved(feed[f], "running", feed[f].base, s, feed[f].base, oldest))
  <2>1. PICK s \in SUBSET Ids :
          Becomes(f, Moved(feed[f], "running", feed[f].base, s, feed[f].base, oldest))
    BY <1>3
  <2> DEFINE b == feed[f].base
  <2>2. feed[f] \in FeedState /\ oldest \in Nat
    BY <1>0 DEF TypeOK
  <2>3. b \in Nat /\ "running" \in Hists
    BY <2>2, FeedFields DEF Hists
  <2>4. Becomes(f, Moved(feed[f], "running", b, s, b, oldest))
    BY <2>1
  <2> HIDE DEF b
  <2> QED
    BY <1>1, <2>2, <2>3, <2>4, MovedLive
<1> QED
  BY <1>0, <1>2, <1>3, HistoryStartFacts

\* Reading the WAL: nothing in store is touched, it is all above `upto`.
LEMMA HistoryNextLive ==
  ASSUME HubInv, Window, Stores, NEW f \in Feeds, HistoryNext(f) PROVE Window' /\ Stores'
<1> USE DEF hub, eaten, ReadOut, ReadsPast, ReadsOn, Reads
<1> DEFINE F == feed[f]
<1>0. TypeOK
  BY DEF HubInv
<1>1. F.hist = "running" /\ UNCHANGED <<stream, ring, ring_floor, last_lsn, log>>
  BY <1>0, HistoryNextFacts
<1>2. /\ F \in FeedState /\ Store(F, stream, got[f], last_lsn)
      /\ stream \in Seq(Batch) /\ last_lsn \in Nat
  BY <1>0, StreamFacts DEF TypeOK, Stores
<1>3. /\ F.queue \in Seq(Batch) /\ F.backlog \in Seq(Batch) /\ F.last \in Places
      /\ F.seen \in SUBSET Ids /\ F.base \in Nat /\ F.pos \in Nat /\ F.from \in Nat
      /\ F.after \in Nat /\ F.upto \in Nat
  BY <1>2, FeedFields
<1>4. CASE ReadOut(f)
  <2>1. "no" \in Hists /\ UNCHANGED <<stream, ring, ring_floor, last_lsn, got>>
    BY <1>1, <1>4 DEF Hists
  <2> QED
    BY <1>3, <1>4, <2>1, MovedLive
<1>5. CASE UNCHANGED eaten /\ Becomes(f, Ended(F, <<>>))
  BY <1>1, <1>5, FeedEndedLive
<1>6. ASSUME NEW i \in ToRead(f), i \in DOMAIN log
      PROVE  F.seen \cup {log[i].id} \in SUBSET Ids /\ log[i].lsn \in Nat /\ log[i].id \in Ids
             /\ log[i].lsn <= F.upto
  <2>1. log[i] \in Items
    BY <1>0, <1>6 DEF TypeOK
  <2> QED
    BY <1>3, <1>6, <2>1 DEF Items, ToRead
<1>7. CASE \E i \in ToRead(f) : ReadsPast(f, i)
  <2>1. PICK i \in ToRead(f) : ReadsPast(f, i)
    BY <1>7
  <2> DEFINE q == F.queue
             b == F.backlog
             l == F.last
             s == F.seen \cup {log[i].id}
             p == log[i].lsn
             G == Took(F, q, b, l, s, p)
  <2>2. s \in SUBSET Ids /\ p \in Nat /\ q \in Seq(Batch) /\ b \in Seq(Batch) /\ l \in Places
    BY <1>3, <1>6, <2>1
  <2>3. Becomes(f, G) /\ q = F.queue /\ b = F.backlog /\ l = F.last
    BY <2>1
  <2> HIDE DEF q, b, l, s, p, F
  <2>4. /\ G.queue = q /\ G.backlog = b /\ G.last = l /\ G.status = F.status
        /\ G.hist = F.hist /\ G.after = F.after /\ G.upto = F.upto
    BY <1>2, <2>2, FeedTook
  <2> HIDE DEF G
  <2>5. Store(G, stream, got[f], last_lsn)
    BY <1>2, <2>3, <2>4, StoreSame
  <2> QED
    BY <1>1, <2>1, <2>3, <2>5, FeedLive
<1>8. CASE \E i \in ToRead(f) : ReadsOn(f, i)
  <2>1. PICK i \in ToRead(f) : ReadsOn(f, i)
    BY <1>8
  <2> DEFINE q == F.queue
             p == log[i].lsn
             b == After(F.backlog, p)
             s == F.seen \cup {log[i].id}
             G == Took(F, q, b, p, s, p)
             d == [lsn |-> log[i].lsn, id |-> log[i].id, good |-> F.seen = GraphAt(i - 1)]
  <2>2. /\ s \in SUBSET Ids /\ p \in Nat /\ q \in Seq(Batch) /\ b \in Seq(Batch)
        /\ p \in Places /\ p <= F.upto
    BY <1>3, <1>6, <2>1 DEF Places
  <2>3. Becomes(f, G) /\ q = F.queue /\ Deliver(f, d)
    BY <2>1
  <2>4. d \in Delivered
    <3> DEFINE id == log[i].id
               g == (F.seen = GraphAt(i - 1))
    <3>1. p \in Nat /\ id \in Ids /\ g \in BOOLEAN
      BY <1>6, <2>1
    <3>2. d = [lsn |-> p, id |-> id, good |-> g]
      OBVIOUS
    <3> HIDE DEF p, id, g
    <3>3. \A x \in BOOLEAN : [lsn |-> p, id |-> id, good |-> x] \in Delivered
      BY <3>1 DEF Delivered
    <3> QED
      BY <3>1, <3>2, <3>3, Zenon
  <2>5. \A g \in Feeds : g # f => got'[g] = got[g]
    BY <1>0, <2>3, <2>4, DeliverGot
  <2> HIDE DEF q, s, F, d
  <2>6. /\ G.queue = q /\ G.backlog = b /\ G.last = p /\ G.status = F.status
        /\ G.hist = F.hist /\ G.after = F.after /\ G.upto = F.upto
    <3> HIDE DEF b, p
    <3> QED
      BY <1>2, <2>2, FeedTook
  <2> HIDE DEF G
  <2>7. Store(G, stream, got'[f], last_lsn)
    <3> SUFFICES ASSUME F.status \in {"open", "lagged"}
                 PROVE  Store(G, stream, got'[f], last_lsn)
      BY <2>6 DEF Store
    <3>1. /\ F.last <= last_lsn /\ Start(F) <= last_lsn /\ F.last <= F.upto
          /\ Stocked(Pending(F), Start(F), F.last, F.status, stream, got[f])
      BY <1>1, <1>2 DEF Store, F
    <3>2. Start(F) \in Nat /\ Start(F) >= F.upto /\ F.last \in Int
      BY <1>3 DEF Start, Bigger, Places, NoLsn
    <3>3. p <= Start(F) /\ F.last <= Start(F) /\ p <= last_lsn
      <4> HIDE DEF p
      <4> DEFINE la == F.last
                 up == F.upto
                 st == Start(F)
      <4>1. /\ la \in Int /\ up \in Nat /\ st \in Nat /\ p \in Nat /\ last_lsn \in Nat
            /\ la <= up /\ p <= up /\ st >= up /\ st <= last_lsn
        BY <1>2, <1>3, <2>2, <3>1, <3>2
      <4> HIDE DEF la, up, st
      <4>2. p <= st /\ la <= st /\ p <= last_lsn
        BY ONLY <4>1
      <4> QED
        BY ONLY <4>2 DEF la, st
    <3>4. /\ Pending(F) \in Seq(Batch) /\ Len(F.backlog) \in Nat
          /\ DOMAIN Pending(F) = 1 .. Len(F.backlog) + Len(F.queue) /\ Len(F.queue) \in Nat
          /\ \A k \in 1 .. Len(F.backlog) : Pending(F)[k] = F.backlog[k]
      <4> DEFINE bl == F.backlog
                 qu == F.queue
      <4>1. bl \in Seq(Batch) /\ qu \in Seq(Batch) /\ Pending(F) = bl \o qu
        BY <1>3 DEF Pending
      <4> HIDE DEF bl, qu
      <4>2. /\ bl \o qu \in Seq(Batch) /\ Len(bl) \in Nat /\ Len(qu) \in Nat
            /\ DOMAIN (bl \o qu) = 1 .. Len(bl) + Len(qu)
            /\ \A k \in 1 .. Len(bl) : (bl \o qu)[k] = bl[k]
        BY ONLY <4>1
      <4> QED
        BY ONLY <4>1, <4>2 DEF bl, qu
    <3>5. b = F.backlog
      <4>1. ASSUME NEW k \in 1 .. Len(F.backlog) PROVE F.backlog[k].lsn > p
        <5>a. Len(F.backlog) \in Nat /\ Len(F.queue) \in Nat
          BY <3>4
        <5>0. k \in 1 .. Len(F.backlog) + Len(F.queue)
          <6> DEFINE m == Len(F.backlog)
                     n == Len(F.queue)
          <6>1. k \in 1 .. m /\ m \in Nat /\ n \in Nat
            BY <5>a
          <6> HIDE DEF m, n
          <6>2. k \in 1 .. m + n
            BY ONLY <6>1
          <6> QED
            BY <6>2 DEF m, n
        <5>1. k \in DOMAIN Pending(F)
          BY <3>4, <5>0
        <5>2. Pending(F)[k].lsn > Start(F) /\ Pending(F)[k] = F.backlog[k]
          BY <3>1, <3>4, <5>1 DEF Stocked
        <5>3. F.backlog[k].lsn \in Nat
          BY <1>3, BatchTypes
        <5> HIDE DEF p
        <5> QED
          BY ONLY <2>2, <3>2, <3>3, <5>2, <5>3
      <4> HIDE DEF p
      <4>2. p \in Int /\ F.backlog \in Seq(Batch)
        BY <1>3, <2>2
      <4>3. After(F.backlog, p) = F.backlog
        BY ONLY <4>1, <4>2, AfterAll
      <4> QED
        BY <4>3
    <3>6. Pending(G) = Pending(F) /\ Start(G) = Start(F)
      BY <2>3, <2>6, <3>5 DEF Pending, Start
    <3> HIDE DEF p
    <3>7. Stocked(Pending(F), Start(F), p, F.status, stream, got'[f])
      BY <1>2, <1>3, <2>2, <3>1, <3>2, <3>3, <3>4, StockBehind
    <3> QED
      BY <2>2, <2>6, <3>1, <3>3, <3>6, <3>7 DEF Store
  <2> QED
    BY <1>1, <2>3, <2>5, <2>7, FeedLive
<1> QED
  BY <1>0, <1>4, <1>5, <1>7, <1>8, HistoryNextFacts

\* Taking the first batch in store.
LEMMA TookLive ==
  ASSUME HubInv, Window, Stores, NEW f \in Feeds, NEW q \in Seq(Batch), NEW b \in Seq(Batch),
         Pending(feed[f]) # <<>>, b \o q = Tail(Pending(feed[f])),
         NEW h, h = Head(Pending(feed[f])), Deliver(f, Live(h)),
         Becomes(f, Took(feed[f], q, b, h.lsn, feed[f].seen, feed[f].pos)),
         feed[f].hist = "no",
         UNCHANGED <<stream, ring, ring_floor, last_lsn>>
  PROVE  Window' /\ Stores'
<1>0. TypeOK
  BY DEF HubInv
<1> DEFINE F == feed[f]
           P == Pending(F)
           l == h.lsn
           s == F.seen
           p == F.pos
           G == Took(F, q, b, l, s, p)
<1>1. /\ F \in FeedState /\ Store(F, stream, got[f], last_lsn) /\ F.hist = "no"
      /\ stream \in Seq(Batch) /\ last_lsn \in Nat /\ Becomes(f, G)
      /\ \A i \in 1 .. Len(stream) : stream[i].lsn <= last_lsn
  BY <1>0, StreamFacts DEF TypeOK, Stores
<1>2. /\ F.queue \in Seq(Batch) /\ F.backlog \in Seq(Batch) /\ F.last \in Places
      /\ F.after \in Nat /\ F.upto \in Nat /\ s \in SUBSET Ids /\ p \in Nat
  BY <1>1, FeedFields
<1>3. P \in Seq(Batch) /\ P # <<>> /\ b \o q = Tail(P)
  BY <1>2, JoinFacts DEF Pending
<1> HIDE DEF F, P, s, p
<1>4. /\ Tail(P) \in Seq(Batch) /\ h = P[1] /\ h \in Batch /\ 1 \in DOMAIN P
  <2>1. Head(P) = P[1] /\ Head(P) \in Batch /\ Tail(P) \in Seq(Batch) /\ 1 \in DOMAIN P
    BY ONLY <1>3
  <2> QED
    BY <2>1 DEF P, F
<1>5. l \in Nat /\ l \in Places
  BY <1>4 DEF Batch, Places
<1>6. /\ got'[f] = Append(got[f], Live(h)) /\ got'[f] \in Seq(Delivered)
      /\ got[f] \in Seq(Delivered)
      /\ \A g \in Feeds : g # f => got'[g] = got[g]
  BY <1>0, <1>4, LiveTypes, DeliverGot
<1>7. /\ G.queue = q /\ G.backlog = b /\ G.last = l /\ G.status = F.status
      /\ G.hist = F.hist /\ G.after = F.after /\ G.upto = F.upto
  <2> HIDE DEF l
  <2> QED
    BY <1>1, <1>2, <1>5, FeedTook
<1> HIDE DEF G
<1>8. Store(G, stream, got'[f], last_lsn)
  <2> SUFFICES ASSUME F.status \in {"open", "lagged"}
               PROVE  Store(G, stream, got'[f], last_lsn)
    BY <1>7 DEF Store
  <2>1. Start(F) <= last_lsn /\ Stocked(P, Start(F), F.last, F.status, stream, got[f])
    BY <1>1 DEF Store, P
  <2>2. Start(F) \in Nat /\ Start(G) = Start(F)
    BY <1>2, <1>7 DEF Start, Bigger
  <2>3. Pending(G) = Tail(P)
    BY <1>3, <1>7 DEF Pending
  <2>4. l <= last_lsn
    <3>1. PICK i \in DOMAIN stream : stream[i] = P[1]
      BY <1>4, <2>1 DEF Stocked
    <3>2. i \in 1 .. Len(stream)
      BY <1>1, <3>1
    <3> QED
      BY <1>1, <1>4, <3>1, <3>2
  <2> DEFINE Q == Tail(P)
             H == got'[f]
             st == Start(F)
             la == F.last
             t == F.status
             J == got[f]
  <2>5. /\ Q \in Seq(Batch) /\ H \in Seq(Delivered)
        /\ J \in Seq(Delivered) /\ Taken(P, Q, l, J, H)
        /\ st \in Nat /\ la \in Places /\ Stocked(P, st, la, t, stream, J)
    BY <1>2, <1>3, <1>4, <1>6, <2>1, <2>2 DEF Taken
  <2> HIDE DEF Q, H, l, st, la, t, J
  <2>6. Stocked(Q, st, l, t, stream, H)
    BY ONLY <1>1, <1>3, <2>5, StockTaken
  <2>7. Stocked(Pending(G), Start(G), G.last, G.status, stream, H)
    BY <1>7, <2>2, <2>3, <2>6 DEF Q, st, t
  <2> QED
    BY <1>1, <1>7, <2>1, <2>2, <2>4, <2>7 DEF Store, H
<1> QED
  BY <1>1, <1>6, <1>8, FeedLive

LEMMA PollBacklogLive ==
  ASSUME HubInv, Window, Stores, NEW f \in Feeds, PollBacklog(f) PROVE Window' /\ Stores'
<1> USE DEF hub, eaten
<1>0. TypeOK
  BY DEF HubInv
<1> DEFINE F == feed[f]
           bl == F.backlog
           q == F.queue
           h == Head(bl)
           t == Tail(bl)
<1>1. /\ F.hist = "no" /\ bl # <<>> /\ UNCHANGED <<stream, ring, ring_floor, last_lsn>>
      /\ h \in Batch /\ t \in Seq(Batch)
      /\ \/ NewTo(f, h) /\ Deliver(f, Live(h)) /\ Becomes(f, Took(F, q, t, h.lsn, F.seen, F.pos))
         \/ /\ ~NewTo(f, h) /\ UNCHANGED eaten
            /\ Becomes(f, Took(F, q, t, F.last, F.seen, F.pos))
  BY <1>0, PollBacklogFacts DEF CaughtUp
<1>2. F \in FeedState /\ Store(F, stream, got[f], last_lsn)
  BY <1>0 DEF TypeOK, Stores
<1>3. /\ bl \in Seq(Batch) /\ q \in Seq(Batch) /\ F.last \in Places
      /\ F.seen \in SUBSET Ids /\ F.pos \in Nat
  BY <1>2, FeedFields
<1>4. /\ Pending(F) # <<>> /\ Head(Pending(F)) = h /\ Tail(Pending(F)) = t \o q
      /\ 1 \in DOMAIN Pending(F) /\ Pending(F)[1] = h
  <2>1. Pending(F) = bl \o q
    BY DEF Pending
  <2>2. bl \in Seq(Batch) /\ q \in Seq(Batch) /\ bl # <<>>
    BY <1>1, <1>3
  <2> HIDE DEF F, bl, q
  <2>3. bl \o q # <<>> /\ Head(bl \o q) = Head(bl) /\ Tail(bl \o q) = Tail(bl) \o q
        /\ 1 \in DOMAIN (bl \o q) /\ (bl \o q)[1] = Head(bl)
    BY ONLY <2>2, HeadTailJoin
  <2> QED
    BY <2>1, <2>3
<1>5. CASE NewTo(f, h) /\ Deliver(f, Live(h)) /\ Becomes(f, Took(F, q, t, h.lsn, F.seen, F.pos))
  <2>1. t \o q = Tail(Pending(feed[f])) /\ h = Head(Pending(feed[f])) /\ Pending(feed[f]) # <<>>
    BY <1>4
  <2>2. Becomes(f, Took(feed[f], q, t, h.lsn, feed[f].seen, feed[f].pos)) /\ feed[f].hist = "no"
        /\ Deliver(f, Live(h))
    BY <1>1, <1>5
  <2> HIDE DEF F, q, t, h
  <2> QED
    BY <1>1, <1>3, <2>1, <2>2, TookLive
<1>6. CASE /\ ~NewTo(f, h) /\ UNCHANGED eaten
           /\ Becomes(f, Took(F, q, t, F.last, F.seen, F.pos))
  <2>1. F.status \notin {"open", "lagged"}
    <3> SUFFICES ASSUME F.status \in {"open", "lagged"} PROVE FALSE
      OBVIOUS
    <3>1. h.lsn > F.last
      BY <1>2, <1>4 DEF Store, Stocked
    <3> QED
      BY <1>6, <3>1 DEF NewTo
  <2> DEFINE l == F.last
             s == F.seen
             p == F.pos
             G == Took(F, q, t, l, s, p)
  <2>2. Becomes(f, G) /\ s \in SUBSET Ids /\ p \in Nat /\ l \in Places
    BY <1>3, <1>6
  <2> HIDE DEF F, q, t, l, s, p
  <2>3. G.status = F.status
    BY <1>1, <1>2, <1>3, <2>2, FeedTook
  <2> HIDE DEF G
  <2>4. Store(G, stream, got'[f], last_lsn)
    BY <2>1, <2>3 DEF Store
  <2>5. \A g \in Feeds : g # f => got'[g] = got[g]
    BY <1>6
  <2> QED
    BY <1>1, <2>2, <2>4, <2>5, FeedLive
<1> QED
  BY <1>1, <1>5, <1>6

LEMMA PollQueueLive ==
  ASSUME HubInv, Window, Stores, NEW f \in Feeds, PollQueue(f) PROVE Window' /\ Stores'
<1> USE DEF hub
<1>0. TypeOK
  BY DEF HubInv
<1> DEFINE F == feed[f]
           bl == F.backlog
           q == F.queue
           h == Head(q)
           t == Tail(q)
<1>1. /\ F.hist = "no" /\ bl = <<>> /\ q # <<>>
      /\ UNCHANGED <<stream, ring, ring_floor, last_lsn>>
      /\ h \in Batch /\ t \in Seq(Batch) /\ Deliver(f, Live(h))
      /\ Becomes(f, Took(F, t, bl, h.lsn, F.seen, F.pos))
  BY <1>0, PollQueueFacts DEF CaughtUp
<1>2. F \in FeedState
  BY <1>0 DEF TypeOK
<1>3. bl \in Seq(Batch) /\ q \in Seq(Batch)
  BY <1>2, FeedFields
<1>4. Pending(F) = q /\ bl \o t = t
  <2>1. bl \o q = q /\ bl \o t = t
    BY <1>1, <1>3, EmptyPending
  <2> QED
    BY <2>1 DEF Pending
<1>5. bl \o t = Tail(Pending(feed[f])) /\ h = Head(Pending(feed[f])) /\ Pending(feed[f]) # <<>>
  BY <1>1, <1>4
<1>6. Becomes(f, Took(feed[f], t, bl, h.lsn, feed[f].seen, feed[f].pos)) /\ feed[f].hist = "no"
      /\ Deliver(f, Live(h))
  BY <1>1
<1> HIDE DEF F, bl, q, t, h
<1> QED
  BY <1>1, <1>3, <1>5, <1>6, TookLive

LEMMA SleepLive ==
  ASSUME HubInv, Window, Stores, NEW f \in Feeds, Sleep(f) PROVE Window' /\ Stores'
<1> USE DEF hub, eaten
<1> DEFINE F == feed[f]
           G == Slept(F)
<1>0. TypeOK
  BY DEF HubInv
<1>1. UNCHANGED <<stream, ring, ring_floor, last_lsn, got>> /\ Becomes(f, G)
  BY <1>0, SleepFacts
<1>2. F \in FeedState /\ Store(F, stream, got[f], last_lsn)
  BY <1>0 DEF TypeOK, Stores
<1> HIDE DEF F
<1>3. /\ G.status = F.status /\ G.queue = F.queue /\ G.backlog = F.backlog
      /\ G.last = F.last /\ G.hist = F.hist /\ G.after = F.after /\ G.upto = F.upto
  BY <1>2, FeedSlept
<1> HIDE DEF G
<1>4. Store(G, stream, got[f], last_lsn)
  BY <1>2, <1>3, StoreSame
<1> QED
  BY <1>1, <1>4, FeedLive

LEMMA ConsumerLive ==
  ASSUME HubInv, Window, Stores, NEW f \in Feeds, Consumer(f) PROVE Window' /\ Stores'
<1> USE DEF hub, eaten
<1>0. TypeOK
  BY DEF HubInv
<1>1. CASE PollLagged(f) \/ close_feed(f) \/ Drop(f)
  <2>1. UNCHANGED <<stream, ring, ring_floor, last_lsn>> /\ \A g \in Feeds : got'[g] = got[g]
    BY <1>0, <1>1, PollLaggedFacts, CloseFeedFacts, DropFacts
  <2>2. \/ Becomes(f, Ended(feed[f], <<>>)) \/ Becomes(f, NoFeed)
        \/ Becomes(f, Pushed(feed[f], <<>>, "closed"))
    BY <1>0, <1>1, PollLaggedFacts, CloseFeedFacts, DropFacts
  <2> QED
    BY <2>1, <2>2, FeedEndedLive
<1> QED
  BY <1>1, SubscribeLive, PlanLive, HistoryStartLive, HistoryNextLive, PollBacklogLive,
     PollQueueLive, SleepLive DEF Consumer, Poll

LEMMA InitLive == Init => LiveInv
<1> SUFFICES ASSUME Init PROVE LiveInv
  OBVIOUS
<1>1. /\ ring = <<>> /\ stream = <<>> /\ ring_floor = 0 /\ last_lsn = 0
      /\ \A f \in Feeds : feed[f] = NoFeed
  BY DEF Init
<1>2. Window
  BY <1>1 DEF Window, EndOf
<1>3. Stores
  BY <1>1, NoFeedFields DEF Stores, Store
<1> QED
  BY <1>2, <1>3, InitHub DEF LiveInv

LEMMA StepLive == LiveInv /\ [Next]_vars => LiveInv'
<1> SUFFICES ASSUME HubInv, Window, Stores, [Next]_vars, HubInv' PROVE Window' /\ Stores'
  BY StepHub DEF LiveInv
<1> USE DEF hub, eaten
<1>1. CASE Commit \/ CatalogCommit \/ Fsync \/ FsyncFails \/ ActivateRead
           \/ Checkpoint \/ Restore \/ UNCHANGED vars
  <2>1. UNCHANGED <<stream, ring, ring_floor, last_lsn, feed, got>>
    BY <1>1 DEF Commit, CatalogCommit, Fsync, FsyncFails, ActivateRead, Checkpoint,
                Restore, vars
  <2> QED
    BY <2>1, QuietLive
<1>2. CASE ActivateListen
  <2>1. UNCHANGED <<stream, ring, ring_floor, last_lsn, feed, got>>
    BY <1>2 DEF ActivateListen
  <2> QED
    BY <2>1, QuietLive
<1>3. CASE Activate
  BY <1>3, ActivateLive
<1>4. CASE publish \/ publish_reset
  BY <1>4, PublishStepLive
<1>5. CASE CommitInMemory \/ RestoreInMemory
  BY <1>5, InMemoryLive
<1>6. CASE on_durable
  BY <1>6, OnDurableLive
<1>7. CASE set_retention \/ close \/ Restart
  BY <1>7, RetentionLive, CloseLive, RestartLive
<1>8. CASE \E f \in Feeds : Consumer(f)
  BY <1>8, ConsumerLive
<1> QED
  BY <1>1, <1>2, <1>3, <1>4, <1>5, <1>6, <1>7, <1>8 DEF Next, Writer

\* Since it was opened, a feed has delivered every batch the hub released up
\* to the one delivered last (Subscriber::push, subscribe, ChangeFeed::poll).
THEOREM LiveCompleteHolds == Spec => []LiveComplete
<1>1. LiveInv => LiveComplete
  <2> SUFFICES ASSUME LiveInv, NEW f \in Feeds, NEW i \in DOMAIN stream,
                      feed[f].status \in {"open", "lagged"}, feed[f].last # NoLsn,
                      stream[i].lsn > Bigger(feed[f].after, feed[f].upto),
                      stream[i].lsn <= feed[f].last
               PROVE  \E k \in DOMAIN got[f] : got[f][k].id = stream[i].id
    BY DEF LiveComplete
  <2>1. /\ Stocked(Pending(feed[f]), Start(feed[f]), feed[f].last, feed[f].status, stream,
                   got[f])
        /\ feed[f] \in FeedState /\ stream \in Seq(Batch)
    BY DEF LiveInv, Stores, Store, HubInv, TypeOK
  <2>2. feed[f].last \in Int /\ stream[i].lsn \in Nat
    <3>1. feed[f].last \in Places
      BY <2>1, FeedFields
    <3>2. i \in 1 .. Len(stream)
      BY <2>1
    <3> QED
      BY <2>1, <3>1, <3>2, BatchTypes DEF Places, NoLsn
  <2>3. stream[i].lsn > Start(feed[f])
    BY DEF Start
  <2>4. ~(\E k \in DOMAIN Pending(feed[f]) : Pending(feed[f])[k] = stream[i])
    <3> SUFFICES ASSUME NEW k \in DOMAIN Pending(feed[f]), Pending(feed[f])[k] = stream[i]
                 PROVE  FALSE
      OBVIOUS
    <3>1. Pending(feed[f])[k].lsn > feed[f].last
      BY <2>1 DEF Stocked
    <3> QED
      BY <2>2, <3>1
  <2>5. ~(stream[i].lsn > feed[f].last)
    BY <2>2
  <2> QED
    BY <2>1, <2>3, <2>4, <2>5 DEF Stocked
<1> QED
  BY <1>1, InitLive, StepLive, PTL DEF Spec

-----------------------------------------------------------------------------
(* Consumers: one that began at an LSN and never started over has every    *)
(* transaction up to its token.                                            *)

\* Items of the log, and the LSNs a crash spares, are numbers.
LEMMA TxsFacts ==
  ASSUME TypeOK
  PROVE  /\ \A t \in Txs : t \in Items /\ t.lsn \in Nat /\ t.id \in Ids /\ t.id \in Nat
         /\ \A t \in Txs : \E i \in DOMAIN log : t = log[i] /\ log[i].kind = "tx"
         /\ \A i \in DOMAIN log : log[i].kind = "tx" => log[i] \in Txs
         /\ Kept \in Int /\ next_lsn \in Nat /\ disk \in Nat /\ durable_lsn \in Nat
<1>1. log \in Seq(Items) /\ next_lsn \in Nat /\ disk \in Nat /\ durable_lsn \in Nat
  BY DEF TypeOK
<1>2. \A t \in Txs : \E i \in DOMAIN log : t = log[i] /\ log[i].kind = "tx"
  BY DEF Txs
<1>3. \A i \in DOMAIN log : log[i] \in Items
  BY <1>1
<1>4. \A t \in Items : t.lsn \in Nat /\ t.id \in Ids
  BY DEF Items
<1>5. Ids \subseteq Nat
  BY ChangeHubAssumption DEF Ids
<1>6. Kept \in Int
  BY <1>1 DEF Kept
<1>7. \A i \in DOMAIN log : log[i].kind = "tx" => log[i] \in Txs
  BY DEF Txs
<1> QED
  BY <1>1, <1>2, <1>3, <1>4, <1>5, <1>6, <1>7

LEMMA TxsSame ==
  ASSUME log' = log
  PROVE  Txs' = Txs /\ TxsGrow
  BY DEF Txs, TxsGrow

LEMMA TxsAppended ==
  ASSUME TypeOK, ids < MaxItems, NEW kind \in {"tx", "restore"}, NEW lsn \in Nat,
         log' = Append(log, Item(kind, lsn))
  PROVE  /\ \A t \in Txs' : \/ t \in Txs
                            \/ kind = "tx" /\ t.lsn = lsn /\ t.id = ids + 1
         /\ \A i \in DOMAIN log' : (i \in DOMAIN log /\ log'[i] = log[i]) \/ log'[i].lsn = lsn
<1>1. \A i \in DOMAIN log' :
        \/ i \in DOMAIN log /\ log'[i] = log[i]
        \/ /\ i = Len(log) + 1 /\ log'[i].kind = kind /\ log'[i].id = ids + 1
           /\ log'[i].lsn = lsn
  BY LogAppended
<1>2. ASSUME NEW t \in Txs' PROVE t \in Txs \/ (kind = "tx" /\ t.lsn = lsn /\ t.id = ids + 1)
  <2>1. PICK i \in DOMAIN log' : t = log'[i] /\ log'[i].kind = "tx"
    BY DEF Txs
  <2>2. i \in DOMAIN log /\ log'[i] = log[i] => t \in Txs
    BY <2>1 DEF Txs
  <2> QED
    BY <1>1, <2>1, <2>2
<1> QED
  BY <1>1, <1>2

\* Where the feeds and the batches of the hub are, between numbers.
LEMMA FeedPlaces ==
  ASSUME LiveInv, NEW f \in Feeds
  PROVE  /\ feed[f] \in FeedState /\ feed[f].last \in Int /\ token[f] \in Int
         /\ begun[f] \in Int /\ got[f] \in Seq(Delivered)
         /\ feed[f].after \in Nat /\ feed[f].upto \in Nat /\ feed[f].base \in Nat
         /\ feed[f].pos \in Nat /\ feed[f].from \in Nat /\ Start(feed[f]) \in Nat
         /\ feed[f].upto <= Start(feed[f]) /\ feed[f].after <= Start(feed[f])
         /\ last_lsn \in Nat /\ last_assigned \in Nat /\ last_lsn <= last_assigned
         /\ feed[f].status \in {"open", "lagged"} => Start(feed[f]) <= last_lsn
         /\ ~active => feed[f].status = "none"
<1>1. TypeOK /\ Modes /\ Numbers /\ Stores
  BY DEF LiveInv, HubInv
<1>2. feed[f] \in FeedState /\ token[f] \in Places /\ begun[f] \in Places
      /\ got[f] \in Seq(Delivered) /\ last_lsn \in Nat /\ last_assigned \in Nat
  BY <1>1 DEF TypeOK
<1>3. /\ feed[f].last \in Places /\ feed[f].after \in Nat /\ feed[f].upto \in Nat
      /\ feed[f].base \in Nat /\ feed[f].pos \in Nat /\ feed[f].from \in Nat
  BY <1>2, FeedFields
<1>4. \A p \in Places : p \in Int
  BY DEF Places, NoLsn
<1>5. /\ Start(feed[f]) \in Nat
      /\ feed[f].upto <= Start(feed[f]) /\ feed[f].after <= Start(feed[f])
  BY <1>3 DEF Start, Bigger
<1>6. feed[f].status \in {"open", "lagged"} => Start(feed[f]) <= last_lsn
  BY <1>1 DEF Stores, Store
<1>7. last_lsn <= last_assigned
  BY <1>1 DEF Numbers
<1>8. ~active => feed[f].status = "none"
  BY <1>1 DEF Modes
<1> QED
  BY <1>2, <1>3, <1>4, <1>5, <1>6, <1>7, <1>8

LEMMA BatchPlaces ==
  ASSUME HubInv
  PROVE  /\ stream \in Seq(Batch) /\ parked \in Seq(Waiting) /\ last_assigned \in Nat
         /\ DOMAIN stream = 1 .. Len(stream) /\ DOMAIN parked = 1 .. Len(parked)
         /\ Len(stream) \in Nat /\ Len(parked) \in Nat
         /\ \A i \in DOMAIN stream : stream[i].lsn \in Nat /\ stream[i].lsn <= last_assigned
         /\ \A k \in DOMAIN parked : /\ parked[k].batch.lsn \in Nat /\ parked[k].needs \in Nat
                                     /\ parked[k].batch.lsn <= last_assigned
         /\ ~active => stream = <<>> /\ parked = <<>>
<1>1. TypeOK /\ Modes /\ Numbers
  BY DEF HubInv
<1>2. stream \in Seq(Batch) /\ parked \in Seq(Waiting) /\ last_assigned \in Nat
  BY <1>1 DEF TypeOK
<1>3. /\ DOMAIN Announced = 1 .. Len(stream) + Len(parked)
      /\ Len(stream) \in Nat /\ Len(parked) \in Nat
      /\ \A k \in 1 .. Len(stream) : Announced[k] = stream[k]
      /\ \A k \in 1 .. Len(parked) : Announced[Len(stream) + k] = parked[k].batch
  BY <1>2, AnnouncedFacts
<1>4. DOMAIN stream = 1 .. Len(stream) /\ DOMAIN parked = 1 .. Len(parked)
  BY <1>2
<1>5. ASSUME NEW i \in DOMAIN stream PROVE stream[i].lsn \in Nat /\ stream[i].lsn <= last_assigned
  <2>1. i \in DOMAIN Announced /\ Announced[i] = stream[i]
    BY <1>3, <1>4
  <2>2. stream[i].lsn \in Nat
    BY <1>2, <1>4, BatchTypes
  <2> QED
    BY <1>1, <2>1, <2>2 DEF Numbers
<1>6. ASSUME NEW k \in DOMAIN parked
      PROVE  /\ parked[k].batch.lsn \in Nat /\ parked[k].needs \in Nat
             /\ parked[k].batch.lsn <= last_assigned
  <2>1. Len(stream) + k \in DOMAIN Announced /\ Announced[Len(stream) + k] = parked[k].batch
    BY <1>3, <1>4
  <2>2. parked[k] \in Waiting
    BY <1>2
  <2>3. parked[k].batch \in Batch /\ parked[k].needs \in Nat
    BY <2>2 DEF Waiting
  <2>4. parked[k].batch.lsn \in Nat
    BY <2>3 DEF Batch
  <2> QED
    BY <1>1, <2>1, <2>3, <2>4 DEF Numbers
<1> QED
  BY <1>1, <1>2, <1>3, <1>4, <1>5, <1>6 DEF Modes

-----------------------------------------------------------------------------
\* What is fenced stays so as more is kept and later transactions commit.
LEMMA FencedGrows ==
  ASSUME NEW l \in Int, NEW n \in Int, NEW m \in Int, n <= m, NEW T, NEW U, Fenced(l, n, T),
         \A t \in U : t.lsn \in Nat /\ (t \in T \/ t.lsn > l)
  PROVE  Fenced(l, m, U)
<1>1. l <= m + 2
  BY DEF Fenced
<1>2. ASSUME NEW t \in U, t.lsn <= l PROVE t.lsn <= m
  <2>1. t \in T /\ t.lsn \in Nat
    BY <1>2
  <2>2. t.lsn <= n
    BY <1>2, <2>1 DEF Fenced
  <2> QED
    BY <2>1, <2>2
<1> QED
  BY <1>1, <1>2 DEF Fenced

LEMMA AlikePlaced ==
  ASSUME NEW F, NEW G, Alike(G, F), NEW tok, NEW beg, NEW g, NEW old,
         Position(F, tok, beg, g), Replay(F, old)
  PROVE  Position(G, tok, beg, g) /\ Replay(G, old)
<1>1. /\ G.last = F.last /\ G.errored = F.errored /\ G.hist = F.hist /\ G.after = F.after
      /\ G.upto = F.upto /\ G.base = F.base /\ G.pos = F.pos /\ G.from = F.from
  BY DEF Alike
<1>2. G.status = "none" <=> F.status = "none"
  BY DEF Alike
<1>3. G.status = "closed" => F.status = "closed"
  BY DEF Alike
<1>4. Position(G, tok, beg, g)
  BY <1>1, <1>2, <1>3 DEF Position
<1>5. Replay(G, old)
  BY <1>1, <1>2 DEF Replay
<1> QED
  BY <1>4, <1>5

LEMMA AlikeGap ==
  ASSUME NEW F, NEW G, Alike(G, F), NEW T, NEW U, NEW mark \in Nat,
         NoGap(F, T, mark), Start(F) \in Nat, F.last \in Int,
         \A t \in U : t.lsn \in Nat /\ t.id \in Nat,
         \A t \in U : t \in T \/ (t.id > mark /\ (F.errored \/ t.lsn > Start(F)))
  PROVE  NoGap(G, U, mark)
<1>1. /\ G.last = F.last /\ G.errored = F.errored /\ G.hist = F.hist
      /\ Start(G) = Start(F) /\ (G.status = "none" <=> F.status = "none")
  BY DEF Alike, Start
<1>2. SUFFICES ASSUME F.status # "none" PROVE NoGap(G, U, mark)
  BY <1>1 DEF NoGap
<1>3. ASSUME NEW t \in U, t.id <= mark PROVE t.lsn <= Start(F)
  <2>1. t \in T
    BY <1>3
  <2> QED
    BY <1>2, <1>3, <2>1 DEF NoGap
<1>4. ASSUME F.hist = "no", ~F.errored, F.last # NoLsn, NEW t \in U
      PROVE  t.lsn <= F.last \/ t.lsn > Start(F)
  BY <1>2, <1>4 DEF NoGap
<1> QED
  BY <1>1, <1>3, <1>4 DEF NoGap

\* Consumers' places survive what the hub and the WAL do.
Skipless(tok, beg, g, T) ==
  g # <<>> => \A t \in T :
    t.lsn > (IF beg = 0 THEN 0 ELSE g[1].lsn) /\ t.lsn <= tok
    => \E k \in DOMAIN g : g[k].id = t.id

LEMMA SkiplessAll ==
  NothingSkipped <=> \A f \in Feeds : Skipless(token[f], begun[f], got[f], Txs)
  BY DEF NothingSkipped, Skipless

LEMMA FeedsKept ==
  ASSUME LiveInv, Resumes, NothingSkipped, FeedsSecured, TypeOK', UNCHANGED eaten,
         \A f \in Feeds : Alike(feed'[f], feed[f]),
         since' = since \/ ~active, TxsGrow,
         oldest' = oldest \/ \A f \in Feeds : ~Replaying(f),
         wal_backed' = wal_backed, disk' >= disk, next_lsn' >= next_lsn
  PROVE  Resumes' /\ NothingSkipped' /\ FeedsSecured'
<1>1. TypeOK
  BY DEF LiveInv, HubInv
<1>2. /\ \A t \in Txs : t.lsn \in Nat /\ t.id \in Nat
      /\ Kept \in Int /\ next_lsn \in Nat /\ disk \in Nat
  BY <1>1, TxsFacts
<1>3. (TypeOK => Kept \in Int /\ next_lsn \in Nat /\ disk \in Nat)'
  BY TxsFacts, PTL
<1>4. /\ Kept' \in Int /\ Kept' >= Kept
      /\ \A t \in Txs' : t.lsn \in Nat /\ t.id \in Nat
  BY <1>2, <1>3 DEF TxsGrow, Beyond, Kept
<1>5. token' = token /\ begun' = begun /\ got' = got
  BY DEF eaten
<1>6. since \in Nat
  BY <1>1 DEF TypeOK
<1>7. ASSUME NEW f \in Feeds
      PROVE  /\ Position(feed'[f], token'[f], begun'[f], got'[f])
             /\ Replay(feed'[f], oldest') /\ NoGap(feed'[f], Txs', since')
             /\ Skipless(token'[f], begun'[f], got'[f], Txs')
             /\ wal_backed => Seen(feed'[f], token'[f], Kept', Txs')
  <2> DEFINE F == feed[f]
             G == feed'[f]
  <2>1. /\ Position(F, token[f], begun[f], got[f]) /\ Replay(F, oldest)
        /\ NoGap(F, Txs, since) /\ Alike(G, F)
    BY DEF Resumes
  <2>2. Skipless(token[f], begun[f], got[f], Txs)
    BY SkiplessAll
  <2>3. wal_backed => Seen(F, token[f], Kept, Txs)
    BY DEF FeedsSecured
  <2>4. /\ F.last \in Int /\ token[f] \in Int /\ F.upto \in Nat /\ F.upto <= Start(F)
        /\ Start(F) \in Nat /\ last_lsn \in Nat /\ last_assigned \in Nat
        /\ last_lsn <= last_assigned
        /\ F.status \in {"open", "lagged"} => Start(F) <= last_lsn
        /\ ~active => F.status = "none"
        /\ F.status \in {"none", "open", "lagged", "closed"}
    BY FeedPlaces, FeedFields DEF Statuses
  <2>5. oldest' = oldest \/ F.hist # "planned" \/ F.errored
    BY DEF Replaying
  <2>5a. F.status = "none" => F.hist = "no"
    <3>1. F.status = "none" => F = NoFeed
      BY DEF LiveInv, HubInv, Modes
    <3> QED
      BY <3>1, NoFeedFields
  <2> HIDE DEF F, G
  <2>6. Replay(F, oldest')
    BY <2>1, <2>5 DEF Replay
  <2>7. Position(G, token'[f], begun'[f], got'[f]) /\ Replay(G, oldest')
    BY <1>5, <2>1, <2>6, AlikePlaced
  <2>8. ASSUME NEW t \in Txs', ~F.errored, F.status # "none", t \notin Txs
        PROVE  t.lsn > Start(F)
    <3>1. F.status \in {"open", "lagged"} /\ active
      BY <2>1, <2>4, <2>8 DEF Position
    <3>2. Beyond(t)
      BY <2>8 DEF TxsGrow
    <3> QED
      BY <2>4, <3>1, <3>2 DEF Beyond
  <2>9. NoGap(G, Txs', since')
    <3>1. CASE F.status = "none"
      BY <2>1, <3>1 DEF NoGap, Alike
    <3>2. CASE F.status # "none"
      <4>1. active /\ since' = since
        BY <2>4, <3>2
      <4>2. \A t \in Txs' : t \in Txs \/ (t.id > since /\ (F.errored \/ t.lsn > Start(F)))
        BY <2>8, <3>2, <4>1 DEF TxsGrow, Beyond
      <4> DEFINE T == Txs
                 U == Txs'
      <4>3. /\ NoGap(F, T, since) /\ \A t \in U : t.lsn \in Nat /\ t.id \in Nat
            /\ \A t \in U : t \in T \/ (t.id > since /\ (F.errored \/ t.lsn > Start(F)))
        BY <1>4, <2>1, <4>2
      <4> HIDE DEF T, U
      <4>4. NoGap(G, U, since)
        BY <1>6, <2>1, <2>4, <4>3, AlikeGap
      <4> QED
        BY <4>1, <4>4 DEF U
    <3> QED
      BY <3>1, <3>2
  <2>10. \A t \in Txs' : t \in Txs \/ t.lsn > token[f]
    BY DEF TxsGrow, Beyond
  <2>11. Skipless(token'[f], begun'[f], got'[f], Txs')
    <3>1. ASSUME NEW t \in Txs', t.lsn <= token[f] PROVE t \in Txs
      BY <1>4, <2>4, <2>10, <3>1
    <3> QED
      BY <1>5, <2>2, <3>1 DEF Skipless
  <2>12. ASSUME wal_backed PROVE Seen(G, token'[f], Kept', Txs')
    <3> DEFINE tok == token[f]
               n == Kept
               m == Kept'
               T == Txs
               U == Txs'
    <3>1. Seen(F, tok, n, T) /\ n \in Int /\ m \in Int /\ n <= m /\ tok \in Int
      BY <1>2, <1>4, <2>3, <2>4, <2>12
    <3>2. \A t \in U : t.lsn \in Nat /\ (t \in T \/ t.lsn > tok)
      BY <1>4, <2>10
    <3>3. F.hist = "running" /\ ~F.errored =>
            \A t \in U : t.lsn \in Nat /\ (t \in T \/ t.lsn > F.upto)
      BY <1>4, <2>4, <2>5a, <2>8
    <3>4. token'[f] = tok
      BY <1>5
    <3> HIDE DEF tok, n, m, T, U
    <3>5. Fenced(tok, m, U)
      BY <3>1, <3>2, FencedGrows DEF Seen
    <3>6. F.hist = "running" /\ ~F.errored => Fenced(F.upto, m, U)
      <4> SUFFICES ASSUME F.hist = "running", ~F.errored PROVE Fenced(F.upto, m, U)
        OBVIOUS
      <4>1. Fenced(F.upto, n, T) /\ F.upto \in Int
        BY <2>4, <3>1 DEF Seen
      <4> QED
        BY <3>1, <3>3, <4>1, FencedGrows
    <3>7. G.hist = F.hist /\ G.errored = F.errored /\ G.upto = F.upto
      BY <2>1 DEF Alike
    <3>8. Seen(G, tok, m, U)
      BY <3>5, <3>6, <3>7 DEF Seen
    <3> QED
      BY <3>4, <3>8 DEF m, U
  <2> QED
    BY <2>7, <2>9, <2>11, <2>12 DEF G
<1>8. Resumes'
  BY <1>7 DEF Resumes, Position, Replay, NoGap, Start
<1>9. NothingSkipped'
  BY <1>7 DEF NothingSkipped, Skipless
<1>10. FeedsSecured'
  BY <1>7 DEF FeedsSecured, Seen, Fenced
<1> QED
  BY <1>8, <1>9, <1>10

-----------------------------------------------------------------------------
LEMMA KeptGrows ==
  ASSUME TypeOK, TypeOK', disk' >= disk, next_lsn' >= next_lsn
  PROVE  Kept \in Int /\ Kept' \in Int /\ Kept' >= Kept
<1>1. Kept \in Int /\ next_lsn \in Nat /\ disk \in Nat
  BY TxsFacts
<1>2. (TypeOK => Kept \in Int /\ next_lsn \in Nat /\ disk \in Nat)'
  BY TxsFacts, PTL
<1> QED
  BY <1>1, <1>2 DEF Kept

\* No more is durable than is kept, where every fsync reaches the storage.
LEMMA DurableKept ==
  ASSUME HubInv, HubInv', wal_backed, HubSecured, disk' >= disk, next_lsn' >= next_lsn,
         durable_lsn' = durable_lsn \/ durable_lsn' <= disk'
  PROVE  durable_lsn' <= Kept'
<1>1. TypeOK /\ TypeOK' /\ WalOrder'
  BY DEF HubInv
<1>2. Kept \in Int /\ Kept' \in Int /\ Kept' >= Kept
  BY <1>1, KeptGrows
<1>3. durable_lsn' \in Nat /\ disk' \in Nat /\ next_lsn' \in Nat
  BY <1>1 DEF TypeOK
<1>4. CASE durable_lsn' = durable_lsn
  <2>1. durable_lsn <= Kept
    BY DEF HubSecured
  <2> QED
    BY <1>2, <1>3, <1>4, <2>1
<1>5. CASE durable_lsn' <= disk'
  <2>1. durable_lsn' < next_lsn'
    BY <1>1 DEF WalOrder
  <2>2. Kept' = disk' \/ Kept' = next_lsn' - 1
    BY DEF Kept
  <2> QED
    BY <1>3, <1>5, <2>1, <2>2
<1> QED
  BY <1>4, <1>5

\* Steps that release and park nothing.
LEMMA HubSecuredKept ==
  ASSUME HubInv, HubInv', HubSecured, TxsGrow,
         UNCHANGED <<stream, parked, wal_backed>>, disk' >= disk, next_lsn' >= next_lsn,
         durable_lsn' = durable_lsn \/ durable_lsn' <= disk'
  PROVE  HubSecured'
<1> SUFFICES ASSUME wal_backed PROVE HubSecured'
  BY DEF HubSecured
<1>1. TypeOK /\ TypeOK'
  BY DEF HubInv
<1>2. Kept \in Int /\ Kept' \in Int /\ Kept' >= Kept
  BY <1>1, KeptGrows
<1>3. \A t \in Txs' : t.lsn \in Nat
  BY <1>1, TxsFacts DEF TxsGrow, Beyond
<1>4. durable_lsn' <= Kept'
  BY DurableKept
<1>5. /\ \A i \in DOMAIN stream : stream[i].lsn \in Nat /\ stream[i].lsn <= last_assigned
      /\ \A k \in DOMAIN parked : /\ parked[k].batch.lsn \in Nat /\ parked[k].needs \in Nat
                                  /\ parked[k].batch.lsn <= last_assigned
      /\ last_assigned \in Nat
      /\ ~active => stream = <<>> /\ parked = <<>>
  BY BatchPlaces
<1>6. ASSUME NEW l \in Nat, l <= last_assigned, active, NEW t \in Txs'
      PROVE  t.lsn \in Nat /\ (t \in Txs \/ t.lsn > l)
  BY <1>3, <1>5, <1>6 DEF TxsGrow, Beyond
<1> DEFINE T == Txs
           U == Txs'
           m == Kept'
           n == Kept
<1>7. ASSUME NEW i \in DOMAIN stream PROVE Fenced(stream[i].lsn, m, U)
  <2>1. active
    BY <1>5, <1>7
  <2>2. stream[i].lsn \in Nat /\ stream[i].lsn <= last_assigned
    BY <1>5
  <2>3. \A t \in U : t.lsn \in Nat /\ (t \in T \/ t.lsn > stream[i].lsn)
    BY <1>6, <2>1, <2>2
  <2>4. Fenced(stream[i].lsn, n, T) /\ n \in Int /\ m \in Int /\ n <= m
    BY <1>2 DEF HubSecured
  <2> HIDE DEF T, U, n, m
  <2> QED
    BY <2>2, <2>3, <2>4, FencedGrows
<1>8. ASSUME NEW k \in DOMAIN parked PROVE Fenced(parked[k].batch.lsn, parked[k].needs, U)
  <2>1. active
    BY <1>5, <1>8
  <2>2. /\ parked[k].batch.lsn \in Nat /\ parked[k].needs \in Nat
        /\ parked[k].batch.lsn <= last_assigned
    BY <1>5
  <2>3. \A t \in U : t.lsn \in Nat /\ (t \in T \/ t.lsn > parked[k].batch.lsn)
    BY <1>6, <2>1, <2>2
  <2>4. Fenced(parked[k].batch.lsn, parked[k].needs, T) /\ parked[k].needs <= parked[k].needs
    BY <2>2 DEF HubSecured
  <2> HIDE DEF T, U
  <2> QED
    BY <2>2, <2>3, <2>4, FencedGrows
<1> QED
  BY <1>4, <1>7, <1>8 DEF HubSecured, Fenced

\* Steps after which nothing less is announced.
LEMMA CapturedKept ==
  ASSUME TypeOK, TypeOK', Captured, active' = active, since' = since, ids' >= ids,
         ring_floor' >= ring_floor,
         \A t \in Txs' : t \in Txs \/ (active => Told(t)'),
         \A k \in DOMAIN Announced : k \in DOMAIN Announced' /\ Announced'[k] = Announced[k],
         \/ writer' = writer
         \/ writer.at # "publish"
         \/ \E k \in DOMAIN Announced' : /\ Announced'[k].id = writer.id
                                         /\ Announced'[k].lsn = writer.lsn
  PROVE  Captured'
<1>1. since \in Nat /\ ids \in Nat /\ ids' \in Nat /\ ring_floor \in Nat /\ ring_floor' \in Nat
  BY ChangeHubAssumption DEF TypeOK
<1>2. since' <= ids'
  BY <1>1 DEF Captured
<1>3. ASSUME active, NEW t \in Txs PROVE Told(t)'
  <2>1. Told(t) /\ t.lsn \in Nat
    BY <1>3, TxsFacts DEF Captured
  <2>2. CASE t.id > since
    <3>1. CASE \E k \in DOMAIN Announced : Announced[k].lsn = t.lsn /\ Announced[k].id = t.id
      <4>1. PICK k \in DOMAIN Announced : Announced[k].lsn = t.lsn /\ Announced[k].id = t.id
        BY <3>1
      <4>2. k \in DOMAIN Announced' /\ Announced'[k].lsn = t.lsn /\ Announced'[k].id = t.id
        BY <4>1
      <4> QED
        BY <2>2, <4>2 DEF Told
    <3>2. CASE writer.at = "publish" /\ writer.id = t.id /\ writer.lsn = t.lsn
      BY <2>2, <3>2 DEF Told
    <3> QED
      BY <2>1, <2>2, <3>1, <3>2 DEF Told
  <2>3. CASE ~(t.id > since)
    BY <1>1, <2>1, <2>3 DEF Told
  <2> QED
    BY <2>2, <2>3
<1>4. active => \A t \in Txs' : Told(t)'
  BY <1>3
<1> QED
  BY <1>2, <1>4 DEF Captured, Told

\* The window never reaches further back again.
LEMMA FloorGrows ==
  ASSUME NEW R \in Seq(Batch), NEW S \in Seq(Batch), NEW fl \in Nat, NEW limit \in Nat,
         EndOf(R, S, fl)
  PROVE  FloorAfter(R, limit, fl) >= fl
<1>1. PICK n \in 0 .. Len(R) : FloorAfter(R, limit, fl) = IF n = 0 THEN fl ELSE R[n].lsn
  BY TrimFacts
<1>2. Len(R) \in Nat /\ Len(S) \in Nat /\ Len(R) <= Len(S)
      /\ DOMAIN R = 1 .. Len(R) /\ DOMAIN S = 1 .. Len(S)
  BY DEF EndOf
<1>3. CASE n # 0
  <2>1. n \in DOMAIN R /\ Len(S) - Len(R) + n \in DOMAIN S /\ Len(S) - Len(R) + n > Len(S) - Len(R)
    BY <1>2, <1>3
  <2>2. R[n] = S[Len(S) - Len(R) + n]
    BY <2>1 DEF EndOf
  <2>3. S[Len(S) - Len(R) + n].lsn > fl
    BY <2>1 DEF EndOf
  <2>4. R[n].lsn \in Nat
    BY <1>2, <2>1, BatchTypes
  <2> QED
    BY <1>1, <1>3, <2>2, <2>3, <2>4
<1> QED
  BY <1>1, <1>3

LEMMA ReleaseFloor ==
  ASSUME HubInv, Window, NEW bs \in Seq(Batch), Release(bs),
         \A k \in 1 .. Len(bs) : bs[k].lsn > last_lsn
  PROVE  ring_floor' >= ring_floor
<1>1. /\ stream \in Seq(Batch) /\ ring \in Seq(Batch)
      /\ last_lsn \in Nat /\ ring_floor \in Nat
  BY StreamFacts
<1>2. /\ ring \o bs \in Seq(Batch) /\ stream \o bs \in Seq(Batch)
      /\ ring_floor' = FloorAfter(ring \o bs, retention, ring_floor)
      /\ retention \in Nat
  BY <1>1, ReleaseFacts, ChangeHubAssumption DEF HubInv, TypeOK
<1>3. ring_floor <= last_lsn /\ EndOf(ring, stream, ring_floor)
  BY DEF Window
<1>4. \A k \in 1 .. Len(bs) : bs[k].lsn > ring_floor
  <2> TAKE k \in 1 .. Len(bs)
  <2>1. bs[k].lsn \in Nat /\ bs[k].lsn > last_lsn
    BY BatchTypes
  <2> QED
    BY <1>1, <1>3, <2>1
<1>5. EndOf(ring \o bs, stream \o bs, ring_floor)
  BY <1>1, <1>3, <1>4, WindowReleased
<1> DEFINE R == ring \o bs
           S == stream \o bs
<1>6. R \in Seq(Batch) /\ S \in Seq(Batch) /\ EndOf(R, S, ring_floor)
  BY <1>2, <1>5
<1> HIDE DEF R, S
<1>7. FloorAfter(R, retention, ring_floor) >= ring_floor
  BY <1>1, <1>2, <1>6, FloorGrows
<1> QED
  BY <1>2, <1>7 DEF R

-----------------------------------------------------------------------------
(* Publishing and releasing.                                               *)

\* A batch that a feed is pushed leaves it in its place.
LEMMA ReleaseAlike ==
  ASSUME TypeOK, NEW bs \in Seq(Batch), Release(bs)
  PROVE  \A f \in Feeds : Alike(feed'[f], feed[f])
<1> SUFFICES ASSUME NEW f \in Feeds PROVE Alike(feed'[f], feed[f])
  OBVIOUS
<1> DEFINE F == feed[f]
           G == feed'[f]
<1>1. F \in FeedState /\ G = Push(F, bs)
  BY ReleaseFacts DEF TypeOK
<1> HIDE DEF F, G
<1>2. /\ G.errored = F.errored /\ G.hist = F.hist /\ G.base = F.base /\ G.last = F.last
      /\ G.pos = F.pos /\ G.from = F.from /\ G.after = F.after /\ G.upto = F.upto
  BY <1>1, PushKeeps
<1>3. G = F \/ (F.status = "open" /\ G.status \in {"open", "lagged"})
  BY <1>1, PushStatus
<1>4. Alike(G, F)
  BY <1>2, <1>3 DEF Alike
<1> QED
  BY <1>4 DEF F, G

LEMMA SameAlike ==
  ASSUME UNCHANGED feed PROVE \A f \in Feeds : Alike(feed'[f], feed[f])
  BY DEF Alike

\* What publish_when_durable does to the window, the feeds and what is secured.
LEMMA PublishFloor ==
  ASSUME HubInv, Window, NEW lsn \in Nat, NEW id \in Ids, NEW needs \in Nat, active,
         publish_when_durable(lsn, id, needs), lsn > last_assigned
  PROVE  ring_floor' >= ring_floor /\ \A f \in Feeds : Alike(feed'[f], feed[f])
<1> DEFINE b == [lsn |-> lsn, id |-> id]
           bs == <<b>>
<1>1. TypeOK /\ Modes /\ Numbers /\ ring_floor \in Nat
      /\ last_lsn \in Nat /\ last_assigned \in Nat /\ last_lsn <= last_assigned
  BY DEF HubInv, TypeOK, Numbers
<1>2. \/ UNCHANGED <<ring_floor, feed>>
      \/ Release(bs) /\ bs \in Seq(Batch)
  BY <1>1, PublishFacts DEF hub, SendsOn, Parks
<1>3. CASE UNCHANGED <<ring_floor, feed>>
  BY <1>1, <1>3, SameAlike
<1>4. CASE Release(bs) /\ bs \in Seq(Batch)
  <2>1. \A k \in 1 .. Len(bs) : bs[k].lsn > last_lsn
    BY <1>1
  <2> HIDE DEF bs
  <2> QED
    BY <1>1, <1>4, <2>1, ReleaseFloor, ReleaseAlike
<1> QED
  BY <1>2, <1>3, <1>4

\* Released batches that are within what is kept.
LEMMA HubSecuredReleased ==
  ASSUME HubInv, HubInv', HubSecured, wal_backed, log' = log, wal_backed' = wal_backed,
         UNCHANGED wal, NEW bs \in Seq(Batch), stream' = stream \o bs,
         \A k \in 1 .. Len(bs) : Fenced(bs[k].lsn, Kept, Txs),
         \A k \in DOMAIN parked' : Fenced(parked'[k].batch.lsn, parked'[k].needs, Txs)
  PROVE  HubSecured'
<1>1. Txs' = Txs /\ Kept' = Kept /\ durable_lsn' = durable_lsn
  BY TxsSame DEF wal, Kept
<1>2. stream \in Seq(Batch) /\ DOMAIN stream = 1 .. Len(stream)
  BY BatchPlaces
<1>3. /\ DOMAIN stream' = 1 .. Len(stream) + Len(bs) /\ Len(stream) \in Nat /\ Len(bs) \in Nat
      /\ \A k \in 1 .. Len(stream) : stream'[k] = stream[k]
      /\ \A k \in 1 .. Len(bs) : stream'[Len(stream) + k] = bs[k]
  BY <1>2, JoinFacts
<1>4. ASSUME NEW i \in DOMAIN stream' PROVE Fenced(stream'[i].lsn, Kept, Txs)
  <2>1. CASE i <= Len(stream)
    <3>1. i \in DOMAIN stream /\ stream'[i] = stream[i]
      BY <1>2, <1>3, <2>1
    <3> QED
      BY <3>1 DEF HubSecured
  <2>2. CASE ~(i <= Len(stream))
    <3>1. i - Len(stream) \in 1 .. Len(bs) /\ Len(stream) + (i - Len(stream)) = i
      BY <1>3, <2>2
    <3>2. stream'[i] = bs[i - Len(stream)]
      BY <1>3, <3>1
    <3> QED
      BY <3>1, <3>2
  <2> QED
    BY <2>1, <2>2
<1> QED
  BY <1>1, <1>4 DEF HubSecured, Fenced

LEMMA HubSecuredPublished ==
  ASSUME HubInv, HubInv', HubSecured, wal_backed, log' = log, wal_backed' = wal_backed,
         UNCHANGED wal, NEW lsn \in Nat, NEW id \in Ids, NEW needs \in Nat, active,
         publish_when_durable(lsn, id, needs), Fenced(lsn, needs, Txs)
  PROVE  HubSecured'
<1> DEFINE b == [lsn |-> lsn, id |-> id]
           bs == <<b>>
<1>0. TypeOK /\ Modes /\ Hears /\ TypeOK'
  BY DEF HubInv
<1>1. \/ UNCHANGED <<stream, parked>>
      \/ /\ parked = <<>> /\ UNCHANGED parked /\ Release(bs) /\ MayRelease(needs)
         /\ bs \in Seq(Batch)
      \/ /\ [needs |-> needs, batch |-> b] \in Waiting
         /\ parked' = Append(parked, [needs |-> needs, batch |-> b])
         /\ UNCHANGED stream
  BY <1>0, PublishFacts DEF hub, SendsOn, Parks
<1>2. /\ \A t \in Txs : t.lsn \in Nat
      /\ Kept \in Int /\ durable_lsn \in Nat /\ durable \in Nat
  BY <1>0, TxsFacts DEF TypeOK
<1>3. \A k \in DOMAIN parked : Fenced(parked[k].batch.lsn, parked[k].needs, Txs)
  BY DEF HubSecured
<1>4. CASE UNCHANGED <<stream, parked>>
  <2>1. /\ TxsGrow /\ UNCHANGED <<disk, next_lsn, durable_lsn>>
        /\ disk \in Nat /\ next_lsn \in Nat
    BY <1>0, TxsSame, TxsFacts DEF wal
  <2>2. disk' >= disk /\ next_lsn' >= next_lsn
    BY <2>1
  <2> QED
    BY <1>4, <2>1, <2>2, HubSecuredKept
<1>5. CASE /\ parked = <<>> /\ UNCHANGED parked /\ Release(bs) /\ MayRelease(needs)
           /\ bs \in Seq(Batch)
  <2>1. needs <= durable
    BY <1>0, <1>5 DEF MayRelease, Modes
  <2>2. durable <= durable_lsn /\ durable_lsn <= Kept
    BY <1>0 DEF Hears, HubSecured
  <2>3. needs <= Kept
    BY <1>2, <2>1, <2>2
  <2> DEFINE T == Txs
             n == Kept
  <2>4. Fenced(lsn, needs, T) /\ n \in Int /\ needs <= n /\ \A t \in T : t.lsn \in Nat
    BY <1>2, <2>3
  <2>5. \A k \in 1 .. Len(bs) : bs[k].lsn = lsn
    OBVIOUS
  <2> HIDE DEF T, n, bs
  <2>6. Fenced(lsn, n, T)
    BY <2>4, FencedGrows
  <2>7. \A k \in 1 .. Len(bs) : Fenced(bs[k].lsn, Kept, Txs)
    BY <2>5, <2>6 DEF T, n
  <2>8. stream' = stream \o bs
    BY <1>0, <1>5, ReleaseFacts
  <2>9. \A k \in DOMAIN parked' : Fenced(parked'[k].batch.lsn, parked'[k].needs, Txs)
    BY <1>3, <1>5
  <2> QED
    BY <1>5, <2>7, <2>8, <2>9, HubSecuredReleased
<1>6. CASE /\ [needs |-> needs, batch |-> b] \in Waiting
           /\ parked' = Append(parked, [needs |-> needs, batch |-> b])
           /\ UNCHANGED stream
  <2> DEFINE w == [needs |-> needs, batch |-> b]
             e == <<>>
  <2>1. w \in Waiting /\ parked' = Append(parked, w) /\ w.batch.lsn = lsn /\ w.needs = needs
    BY <1>6
  <2>2. parked \in Seq(Waiting) /\ stream \in Seq(Batch)
    BY <1>0 DEF TypeOK
  <2> HIDE DEF w
  <2>3. /\ DOMAIN parked' = 1 .. Len(parked) + 1 /\ DOMAIN parked = 1 .. Len(parked)
        /\ Len(parked) \in Nat
        /\ \A k \in 1 .. Len(parked) : parked'[k] = parked[k]
        /\ parked'[Len(parked) + 1] = w
    BY <2>1, <2>2, AppendFacts
  <2>4. ASSUME NEW k \in DOMAIN parked'
        PROVE  Fenced(parked'[k].batch.lsn, parked'[k].needs, Txs)
    <3>1. k \in 1 .. Len(parked) \/ k = Len(parked) + 1
      BY <2>3
    <3> QED
      BY <1>3, <2>1, <2>3, <3>1
  <2>5. e \in Seq(Batch) /\ Len(e) = 0 /\ stream' = stream \o e
    BY <1>6, <2>2
  <2> HIDE DEF e
  <2>6. \A k \in 1 .. Len(e) : Fenced(e[k].lsn, Kept, Txs)
    BY <2>5
  <2> QED
    BY <2>4, <2>5, <2>6, HubSecuredReleased
<1> QED
  BY <1>1, <1>4, <1>5, <1>6

-----------------------------------------------------------------------------
(* The steps of the writers, the fsyncs and the hub.                       *)

Rest == Captured /\ Secured /\ Resumes /\ NothingSkipped /\ ~closed

LEMMA RestParts ==
  Rest <=> /\ Captured /\ HubSecured /\ FeedsSecured /\ MemorySecured
           /\ Resumes /\ NothingSkipped /\ ~closed
  BY DEF Rest, Secured

\* Steps that touch neither the history nor the hub's batches nor a consumer's place.
LEMMA AlikeRest ==
  ASSUME LiveInv, LiveInv', Rest,
         UNCHANGED <<log, ids, stream, parked, eaten, since, active, closed,
                     wal_backed, last_assigned>>,
         \A f \in Feeds : Alike(feed'[f], feed[f]), ring_floor' >= ring_floor,
         writer' = writer \/ writer.at # "publish",
         disk' >= disk, next_lsn' >= next_lsn,
         durable_lsn' = durable_lsn \/ durable_lsn' <= disk',
         oldest' = oldest \/ \A f \in Feeds : ~Replaying(f)
  PROVE  Rest'
<1>1. HubInv /\ HubInv' /\ TypeOK /\ TypeOK'
  BY DEF LiveInv, HubInv
<1>2. TxsGrow /\ Txs' = Txs
  BY TxsSame
<1>3. /\ Captured /\ HubSecured /\ FeedsSecured /\ MemorySecured
      /\ Resumes /\ NothingSkipped /\ ~closed
  BY RestParts
<1>4. Captured'
  <2>1. Announced' = Announced
    BY AnnouncedKept
  <2>2. ids \in Nat
    BY <1>1, ChangeHubAssumption DEF TypeOK
  <2>3. ids' >= ids
    BY <2>2
  <2> QED
    BY <1>1, <1>2, <1>3, <2>1, <2>3, CapturedKept
<1>5. HubSecured'
  BY <1>1, <1>2, <1>3, HubSecuredKept
<1>6. Resumes' /\ NothingSkipped' /\ FeedsSecured'
  BY <1>1, <1>2, <1>3, FeedsKept
<1>7. MemorySecured'
  BY <1>3 DEF MemorySecured, eaten
<1> QED
  BY <1>3, <1>4, <1>5, <1>6, <1>7 DEF Rest, Secured

\* Steps that touch neither the history nor the hub nor a consumer.
LEMMA QuietRest ==
  ASSUME LiveInv, LiveInv', Rest,
         UNCHANGED <<log, ids, stream, parked, feed, eaten, since, active, closed,
                     wal_backed, last_assigned>>,
         ring_floor' >= ring_floor,
         writer' = writer \/ writer.at # "publish",
         disk' >= disk, next_lsn' >= next_lsn,
         durable_lsn' = durable_lsn \/ durable_lsn' <= disk',
         oldest' = oldest \/ \A f \in Feeds : ~Replaying(f)
  PROVE  Rest'
  BY SameAlike, AlikeRest

LEMMA CheckpointQuiet ==
  ASSUME HubInv, NEW has \in SUBSET Ids, checkpoint(has), "truncate_replay" \notin Ops
  PROVE  /\ disk' >= disk /\ next_lsn' >= next_lsn /\ durable_lsn' <= disk'
         /\ oldest' = oldest \/ \A f \in Feeds : ~Replaying(f)
<1>1. TypeOK /\ WalOrder
  BY DEF HubInv
<1>2. /\ next_lsn' \in Nat /\ next_lsn' >= next_lsn
      /\ durable_lsn' \in Nat /\ disk' \in Nat
      /\ durable_lsn' = next_lsn' - 1 /\ disk' = next_lsn' - 1
  BY <1>1, CheckpointFacts
<1>3. next_lsn \in Nat /\ disk \in Nat /\ durable_lsn \in Nat
      /\ disk <= durable_lsn /\ durable_lsn < next_lsn
  BY <1>1 DEF TypeOK, WalOrder
<1>4. oldest' = oldest \/ \A f \in Feeds : ~Replaying(f)
  BY DEF checkpoint, MayTruncate, May
<1>5. durable_lsn' <= disk'
  <2>1. durable_lsn' = disk' /\ disk' \in Nat
    BY <1>2
  <2> QED
    BY <2>1
<1>6. disk' >= disk
  <2>1. PICK n \in Nat : n >= next_lsn /\ disk' = n - 1
    BY <1>2
  <2>2. n - 1 >= disk
    BY <1>3, <2>1
  <2> QED
    BY <2>1, <2>2
<1> QED
  BY <1>2, <1>4, <1>5, <1>6

LEMMA QuietStepsRest ==
  ASSUME LiveInv, LiveInv', Rest, "truncate_replay" \notin Ops,
         \/ CatalogCommit \/ Fsync \/ FsyncFails \/ ActivateRead \/ Checkpoint
         \/ UNCHANGED vars
  PROVE  Rest'
<1>1. HubInv /\ TypeOK /\ WalOrder
  BY DEF LiveInv, HubInv
<1>2. /\ next_lsn \in Nat /\ disk \in Nat /\ durable_lsn \in Nat /\ ring_floor \in Nat
      /\ disk <= durable_lsn /\ durable_lsn < next_lsn
  BY <1>1 DEF TypeOK, WalOrder
<1>3. UNCHANGED <<log, ids, stream, parked, feed, eaten, since, active, closed, ring_floor,
                  wal_backed, last_assigned>>
  BY DEF CatalogCommit, Fsync, FsyncFails, ActivateRead, Checkpoint, vars, hub, process
<1>3a. ring_floor' >= ring_floor
  BY <1>2, <1>3
<1>4. writer' = writer \/ writer.at # "publish"
  BY DEF CatalogCommit, Fsync, FsyncFails, ActivateRead, Checkpoint, vars
<1>5. CASE Checkpoint
  <2>1. checkpoint(GraphAt(Len(log)))
    BY <1>5 DEF Checkpoint
  <2>2. GraphAt(Len(log)) \in SUBSET Ids
    <3>1. log \in Seq(Items) /\ Len(log) \in Nat
      BY <1>1 DEF TypeOK
    <3>2. \A i \in 1 .. Len(log) : log[i] \in Items
      BY <3>1
    <3>3. \A i \in 1 .. Len(log) : log[i].id \in Ids
      BY <3>2 DEF Items
    <3> QED
      BY <3>3 DEF GraphAt
  <2> DEFINE has == GraphAt(Len(log))
  <2>3. has \in SUBSET Ids /\ checkpoint(has)
    BY <2>1, <2>2
  <2> HIDE DEF has
  <2>4. /\ disk' >= disk /\ next_lsn' >= next_lsn /\ durable_lsn' <= disk'
        /\ oldest' = oldest \/ \A f \in Feeds : ~Replaying(f)
    BY <1>1, <2>3, CheckpointQuiet
  <2> QED
    BY <1>3, <1>3a, <1>4, <2>4, QuietRest
<1>6. CASE CatalogCommit \/ FsyncFails \/ ActivateRead \/ UNCHANGED vars
  <2>1. UNCHANGED <<disk, durable_lsn, oldest>>
    BY <1>6 DEF CatalogCommit, FsyncFails, ActivateRead, vars, wal
  <2>2. next_lsn' = next_lsn \/ next_lsn' = next_lsn + 3
    BY <1>6 DEF CatalogCommit, FsyncFails, ActivateRead, vars, wal
  <2>3. disk' >= disk /\ next_lsn' >= next_lsn
    BY <1>2, <2>1, <2>2
  <2> QED
    BY <1>3, <1>3a, <1>4, <2>1, <2>3, QuietRest
<1>7. CASE Fsync
  <2>1. PICK l \in {t.lsn : t \in Txs} \cup {next_lsn - 1} :
          durable_lsn' = l /\ disk' = Bigger(disk, l)
    BY <1>7 DEF Fsync
  <2>2. next_lsn' = next_lsn /\ oldest' = oldest
    BY <1>7 DEF Fsync
  <2>3. l \in Int
    <3>1. \A t \in Txs : t.lsn \in Nat
      BY <1>1, TxsFacts
    <3> QED
      BY <1>2, <2>1, <3>1
  <2>4. disk' >= disk /\ durable_lsn' <= disk' /\ next_lsn' >= next_lsn
    BY <1>2, <2>1, <2>2, <2>3 DEF Bigger
  <2> QED
    BY <1>3, <1>3a, <1>4, <2>2, <2>4, QuietRest
<1> QED
  BY <1>5, <1>6, <1>7

\* A commit: its transaction is beyond everything, and with the writer.
LEMMA AboveSeen ==
  ASSUME LiveInv, Rest, wal_backed, NEW f \in Feeds
  PROVE  token[f] <= next_lsn + 1
<1>1. TypeOK /\ WalOrder /\ FeedsSecured
  BY RestParts DEF LiveInv, HubInv
<1>2. token[f] <= Kept + 2
  BY <1>1 DEF FeedsSecured, Seen, Fenced
<1>3. next_lsn \in Nat /\ disk \in Nat /\ durable_lsn \in Nat /\ disk <= durable_lsn
      /\ durable_lsn < next_lsn /\ Kept \in Int
  BY <1>1, TxsFacts DEF WalOrder
<1>4. Kept <= next_lsn - 1
  BY <1>3 DEF Kept
<1>5. token[f] \in Int
  BY FeedPlaces
<1> QED
  BY <1>2, <1>3, <1>4, <1>5

LEMMA CommitRest ==
  ASSUME LiveInv, LiveInv', Rest, Commit PROVE Rest'
<1>1. HubInv /\ HubInv' /\ TypeOK /\ TypeOK' /\ Numbers /\ WalOrder
  BY DEF LiveInv, HubInv
<1>2. /\ Captured /\ HubSecured /\ FeedsSecured /\ MemorySecured
      /\ Resumes /\ NothingSkipped /\ ~closed
  BY RestParts
<1> DEFINE lsn == next_lsn + 2
<1>3. /\ wal_backed /\ ids < MaxItems /\ writer.at = "idle"
      /\ log' = Append(log, Item("tx", lsn)) /\ ids' = ids + 1 /\ next_lsn' = next_lsn + 3
      /\ writer' = (IF active THEN [at |-> "publish", lsn |-> lsn, id |-> ids + 1] ELSE Idle)
      /\ UNCHANGED <<durable_lsn, disk, oldest, stream, parked, feed, eaten, since, active,
                     closed, ring_floor, wal_backed, last_assigned>>
  BY DEF Commit, Up, hub, process
<1>4. lsn \in Nat /\ next_lsn \in Nat /\ disk \in Nat /\ ids \in Nat /\ since \in Nat
      /\ ring_floor \in Nat /\ last_assigned \in Nat
  BY <1>1, ChangeHubAssumption DEF TypeOK
<1>5. active => last_assigned < lsn
  BY <1>1, <1>3, <1>4 DEF Numbers
<1>6. \A f \in Feeds : token[f] < lsn
  <2> TAKE f \in Feeds
  <2>1. token[f] <= next_lsn + 1 /\ token[f] \in Int
    BY <1>3, AboveSeen, FeedPlaces
  <2> QED
    BY <1>4, <2>1
<1>6a. lsn = next_lsn + 2
  OBVIOUS
<1> HIDE DEF lsn
<1>7. \A t \in Txs' : t \in Txs \/ (t.lsn = lsn /\ t.id = ids + 1)
  BY <1>1, <1>3, <1>4, TxsAppended
<1>8. since <= ids
  BY <1>2 DEF Captured
<1>9. TxsGrow
  <2> SUFFICES ASSUME NEW t \in Txs', t.lsn = lsn, t.id = ids + 1 PROVE Beyond(t)
    BY <1>7 DEF TxsGrow
  <2>1. \A f \in Feeds : t.lsn > token[f]
    <3> TAKE f \in Feeds
    <3>1. token[f] < lsn /\ token[f] \in Int
      BY <1>6, FeedPlaces
    <3> QED
      BY <1>4, <3>1
  <2> QED
    BY <1>4, <1>5, <1>8, <2>1 DEF Beyond
<1>10. ASSUME active, NEW t \in Txs', t.lsn = lsn, t.id = ids + 1 PROVE Told(t)'
  <2>1. writer' = [at |-> "publish", lsn |-> lsn, id |-> ids + 1]
    BY <1>3, <1>10
  <2>2. writer'.at = "publish" /\ writer'.id = t.id /\ writer'.lsn = t.lsn
    BY <1>10, <2>1
  <2>3. t.id > since'
    BY <1>3, <1>4, <1>8, <1>10
  <2> QED
    BY <2>2, <2>3 DEF Told
<1>11. disk' >= disk /\ next_lsn' >= next_lsn /\ ids' >= ids /\ ring_floor' >= ring_floor
  BY <1>3, <1>4
<1>12. Captured'
  <2>1. Announced' = Announced
    BY <1>3, AnnouncedKept
  <2>2. \A t \in Txs' : t \in Txs \/ (active => Told(t)')
    BY <1>7, <1>10
  <2>3. writer.at # "publish"
    BY <1>3
  <2>4. active' = active /\ since' = since
    BY <1>3
  <2> QED
    BY <1>1, <1>2, <1>11, <2>1, <2>2, <2>3, <2>4, CapturedKept
<1>13. HubSecured'
  BY <1>1, <1>2, <1>3, <1>9, <1>11, HubSecuredKept
<1>14. Resumes' /\ NothingSkipped' /\ FeedsSecured'
  BY <1>1, <1>2, <1>3, <1>9, <1>11, SameAlike, FeedsKept
<1>15. MemorySecured' /\ ~closed'
  BY <1>2, <1>3 DEF MemorySecured
<1> QED
  BY <1>12, <1>13, <1>14, <1>15 DEF Rest, Secured

\* A restore is not a transaction.
LEMMA RestoreRest ==
  ASSUME LiveInv, LiveInv', Rest, Restore, "truncate_replay" \notin Ops PROVE Rest'
<1>1. HubInv /\ HubInv' /\ TypeOK /\ TypeOK' /\ Numbers /\ WalOrder
  BY DEF LiveInv, HubInv
<1>2. /\ Captured /\ HubSecured /\ FeedsSecured /\ MemorySecured
      /\ Resumes /\ NothingSkipped /\ ~closed
  BY RestParts
<1> DEFINE lsn == next_lsn - 1
           has == {ids + 1}
<1>3. /\ wal_backed /\ ids < MaxItems /\ writer.at = "idle"
      /\ log' = Append(log, Item("restore", lsn)) /\ ids' = ids + 1
      /\ checkpoint(has)
      /\ UNCHANGED <<stream, parked, feed, eaten, since, active,
                     closed, ring_floor, wal_backed, last_assigned>>
  BY DEF Restore, Up, hub, process
<1>4. lsn \in Nat /\ ids \in Nat /\ ring_floor \in Nat /\ has \in SUBSET Ids
  BY <1>1, <1>3, ChangeHubAssumption DEF TypeOK, Ids
<1> HIDE DEF lsn, has
<1>5. \A t \in Txs' : t \in Txs
  <2>1. "restore" \in {"tx", "restore"} /\ "restore" # "tx"
    OBVIOUS
  <2> QED
    BY <1>1, <1>3, <1>4, <2>1, TxsAppended
<1>6. TxsGrow
  BY <1>5 DEF TxsGrow
<1>7. /\ disk' >= disk /\ next_lsn' >= next_lsn /\ durable_lsn' <= disk'
      /\ oldest' = oldest \/ \A f \in Feeds : ~Replaying(f)
  BY <1>1, <1>3, <1>4, CheckpointQuiet
<1>8. Captured'
  <2>1. Announced' = Announced
    BY <1>3, AnnouncedKept
  <2>2. writer.at # "publish"
    BY <1>3
  <2>3. active' = active /\ since' = since /\ ids' >= ids /\ ring_floor' >= ring_floor
    BY <1>3, <1>4
  <2> QED
    BY <1>1, <1>2, <1>5, <2>1, <2>2, <2>3, CapturedKept
<1>9. HubSecured'
  BY <1>1, <1>2, <1>3, <1>6, <1>7, HubSecuredKept
<1>10. Resumes' /\ NothingSkipped' /\ FeedsSecured'
  BY <1>1, <1>2, <1>3, <1>6, <1>7, SameAlike, FeedsKept
<1>11. MemorySecured' /\ ~closed'
  BY <1>2, <1>3 DEF MemorySecured
<1> QED
  BY <1>8, <1>9, <1>10, <1>11 DEF Rest, Secured

-----------------------------------------------------------------------------
\* Steps of the in-memory database: the item is announced at once.
LEMMA InMemoryRest ==
  ASSUME LiveInv, LiveInv', Rest, CommitInMemory \/ RestoreInMemory PROVE Rest'
<1>1. HubInv /\ HubInv' /\ TypeOK /\ TypeOK' /\ Numbers /\ Modes /\ Window
  BY DEF LiveInv, HubInv
<1>2. /\ Captured /\ HubSecured /\ FeedsSecured /\ MemorySecured
      /\ Resumes /\ NothingSkipped /\ ~closed
  BY RestParts
<1> DEFINE m == last_assigned + 1
           l == IF active THEN m ELSE 0
           id == ids + 1
<1>3. /\ ~wal_backed /\ ids < MaxItems /\ writer.at = "idle" /\ ids' = id
      /\ active => publish_when_durable(m, id, m)
      /\ ~active => UNCHANGED <<hub, feed>>
      /\ UNCHANGED <<wal, reports, writer, process, eaten>>
  BY DEF CommitInMemory, RestoreInMemory, Up
<1>4. PICK kind \in {"tx", "restore"} : log' = Append(log, Item(kind, l))
  BY DEF CommitInMemory, RestoreInMemory
<1>5. /\ m \in Nat /\ l \in Nat /\ id \in Ids /\ m > last_assigned /\ ids \in Nat
      /\ since \in Nat /\ last_assigned \in Nat /\ last_lsn \in Nat /\ ring_floor \in Nat
      /\ id > ids /\ id \in Nat
  BY <1>1, <1>3, ChangeHubAssumption DEF TypeOK, Ids
<1>5a. (active => l = m) /\ (~active => l = 0) /\ id = ids + 1
  OBVIOUS
<1> HIDE DEF m, l, id
<1>6. /\ \A t \in Txs' : t \in Txs \/ (t.lsn = l /\ t.id = id)
      /\ \A i \in DOMAIN log' : (i \in DOMAIN log /\ log'[i] = log[i]) \/ log'[i].lsn = l
  BY <1>1, <1>3, <1>4, <1>5, <1>5a, TxsAppended
<1>7. UNCHANGED <<active, closed, since, wal_backed>>
  <2>1. CASE active
    BY <1>2, <1>3, <1>5, <2>1, <1>1, PublishGrows DEF process
  <2>2. CASE ~active
    BY <1>3, <2>2 DEF hub, process
  <2> QED
    BY <2>1, <2>2
<1>8. active => ring_floor' >= ring_floor /\ \A f \in Feeds : Alike(feed'[f], feed[f])
  BY <1>1, <1>3, <1>5, PublishFloor
<1>9. ~active => ring_floor' = ring_floor /\ feed' = feed
  BY <1>3 DEF hub
<1>10. ring_floor' >= ring_floor /\ \A f \in Feeds : Alike(feed'[f], feed[f])
  BY <1>5, <1>8, <1>9, SameAlike
<1>11. last_assigned' = (IF active THEN m ELSE last_assigned)
  <2>1. CASE active
    BY <1>1, <1>2, <1>3, <1>5, <2>1, PublishFacts DEF SendsOn, Parks
  <2>2. CASE ~active
    BY <1>3, <2>2 DEF hub
  <2> QED
    BY <2>1, <2>2
<1>12. since <= ids
  BY <1>2 DEF Captured
<1>13. \A f \in Feeds : /\ token[f] \in Int
                        /\ token[f] <= (IF active THEN last_assigned ELSE NoLsn)
  BY <1>2, <1>3, FeedPlaces DEF MemorySecured
<1>14. TxsGrow
  <2> SUFFICES ASSUME NEW t \in Txs', t.lsn = l, t.id = id PROVE Beyond(t)
    BY <1>6 DEF TxsGrow
  <2>1. \A f \in Feeds : t.lsn > token[f]
    BY <1>5, <1>5a, <1>13 DEF NoLsn
  <2> QED
    BY <1>5, <1>5a, <1>12, <2>1 DEF Beyond
<1>15. disk \in Nat /\ next_lsn \in Nat /\ disk' = disk /\ next_lsn' = next_lsn
       /\ oldest' = oldest
  BY <1>1, <1>3 DEF TypeOK, wal
<1>16. disk' >= disk /\ next_lsn' >= next_lsn /\ ids' >= ids
  BY <1>3, <1>5, <1>15
<1>17. Resumes' /\ NothingSkipped' /\ FeedsSecured'
  BY <1>1, <1>2, <1>3, <1>7, <1>10, <1>14, <1>15, <1>16, FeedsKept
<1>18. HubSecured'
  BY <1>3, <1>7 DEF HubSecured
<1>19. MemorySecured'
  <2>1. \A f \in Feeds : token'[f] <= (IF active' THEN last_assigned' ELSE NoLsn)
    <3>1. token' = token
      BY <1>3 DEF eaten
    <3> QED
      BY <1>5, <1>7, <1>11, <1>13, <3>1
  <2>2. ~active' => \A i \in DOMAIN log' : log'[i].lsn = 0
    BY <1>2, <1>3, <1>5a, <1>6, <1>7 DEF MemorySecured
  <2> QED
    BY <2>1, <2>2 DEF MemorySecured
<1>20. Captured'
  <2>1. CASE active
    <3>1. /\ \A k \in DOMAIN Announced : k \in DOMAIN Announced' /\ Announced'[k] = Announced[k]
          /\ \E k \in DOMAIN Announced' : Announced'[k].lsn = m /\ Announced'[k].id = id
      BY <1>1, <1>2, <1>3, <1>5, <2>1, PublishGrows
    <3>2. ASSUME NEW t \in Txs', t.lsn = l, t.id = id PROVE Told(t)'
      <4>1. \E k \in DOMAIN Announced' : Announced'[k].lsn = t.lsn /\ Announced'[k].id = t.id
        BY <1>5a, <2>1, <3>1, <3>2
      <4>2. t.id > since'
        BY <1>5, <1>7, <1>12, <3>2
      <4> QED
        BY <4>1, <4>2 DEF Told
    <3>3. \A t \in Txs' : t \in Txs \/ (active => Told(t)')
      BY <1>6, <3>2
    <3>4. writer' = writer
      BY <1>3
    <3>5. active' = active /\ since' = since
      BY <1>7
    <3> QED
      BY <1>1, <1>2, <1>10, <1>16, <3>1, <3>3, <3>4, <3>5, CapturedKept
  <2>2. CASE ~active
    <3>1. ids' \in Nat
      BY <1>3, <1>5, <1>5a
    <3> QED
      BY <1>5, <1>7, <1>12, <1>16, <2>2, <3>1 DEF Captured
  <2> QED
    BY <2>1, <2>2
<1> QED
  BY <1>2, <1>7, <1>17, <1>18, <1>19, <1>20 DEF Rest, Secured

\* Capture begins: everything committed so far is below the retained batches.
LEMMA BeganRest ==
  ASSUME LiveInv, LiveInv', Rest, ~active, active', since' = ids,
         UNCHANGED <<log, ids, next_lsn, durable_lsn, disk, oldest, stream, parked, feed,
                     eaten, closed, wal_backed>>,
         \A t \in Txs : t.lsn <= ring_floor'
  PROVE  Rest'
<1>1. HubInv /\ HubInv' /\ TypeOK /\ TypeOK'
  BY DEF LiveInv, HubInv
<1>2. /\ Captured /\ HubSecured /\ FeedsSecured /\ MemorySecured
      /\ Resumes /\ NothingSkipped /\ ~closed
  BY RestParts
<1>3. TxsGrow /\ Txs' = Txs
  BY TxsSame
<1>4. disk' >= disk /\ next_lsn' >= next_lsn /\ ids \in Nat
  BY <1>1, ChangeHubAssumption DEF TypeOK
<1>5. HubSecured'
  BY <1>1, <1>2, <1>3, <1>4, HubSecuredKept
<1>6. Resumes' /\ NothingSkipped' /\ FeedsSecured'
  BY <1>1, <1>2, <1>3, <1>4, SameAlike, FeedsKept
<1>7. MemorySecured'
  <2> SUFFICES ASSUME ~wal_backed, NEW f \in Feeds PROVE token[f] <= last_assigned'
    BY DEF MemorySecured, eaten
  <2>1. token[f] <= NoLsn /\ token[f] \in Int
    BY <1>2, FeedPlaces DEF MemorySecured
  <2>2. last_assigned' \in Nat
    BY <1>1 DEF TypeOK
  <2> QED
    BY <2>1, <2>2 DEF NoLsn
<1>8. Captured'
  <2>1. since' <= ids'
    BY <1>4
  <2>2. ASSUME NEW t \in Txs' PROVE Told(t)'
    <3>1. t \in Txs /\ t.lsn <= ring_floor'
      BY <1>3, <2>2
    <3>2. PICK i \in DOMAIN log : t = log[i]
      BY <1>1, <3>1, TxsFacts
    <3>3. t.id <= ids
      BY <3>2 DEF LiveInv, HubInv, LogOrder
    <3>4. t.id \in Nat
      BY <1>1, <3>1, TxsFacts
    <3>5. ~(t.id > since')
      BY <1>4, <3>3, <3>4
    <3> QED
      BY <3>1, <3>5 DEF Told
  <2> QED
    BY <2>1, <2>2 DEF Captured
<1> QED
  BY <1>2, <1>5, <1>6, <1>7, <1>8 DEF Rest, Secured

LEMMA ActivateRest ==
  ASSUME LiveInv, LiveInv', Rest, Activate PROVE Rest'
<1>1. TypeOK /\ Modes /\ LogOrder
  BY DEF LiveInv, HubInv
<1>2. /\ writer.at = "activate" /\ active' /\ since' = ids
      /\ ring_floor' = Bigger(next_lsn - 1, last_lsn)
      /\ UNCHANGED <<log, ids, next_lsn, durable_lsn, disk, oldest, stream, parked, feed,
                     eaten, closed, wal_backed>>
  BY DEF Activate, wal, process
<1>3. ~active /\ wal_backed
  BY <1>1, <1>2 DEF Modes
<1>4. \A t \in Txs : t.lsn <= ring_floor'
  <2> TAKE t \in Txs
  <2>1. PICK i \in DOMAIN log : t = log[i]
    BY <1>1, TxsFacts
  <2>2. t.lsn < next_lsn
    BY <1>1, <1>3, <2>1 DEF LogOrder
  <2>3. t.lsn \in Nat /\ next_lsn \in Nat /\ last_lsn \in Nat
    BY <1>1, TxsFacts DEF TypeOK
  <2> QED
    BY <1>2, <2>2, <2>3 DEF Bigger
<1> QED
  BY <1>2, <1>3, <1>4, BeganRest

LEMMA ActivateListenRest ==
  ASSUME LiveInv, LiveInv', Rest, ActivateListen PROVE Rest'
<1>1. TypeOK /\ ring_floor \in Nat /\ disk \in Nat /\ next_lsn \in Nat
  BY DEF LiveInv, HubInv, TypeOK
<1>2. /\ writer.at = "idle" /\ ~active
      /\ UNCHANGED <<log, ids, next_lsn, durable_lsn, disk, oldest, stream, parked, feed,
                     eaten, closed, wal_backed, ring_floor, last_assigned>>
  BY DEF ActivateListen, Up, process, hub
<1>3. CASE wal_backed
  <2>1. UNCHANGED <<since, active>>
    BY <1>3 DEF ActivateListen, hub
  <2>2. disk' >= disk /\ next_lsn' >= next_lsn /\ ring_floor' >= ring_floor
    BY <1>1, <1>2
  <2> QED
    BY <1>2, <2>1, <2>2, QuietRest
<1>4. CASE ~wal_backed
  <2>1. active' /\ since' = ids
    BY <1>4 DEF ActivateListen
  <2>2. \A i \in DOMAIN log : log[i].lsn = 0
    BY <1>2, <1>4, RestParts DEF MemorySecured
  <2>3. \A t \in Txs : t.lsn <= ring_floor'
    <3> TAKE t \in Txs
    <3>1. t.lsn = 0
      BY <1>1, <2>2, TxsFacts
    <3> QED
      BY <1>1, <1>2, <3>1
  <2> QED
    BY <1>2, <2>1, <2>3, BeganRest
<1> QED
  BY <1>3, <1>4

-----------------------------------------------------------------------------
\* A batch is published: it reaches no further than what it waits for.
LEMMA PublishedRest ==
  ASSUME LiveInv, LiveInv', Rest, wal_backed, active,
         NEW lsn \in Nat, NEW id \in Ids, NEW needs \in Nat,
         publish_when_durable(lsn, id, needs), lsn > last_assigned, Fenced(lsn, needs, Txs),
         UNCHANGED <<log, ids, wal, process, eaten>>, writer' = Idle,
         writer.at # "publish" \/ (lsn = writer.lsn /\ id = writer.id)
  PROVE  Rest'
<1>1. HubInv /\ HubInv' /\ TypeOK /\ TypeOK' /\ Window
  BY DEF LiveInv, HubInv
<1>2. /\ Captured /\ HubSecured /\ FeedsSecured /\ MemorySecured
      /\ Resumes /\ NothingSkipped /\ ~closed
  BY RestParts
<1>3. /\ \A k \in DOMAIN Announced : k \in DOMAIN Announced' /\ Announced'[k] = Announced[k]
      /\ \E k \in DOMAIN Announced' : Announced'[k].lsn = lsn /\ Announced'[k].id = id
      /\ UNCHANGED <<active, closed, since>>
  BY <1>1, <1>2, PublishGrows
<1>4. ring_floor' >= ring_floor /\ \A f \in Feeds : Alike(feed'[f], feed[f])
  BY <1>1, PublishFloor
<1>5. /\ disk \in Nat /\ next_lsn \in Nat /\ ids \in Nat /\ disk' = disk
      /\ next_lsn' = next_lsn /\ oldest' = oldest /\ wal_backed' = wal_backed
  BY <1>1, ChangeHubAssumption DEF TypeOK, wal, process
<1>6. disk' >= disk /\ next_lsn' >= next_lsn /\ ids' >= ids
  BY <1>5
<1>7. TxsGrow /\ Txs' = Txs
  BY TxsSame
<1>8. Resumes' /\ NothingSkipped' /\ FeedsSecured'
  BY <1>1, <1>2, <1>3, <1>4, <1>5, <1>6, <1>7, FeedsKept
<1>9. HubSecured'
  BY <1>1, <1>2, <1>5, HubSecuredPublished
<1>10. Captured'
  BY <1>1, <1>2, <1>3, <1>4, <1>6, <1>7, CapturedKept
<1>11. MemorySecured'
  BY <1>5 DEF MemorySecured
<1> QED
  BY <1>2, <1>3, <1>8, <1>9, <1>10, <1>11 DEF Rest, Secured

LEMMA PublishRest ==
  ASSUME LiveInv, LiveInv', Rest, publish PROVE Rest'
<1>1. HubInv /\ TypeOK /\ Numbers /\ Modes
  BY DEF LiveInv, HubInv
<1> DEFINE lsn == Bigger(writer.lsn, last_assigned + 1)
           id == writer.id
<1>2. /\ writer.at = "publish" /\ publish_when_durable(lsn, id, lsn)
      /\ UNCHANGED <<log, ids, wal, process, eaten>> /\ writer' = Idle
  BY DEF publish
<1>3. /\ writer.lsn \in Nat /\ writer.id \in Ids \cup {0} /\ last_assigned \in Nat
      /\ ids \in 0 .. MaxItems /\ MaxItems \in Nat /\ next_lsn \in Nat \ {0}
  BY <1>1, WriterFields, ChangeHubAssumption DEF TypeOK
<1>4. writer.id = ids /\ ids > 0 /\ last_assigned < writer.lsn /\ active /\ wal_backed
  BY <1>1, <1>2 DEF Numbers, Modes
<1>5. id \in Ids /\ lsn = writer.lsn /\ lsn \in Nat /\ lsn > last_assigned /\ id = writer.id
  BY <1>3, <1>4 DEF Ids, Bigger
<1> HIDE DEF lsn, id
<1>6. Fenced(lsn, lsn, Txs)
  BY <1>5 DEF Fenced
<1> QED
  BY <1>2, <1>4, <1>5, <1>6, PublishedRest

LEMMA PublishResetRest ==
  ASSUME LiveInv, LiveInv', Rest, publish_reset PROVE Rest'
<1>1. HubInv /\ TypeOK /\ Numbers /\ Modes /\ LogOrder
  BY DEF LiveInv, HubInv
<1> DEFINE lsn == Bigger(writer.lsn, last_assigned + 1)
           id == writer.id
           needs == writer.lsn - 1
<1>2. /\ writer.at = "reset"
      /\ IF lsn <= writer.lsn + 1 THEN publish_when_durable(lsn, id, needs)
         ELSE UNCHANGED <<hub, feed>>
      /\ UNCHANGED <<log, ids, wal, process, eaten>> /\ writer' = Idle
  BY DEF publish_reset
<1>3. /\ writer.lsn \in Nat /\ writer.id \in Ids \cup {0} /\ last_assigned \in Nat
      /\ ids \in 0 .. MaxItems /\ MaxItems \in Nat /\ next_lsn \in Nat \ {0}
  BY <1>1, WriterFields, ChangeHubAssumption DEF TypeOK
<1>4. writer.id = ids /\ ids > 0 /\ writer.lsn = next_lsn /\ active /\ wal_backed
  BY <1>1, <1>2 DEF Numbers, Modes
<1>5. /\ id \in Ids /\ lsn \in Nat /\ lsn > last_assigned /\ needs \in Nat
      /\ needs = next_lsn - 1 /\ (lsn <= writer.lsn + 1 => lsn <= needs + 2)
  BY <1>3, <1>4 DEF Ids, Bigger
<1> HIDE DEF lsn, id, needs
<1>6. CASE lsn <= writer.lsn + 1
  <2>1. ASSUME NEW t \in Txs PROVE t.lsn <= needs
    <3>1. PICK i \in DOMAIN log : t = log[i]
      BY <1>1, TxsFacts
    <3>2. t.lsn < next_lsn /\ t.lsn \in Nat
      BY <1>1, <1>4, <3>1, TxsFacts DEF LogOrder
    <3> QED
      BY <1>3, <1>5, <3>2
  <2>2. Fenced(lsn, needs, Txs)
    BY <1>5, <1>6, <2>1 DEF Fenced
  <2>3. writer.at # "publish"
    BY <1>2
  <2> QED
    BY <1>2, <1>4, <1>5, <1>6, <2>2, <2>3, PublishedRest
<1>7. CASE ~(lsn <= writer.lsn + 1)
  <2>1. UNCHANGED <<log, ids, stream, parked, feed, eaten, since, active, closed, ring_floor,
                    wal_backed, last_assigned, disk, next_lsn, durable_lsn, oldest>>
    BY <1>2, <1>7 DEF hub, wal, process
  <2>2. disk \in Nat /\ next_lsn \in Nat /\ ring_floor \in Nat
    BY <1>1 DEF TypeOK
  <2>3. disk' >= disk /\ next_lsn' >= next_lsn /\ ring_floor' >= ring_floor
    BY <2>1, <2>2
  <2>4. writer.at # "publish"
    BY <1>2
  <2> QED
    BY <2>1, <2>3, <2>4, QuietRest
<1> QED
  BY <1>6, <1>7

LEMMA RetentionRest ==
  ASSUME LiveInv, LiveInv', Rest, set_retention PROVE Rest'
<1>1. HubInv /\ TypeOK /\ Window
  BY DEF LiveInv, HubInv
<1>2. PICK r \in Retentions : ring_floor' = FloorAfter(ring, r, ring_floor)
  BY DEF set_retention
<1>3. UNCHANGED <<log, ids, stream, parked, feed, eaten, since, active, closed,
                  wal_backed, last_assigned, disk, next_lsn, durable_lsn, oldest, writer>>
  BY DEF set_retention, wal, process
<1>4. /\ disk \in Nat /\ next_lsn \in Nat /\ ring_floor \in Nat /\ ring \in Seq(Batch)
      /\ stream \in Seq(Batch) /\ r \in Nat
  BY <1>1, ChangeHubAssumption DEF TypeOK
<1>5. EndOf(ring, stream, ring_floor)
  BY <1>1 DEF Window
<1>6. ring_floor' >= ring_floor
  BY <1>2, <1>4, <1>5, FloorGrows
<1>7. disk' >= disk /\ next_lsn' >= next_lsn
  BY <1>3, <1>4
<1> QED
  BY <1>3, <1>6, <1>7, QuietRest

\* A report hands out what waited for it.
LEMMA OnDurableRest ==
  ASSUME LiveInv, LiveInv', Rest, on_durable PROVE Rest'
<1> USE DEF HandsOut, Reaches
<1>1. HubInv /\ HubInv' /\ TypeOK /\ TypeOK' /\ Window /\ Hears /\ Numbers /\ Modes
  BY DEF LiveInv, HubInv
<1>2. /\ Captured /\ HubSecured /\ FeedsSecured /\ MemorySecured
      /\ Resumes /\ NothingSkipped /\ ~closed
  BY RestParts
<1>3. UNCHANGED <<log, ids, wal, writer, process, eaten>>
  BY <1>1, OnDurableFacts
<1>4. /\ disk \in Nat /\ next_lsn \in Nat /\ ids \in Nat /\ ring_floor \in Nat
      /\ disk' = disk /\ next_lsn' = next_lsn /\ oldest' = oldest /\ durable_lsn' = durable_lsn
      /\ wal_backed' = wal_backed
  BY <1>1, <1>3, ChangeHubAssumption DEF TypeOK, wal, process
<1>5. PICK d \in reports :
        \/ d <= durable /\ UNCHANGED <<hub, feed>>
        \/ /\ d > durable
           /\ Reaches(d)
  BY <1>1, OnDurableFacts
<1>6. disk' >= disk /\ next_lsn' >= next_lsn /\ ids' >= ids
  BY <1>3, <1>4
<1>7. CASE UNCHANGED <<hub, feed>>
  <2>1. UNCHANGED <<log, ids, stream, parked, feed, eaten, since, active, closed,
                    wal_backed, last_assigned, disk, next_lsn, durable_lsn, oldest, writer>>
        /\ ring_floor' >= ring_floor
    BY <1>3, <1>4, <1>7 DEF hub
  <2> QED
    BY <1>6, <2>1, QuietRest
<1>8. CASE Reaches(d)
  <2>1. PICK n \in 0 .. Len(parked), bs \in Seq(Batch) : HandsOut(d, n, bs)
    BY <1>8
  <2>2. /\ parked \in Seq(Waiting) /\ DOMAIN parked = 1 .. Len(parked) /\ Len(parked) \in Nat
        /\ \A k \in DOMAIN parked : /\ parked[k].batch.lsn \in Nat /\ parked[k].needs \in Nat
        /\ ~active => parked = <<>>
    BY <1>1, BatchPlaces
  <2>3. \A k \in 1 .. Len(bs) : bs[k].lsn > last_lsn
    <3> TAKE k \in 1 .. Len(bs)
    <3>1. /\ Len(stream) \in Nat
          /\ DOMAIN Announced = 1 .. Len(stream) + Len(parked)
          /\ \A j \in 1 .. Len(parked) : Announced[Len(stream) + j] = parked[j].batch
      BY <1>1, AnnouncedFacts DEF TypeOK
    <3>2. n \in 0 .. Len(parked) /\ Len(bs) = n
      BY <2>1
    <3>3. /\ k \in 1 .. n /\ k \in 1 .. Len(parked) /\ Len(stream) + k \in DOMAIN Announced
          /\ ~(Len(stream) + k <= Len(stream))
      BY ONLY <2>2, <3>1, <3>2, k \in 1 .. Len(bs)
    <3>4. Announced[Len(stream) + k] = bs[k]
      BY <2>1, <3>1, <3>3
    <3> QED
      BY <1>1, <3>3, <3>4 DEF Numbers
  <2>4. ring_floor' >= ring_floor /\ \A f \in Feeds : Alike(feed'[f], feed[f])
    BY <1>1, <2>1, <2>3, ReleaseFloor, ReleaseAlike
  <2>5. TxsGrow /\ Txs' = Txs
    BY <1>3, TxsSame
  <2>6. Resumes' /\ NothingSkipped' /\ FeedsSecured'
    BY <1>1, <1>2, <1>3, <1>4, <1>6, <1>8, <2>4, <2>5, FeedsKept
  <2>7. Captured'
    <3>1. active' = active /\ since' = since /\ Announced' = Announced /\ writer' = writer
      BY <1>3, <1>8
    <3> QED
      BY <1>1, <1>2, <1>6, <2>4, <2>5, <3>1, CapturedKept
  <2>8. MemorySecured'
    BY <1>2, <1>3, <1>4, <1>8 DEF MemorySecured, eaten
  <2>9. ASSUME wal_backed PROVE HubSecured'
    <3>1. d <= durable_lsn /\ durable_lsn <= Kept /\ d \in Nat
      BY <1>1, <1>2, <2>9 DEF Hears, HubSecured, TypeOK
    <3>2. Kept \in Int /\ durable_lsn \in Nat /\ \A t \in Txs : t.lsn \in Nat
      BY <1>1, TxsFacts
    <3>3. ASSUME NEW k \in 1 .. Len(bs) PROVE Fenced(bs[k].lsn, Kept, Txs)
      <4>1. k \in 1 .. n /\ k \in DOMAIN parked
        BY <2>1, <2>2
      <4> DEFINE l == parked[k].batch.lsn
                 needs == parked[k].needs
                 T == Txs
                 m == Kept
      <4>2. needs <= d /\ bs[k].lsn = l /\ l \in Nat /\ needs \in Nat
        BY <2>1, <2>2, <4>1
      <4>3. needs <= m /\ m \in Int /\ \A t \in T : t.lsn \in Nat
        BY <3>1, <3>2, <4>2
      <4>4. Fenced(l, needs, T)
        BY <1>2, <2>9, <4>1 DEF HubSecured
      <4> HIDE DEF l, needs, T, m
      <4>4a. /\ l \in Int /\ needs \in Int /\ m \in Int /\ needs <= m /\ Fenced(l, needs, T)
             /\ \A t \in T : t.lsn \in Nat /\ (t \in T \/ t.lsn > l)
        BY <4>2, <4>3, <4>4
      <4>5. Fenced(l, m, T)
        BY ONLY <4>4a, FencedGrows
      <4> QED
        BY <4>2, <4>5 DEF T, m
    <3>4. ASSUME NEW k \in DOMAIN parked'
          PROVE  Fenced(parked'[k].batch.lsn, parked'[k].needs, Txs)
      <4>1. k \in 1 .. Len(parked') /\ n \in 0 .. Len(parked) /\ Len(parked') = Len(parked) - n
        BY <2>1
      <4>2. n + k \in DOMAIN parked
        BY <2>2, <4>1
      <4>3. parked'[k] = parked[n + k]
        BY <2>1, <4>1
      <4> QED
        BY <1>2, <2>9, <4>2, <4>3 DEF HubSecured
    <3>5. stream' = stream \o bs
      BY <1>1, <2>1, ReleaseFacts
    <3> QED
      BY <1>1, <1>2, <1>3, <1>4, <2>9, <3>3, <3>4, <3>5, HubSecuredReleased
  <2>10. HubSecured'
    BY <1>4, <2>9 DEF HubSecured
  <2> QED
    BY <1>2, <1>8, <2>6, <2>7, <2>8, <2>10 DEF Rest, Secured
<1> QED
  BY <1>5, <1>7, <1>8

\* What a crash leaves is no less than what was kept.
LEMMA RestartRest ==
  ASSUME LiveInv, LiveInv', Rest, Restart,
         "process_crash" \notin Ops \/ "power_loss" \notin Ops
  PROVE  Rest'
<1>1. HubInv /\ TypeOK /\ TypeOK' /\ LogOrder /\ WalOrder
  BY DEF LiveInv, HubInv
<1>2. /\ Captured /\ HubSecured /\ FeedsSecured /\ MemorySecured
      /\ Resumes /\ NothingSkipped /\ ~closed
  BY RestParts
<1>3. /\ wal_backed /\ wal_backed' = wal_backed /\ ids' = ids /\ oldest' = oldest
      /\ ~active' /\ ~closed' /\ parked' = <<>> /\ stream' = <<>> /\ since' = 0
      /\ \A f \in Feeds : feed'[f] = NoFeed
      /\ token' = token /\ begun' = begun /\ got' = got
  BY DEF Restart, eaten
<1>4. next_lsn \in Nat \ {0} /\ disk \in Nat /\ durable_lsn \in Nat /\ disk <= durable_lsn
      /\ durable_lsn < next_lsn /\ ids \in Nat
  BY <1>1, ChangeHubAssumption DEF TypeOK, WalOrder
<1>5. PICK cut \in Int :
        /\ log' = SubSeq(log, 1, UpTo(log, cut))
        /\ next_lsn' = cut + 1 /\ durable_lsn' = cut
        /\ \/ "process_crash" \in Ops /\ cut = next_lsn - 1
           \/ "power_loss" \in Ops /\ disk <= cut /\ disk' = cut
  <2>1. CASE "process_crash" \in Ops /\ Reopened(next_lsn - 1, disk)
    <3> DEFINE cut == next_lsn - 1
    <3>1. cut \in Int /\ Reopened(cut, disk) /\ cut = next_lsn - 1
      BY <1>4, <2>1
    <3> HIDE DEF cut
    <3> QED
      BY <2>1, <3>1 DEF Reopened
  <2>2. CASE "power_loss" \in Ops /\ \E cut \in disk .. next_lsn - 1 : Reopened(cut, cut)
    <3>1. PICK cut \in disk .. next_lsn - 1 : Reopened(cut, cut)
      BY <2>2
    <3>2. cut \in Int /\ disk <= cut
      BY <1>4, <3>1
    <3> QED
      BY <2>2, <3>1, <3>2 DEF Reopened
  <2> QED
    BY <2>1, <2>2 DEF Restart, May
<1>6. Kept \in Int /\ Kept' = cut /\ Kept <= cut
  <2>1. CASE "process_crash" \in Ops /\ cut = next_lsn - 1
    BY <1>4, <1>5, <2>1 DEF Kept
  <2>2. CASE "power_loss" \in Ops /\ disk <= cut /\ disk' = cut
    BY <1>4, <1>5, <2>2 DEF Kept
  <2> QED
    BY <1>5, <2>1, <2>2
<1>7. \A t \in Txs' : t \in Txs /\ t.lsn \in Nat
  <2> TAKE t \in Txs'
  <2>1. PICK i \in DOMAIN log' : t = log'[i] /\ log'[i].kind = "tx"
    BY DEF Txs
  <2>2. i \in DOMAIN log /\ log'[i] = log[i]
    BY <1>1, <1>5, <2>1, LogCut
  <2> QED
    BY <1>1, <2>1, <2>2, TxsFacts
<1>8. Captured'
  BY <1>3, <1>4 DEF Captured
<1>9. HubSecured'
  BY <1>3, <1>5, <1>6 DEF HubSecured
<1>10. ASSUME NEW f \in Feeds
       PROVE  /\ Position(feed'[f], token'[f], begun'[f], got'[f])
              /\ Replay(feed'[f], oldest') /\ NoGap(feed'[f], Txs', since')
              /\ Skipless(token'[f], begun'[f], got'[f], Txs')
              /\ Seen(feed'[f], token'[f], Kept', Txs')
  <2>1. feed'[f] = NoFeed /\ NoFeed.status = "none" /\ NoFeed.hist = "no"
    BY <1>3, NoFeedFields
  <2>2. Position(feed[f], token[f], begun[f], got[f])
    BY <1>2 DEF Resumes
  <2>3. Position(feed'[f], token'[f], begun'[f], got'[f])
    BY <1>3, <2>1, <2>2 DEF Position
  <2>4. Replay(feed'[f], oldest') /\ NoGap(feed'[f], Txs', since')
    BY <2>1 DEF Replay, NoGap
  <2>5. Skipless(token[f], begun[f], got[f], Txs)
    BY <1>2, SkiplessAll
  <2>6. Skipless(token'[f], begun'[f], got'[f], Txs')
    BY <1>3, <1>7, <2>5 DEF Skipless
  <2>7. Fenced(token[f], Kept, Txs) /\ token[f] \in Int
    BY <1>2, <1>3, FeedPlaces DEF FeedsSecured, Seen
  <2> DEFINE l == token[f]
             n == Kept
             T == Txs
             U == Txs'
  <2>8. /\ Fenced(l, n, T) /\ l \in Int /\ n \in Int /\ n <= cut
        /\ \A t \in U : t.lsn \in Nat /\ t \in T
    BY <1>6, <1>7, <2>7
  <2> HIDE DEF l, n, T, U
  <2>9. Fenced(l, cut, U)
    BY <2>8, FencedGrows
  <2>10. Fenced(token'[f], Kept', Txs')
    BY <1>3, <1>6, <2>9 DEF l, U
  <2>11. Seen(feed'[f], token'[f], Kept', Txs')
    BY <2>1, <2>10 DEF Seen
  <2> QED
    BY <2>3, <2>4, <2>6, <2>11
<1>11. Resumes'
  BY <1>10 DEF Resumes, Position, Replay, NoGap, Start
<1>12. NothingSkipped'
  BY <1>10 DEF NothingSkipped, Skipless
<1>13. FeedsSecured'
  BY <1>10 DEF FeedsSecured, Seen, Fenced
<1>14. MemorySecured'
  BY <1>3 DEF MemorySecured
<1> QED
  BY <1>3, <1>8, <1>9, <1>11, <1>12, <1>13, <1>14 DEF Rest, Secured

-----------------------------------------------------------------------------
(* The steps of a consumer and its feed.                                   *)

EatenElse(f) ==
  \A g \in Feeds : g # f => token'[g] = token[g] /\ begun'[g] = begun[g] /\ got'[g] = got[g]

\* A consumer's place is kept when its own feed is.
LEMMA FeedRest ==
  ASSUME LiveInv, LiveInv', Rest, NEW f \in Feeds, NEW G, Becomes(f, G), EatenElse(f),
         UNCHANGED <<log, ids, next_lsn, oldest, writer, process, hub>>,
         disk' >= disk, durable_lsn' = durable_lsn \/ durable_lsn' <= disk',
         Position(G, token'[f], begun'[f], got'[f]), Replay(G, oldest), NoGap(G, Txs, since),
         Skipless(token'[f], begun'[f], got'[f], Txs),
         wal_backed => Seen(G, token'[f], Kept', Txs),
         ~wal_backed => token'[f] <= (IF active THEN last_assigned ELSE NoLsn)
  PROVE  Rest'
<1>1. HubInv /\ HubInv' /\ TypeOK /\ TypeOK'
  BY DEF LiveInv, HubInv
<1>2. /\ Captured /\ HubSecured /\ FeedsSecured /\ MemorySecured
      /\ Resumes /\ NothingSkipped /\ ~closed
  BY RestParts
<1>3. TxsGrow /\ Txs' = Txs
  BY TxsSame
<1>4. /\ UNCHANGED <<active, closed, since, stream, parked, ring_floor, last_assigned>>
      /\ UNCHANGED wal_backed
  BY DEF hub, process
<1>5. ids \in Nat /\ ring_floor \in Nat /\ next_lsn \in Nat
  BY <1>1, ChangeHubAssumption DEF TypeOK
<1>6. ids' >= ids /\ ring_floor' >= ring_floor /\ next_lsn' >= next_lsn
  BY <1>4, <1>5
<1>7. Captured'
  <2>1. Announced' = Announced
    BY <1>4, AnnouncedKept
  <2> QED
    BY <1>1, <1>2, <1>3, <1>4, <1>6, <2>1, CapturedKept
<1>8. HubSecured'
  BY <1>1, <1>2, <1>3, <1>4, <1>6, HubSecuredKept
<1>9. Kept \in Int /\ Kept' \in Int /\ Kept' >= Kept
  BY <1>1, <1>6, KeptGrows
<1>10. ASSUME NEW g \in Feeds
       PROVE  /\ Position(feed'[g], token'[g], begun'[g], got'[g])
              /\ Replay(feed'[g], oldest') /\ NoGap(feed'[g], Txs', since')
              /\ Skipless(token'[g], begun'[g], got'[g], Txs')
              /\ wal_backed => Seen(feed'[g], token'[g], Kept', Txs')
              /\ ~wal_backed => token'[g] <= (IF active THEN last_assigned ELSE NoLsn)
  <2>1. CASE g = f
    BY <1>3, <1>4, <2>1 DEF Becomes
  <2>2. CASE g # f
    <3>1. /\ feed'[g] = feed[g] /\ token'[g] = token[g] /\ begun'[g] = begun[g]
          /\ got'[g] = got[g]
      BY <2>2 DEF Becomes, EatenElse
    <3>2. /\ Position(feed[g], token[g], begun[g], got[g])
          /\ Replay(feed[g], oldest) /\ NoGap(feed[g], Txs, since)
      BY <1>2 DEF Resumes
    <3>3. Skipless(token[g], begun[g], got[g], Txs)
      BY <1>2, SkiplessAll
    <3>4. ~wal_backed => token[g] <= (IF active THEN last_assigned ELSE NoLsn)
      BY <1>2 DEF MemorySecured
    <3>5. wal_backed => Seen(feed[g], token[g], Kept', Txs)
      <4> SUFFICES ASSUME wal_backed PROVE Seen(feed[g], token[g], Kept', Txs)
        OBVIOUS
      <4> DEFINE T == Txs
                 n == Kept
                 m == Kept'
                 tok == token[g]
                 up == feed[g].upto
      <4>1. Seen(feed[g], tok, n, T) /\ n \in Int /\ m \in Int /\ n <= m
        BY <1>2, <1>9 DEF FeedsSecured
      <4>2. tok \in Int /\ up \in Int /\ up = feed[g].upto
        BY FeedPlaces
      <4>3. \A t \in T : t.lsn \in Nat /\ t \in T
        BY <1>1, TxsFacts
      <4> HIDE DEF T, n, m, tok, up
      <4>4. Fenced(tok, m, T)
        BY <4>1, <4>2, <4>3, FencedGrows DEF Seen
      <4>5. feed[g].hist = "running" /\ ~feed[g].errored => Fenced(up, m, T)
        <5>1. Fenced(up, n, T) => Fenced(up, m, T)
          BY <4>1, <4>2, <4>3, FencedGrows
        <5> QED
          BY <4>1, <4>2, <5>1 DEF Seen
      <4>6. Seen(feed[g], tok, m, T)
        BY <4>2, <4>4, <4>5 DEF Seen
      <4> QED
        BY <4>6 DEF T, m, tok
    <3> QED
      BY <1>3, <1>4, <3>1, <3>2, <3>3, <3>4, <3>5
  <2> QED
    BY <2>1, <2>2
<1>11. Resumes'
  BY <1>10 DEF Resumes, Position, Replay, NoGap, Start
<1>12. NothingSkipped'
  BY <1>10 DEF NothingSkipped, Skipless
<1>13. FeedsSecured'
  BY <1>4, <1>10 DEF FeedsSecured, Seen, Fenced
<1>14. MemorySecured'
  BY <1>2, <1>4, <1>10 DEF MemorySecured
<1> QED
  BY <1>2, <1>4, <1>7, <1>8, <1>11, <1>12, <1>13, <1>14 DEF Rest, Secured

\* What is known of one consumer.
LEMMA OneFeed ==
  ASSUME LiveInv, Rest, NEW f \in Feeds
  PROVE  /\ Position(feed[f], token[f], begun[f], got[f])
         /\ Replay(feed[f], oldest) /\ NoGap(feed[f], Txs, since)
         /\ Skipless(token[f], begun[f], got[f], Txs)
         /\ wal_backed => Seen(feed[f], token[f], Kept, Txs)
         /\ ~wal_backed => token[f] <= (IF active THEN last_assigned ELSE NoLsn)
  BY RestParts, SkiplessAll DEF Resumes, FeedsSecured, MemorySecured

\* Nothing was seen yet.
LEMMA NothingSeen ==
  ASSUME TypeOK, NEW G, G.hist # "running"
  PROVE  Seen(G, NoLsn, Kept, Txs)
<1>1. \A t \in Txs : t.lsn \in Nat
  BY TxsFacts
<1>2. next_lsn \in Nat \ {0} /\ disk \in Nat
  BY DEF TypeOK
<1>3. NoLsn <= Kept + 2
  BY <1>2 DEF Kept, NoLsn
<1> QED
  BY <1>1, <1>3 DEF Seen, Fenced, NoLsn

LEMMA StartOverEaten ==
  ASSUME TypeOK, NEW f \in Feeds, StartOver(f)
  PROVE  /\ token'[f] = NoLsn /\ begun'[f] = NoLsn /\ got'[f] = <<>> /\ EatenElse(f)
  BY DEF StartOver, TypeOK, EatenElse

\* A consumer that starts over, or whose feed is dropped.
LEMMA StartedOverRest ==
  ASSUME LiveInv, LiveInv', Rest, NEW f \in Feeds, StartOver(f), Becomes(f, NoFeed),
         UNCHANGED <<log, ids, wal, writer, process, hub>>
  PROVE  Rest'
<1>1. TypeOK /\ disk \in Nat /\ last_assigned \in Nat
  BY DEF LiveInv, HubInv, TypeOK
<1>2. token'[f] = NoLsn /\ begun'[f] = NoLsn /\ got'[f] = <<>> /\ EatenElse(f)
  BY <1>1, StartOverEaten
<1>3. /\ UNCHANGED <<next_lsn, oldest, disk, durable_lsn>> /\ disk' >= disk /\ Kept' = Kept
  BY <1>1 DEF wal, Kept
<1>4. NoFeed.status = "none" /\ NoFeed.hist = "no"
  BY NoFeedFields
<1>5. /\ Position(NoFeed, token'[f], begun'[f], got'[f])
      /\ Replay(NoFeed, oldest) /\ NoGap(NoFeed, Txs, since)
  BY <1>2, <1>4 DEF Position, Replay, NoGap
<1>6. Skipless(token'[f], begun'[f], got'[f], Txs)
  BY <1>2 DEF Skipless
<1>7. Seen(NoFeed, token'[f], Kept', Txs)
  <2>1. Seen(NoFeed, NoLsn, Kept, Txs)
    BY <1>1, <1>4, NothingSeen
  <2> QED
    BY <1>2, <1>3, <2>1
<1>8. token'[f] <= (IF active THEN last_assigned ELSE NoLsn)
  BY <1>1, <1>2 DEF NoLsn
<1> QED
  BY <1>2, <1>3, <1>5, <1>6, <1>7, <1>8, FeedRest

\* A feed that ends with an error, or is dropped.
LEMMA EndedRest ==
  ASSUME LiveInv, LiveInv', Rest, NEW f \in Feeds, UNCHANGED eaten,
         Becomes(f, NoFeed) \/ (feed[f].status # "none" /\ Becomes(f, Ended(feed[f], <<>>))),
         UNCHANGED <<log, ids, next_lsn, oldest, writer, process, hub>>,
         disk' >= disk, durable_lsn' = durable_lsn \/ durable_lsn' <= disk'
  PROVE  Rest'
<1>0. TypeOK /\ TypeOK' /\ next_lsn \in Nat
  BY DEF LiveInv, HubInv, TypeOK
<1>1. TypeOK /\ TypeOK' /\ next_lsn' >= next_lsn
  BY <1>0
<1> DEFINE F == feed[f]
           e == <<>>
           H == Ended(F, e)
<1>2. F \in FeedState /\ e \in Seq(Batch) /\ H = Ended(F, e)
  BY <1>1 DEF TypeOK
<1>3. /\ Position(F, token[f], begun[f], got[f])
      /\ Replay(F, oldest) /\ NoGap(F, Txs, since)
      /\ Skipless(token[f], begun[f], got[f], Txs)
      /\ wal_backed => Seen(F, token[f], Kept, Txs)
      /\ ~wal_backed => token[f] <= (IF active THEN last_assigned ELSE NoLsn)
  BY OneFeed
<1>4. Becomes(f, NoFeed) \/ (F.status # "none" /\ Becomes(f, H))
  OBVIOUS
<1> HIDE DEF F, e, H
<1>5. /\ H.status = "closed" /\ H.errored /\ H.hist = F.hist /\ H.last = F.last
      /\ H.after = F.after /\ H.upto = F.upto /\ H.base = F.base /\ H.pos = F.pos
      /\ H.from = F.from
  BY <1>2, FeedEnded
<1>6. token' = token /\ begun' = begun /\ got' = got /\ EatenElse(f)
  BY DEF eaten, EatenElse
<1>7. wal_backed => Fenced(token[f], Kept', Txs)
  <2> DEFINE T == Txs
             n == Kept
             m == Kept'
             tok == token[f]
  <2>1. n \in Int /\ m \in Int /\ n <= m
    BY <1>1, KeptGrows
  <2>2. tok \in Int /\ (wal_backed => Fenced(tok, n, T))
    BY <1>3, FeedPlaces DEF Seen
  <2>3. \A t \in T : t.lsn \in Nat /\ t \in T
    BY <1>1, TxsFacts
  <2> HIDE DEF T, n, m, tok
  <2>4. wal_backed => Fenced(tok, m, T)
    BY <2>1, <2>2, <2>3, FencedGrows
  <2> QED
    BY <2>4 DEF T, m, tok
<1>8. ASSUME NEW G, Becomes(f, G), G.hist # "running" \/ G.errored,
             Position(G, token[f], begun[f], got[f]), Replay(G, oldest), NoGap(G, Txs, since)
      PROVE  Rest'
  <2>1. wal_backed => Seen(G, token'[f], Kept', Txs)
    BY <1>6, <1>7, <1>8 DEF Seen
  <2> QED
    BY <1>3, <1>6, <1>8, <2>1, FeedRest
<1>9. CASE Becomes(f, NoFeed)
  <2>1. NoFeed.status = "none" /\ NoFeed.hist = "no"
    BY NoFeedFields
  <2>2. /\ Position(NoFeed, token[f], begun[f], got[f])
        /\ Replay(NoFeed, oldest) /\ NoGap(NoFeed, Txs, since)
    BY <1>3, <2>1 DEF Position, Replay, NoGap
  <2> QED
    BY <1>8, <1>9, <2>1, <2>2
<1>10. CASE F.status # "none" /\ Becomes(f, H)
  <2>1. Start(H) = Start(F)
    BY <1>5 DEF Start
  <2>2. /\ Position(H, token[f], begun[f], got[f])
        /\ Replay(H, oldest) /\ NoGap(H, Txs, since)
    BY <1>3, <1>5, <1>10, <2>1 DEF Position, Replay, NoGap
  <2> QED
    BY <1>5, <1>8, <1>10, <2>2
<1> QED
  BY <1>4, <1>9, <1>10


\* A feed that moves on without delivering: its consumer has what it had.
LEMMA TurnedRest ==
  ASSUME LiveInv, LiveInv', Rest, NEW f \in Feeds, NEW G, Becomes(f, G), UNCHANGED eaten,
         UNCHANGED <<log, ids, wal, writer, process, hub>>,
         \/ G.hist # "running"
         \/ feed[f].hist = "running" /\ ~feed[f].errored /\ G.upto = feed[f].upto,
         Position(G, token[f], begun[f], got[f]), Replay(G, oldest), NoGap(G, Txs, since)
  PROVE  Rest'
<1>1. TypeOK /\ disk \in Nat
  BY DEF LiveInv, HubInv, TypeOK
<1>2. UNCHANGED <<next_lsn, oldest, disk, durable_lsn>> /\ disk' >= disk /\ Kept' = Kept
  BY <1>1 DEF wal, Kept
<1>3. token'[f] = token[f] /\ begun'[f] = begun[f] /\ got'[f] = got[f] /\ EatenElse(f)
  BY DEF eaten, EatenElse
<1>4. /\ Skipless(token[f], begun[f], got[f], Txs)
      /\ wal_backed => Seen(feed[f], token[f], Kept, Txs)
      /\ ~wal_backed => token[f] <= (IF active THEN last_assigned ELSE NoLsn)
  BY OneFeed
<1>5. wal_backed => Seen(G, token'[f], Kept', Txs)
  BY <1>2, <1>3, <1>4 DEF Seen
<1> QED
  BY <1>2, <1>3, <1>4, <1>5, FeedRest

\* Subscribing: the window and the history below it leave no transaction out.
LEMMA SubscribeRest ==
  ASSUME LiveInv, LiveInv', Rest, NEW f \in Feeds, Subscribe(f) PROVE Rest'
<1> USE DEF ResumesFrom
<1>0. TypeOK /\ TypeOK'
  BY DEF LiveInv, HubInv
<1>1. /\ active /\ feed[f].status = "none"
      /\ UNCHANGED <<log, ids, wal, writer, process, hub>>
  BY <1>0, SubscribeFacts
<1>2. /\ ids \in Nat /\ ring_floor \in Nat /\ last_lsn \in Nat /\ disk \in Nat
      /\ ring_floor <= last_lsn
      /\ token \in [Feeds -> Places] /\ begun \in [Feeds -> Places]
  <2>1. ring_floor <= last_lsn
    BY DEF LiveInv, Window
  <2>2. ids \in 0 .. MaxItems /\ MaxItems \in Nat
    BY <1>0, ChangeHubAssumption DEF TypeOK
  <2>3. /\ ring_floor \in Nat /\ last_lsn \in Nat /\ disk \in Nat
        /\ token \in [Feeds -> Places] /\ begun \in [Feeds -> Places]
    BY <1>0 DEF TypeOK
  <2> QED
    BY <2>1, <2>2, <2>3
<1>3. UNCHANGED <<next_lsn, oldest, disk, durable_lsn>> /\ disk' >= disk /\ Kept' = Kept
  BY <1>1, <1>2 DEF wal, Kept
<1>4. /\ Position(feed[f], token[f], begun[f], got[f])
      /\ Skipless(token[f], begun[f], got[f], Txs)
      /\ wal_backed => Seen(feed[f], token[f], Kept, Txs)
      /\ ~wal_backed => token[f] <= (IF active THEN last_assigned ELSE NoLsn)
  BY OneFeed
<1>5. \A t \in Txs : t.lsn \in Nat /\ (t.id <= since => t.lsn <= ring_floor)
  <2>1. \A t \in Txs : t.lsn \in Nat /\ t.id \in Nat
    BY <1>0, TxsFacts
  <2>2. since \in Nat /\ \A t \in Txs : Told(t)
    BY <1>0, <1>1, RestParts DEF Captured, TypeOK
  <2> QED
    BY <2>1, <2>2 DEF Told
<1>6. CASE StartOver(f) /\ UNCHANGED feed
  <2>1. feed[f] = NoFeed
    BY <1>1 DEF LiveInv, HubInv, Modes
  <2>2. Becomes(f, NoFeed)
    BY <1>0, <1>6, <2>1 DEF Becomes, TypeOK
  <2> QED
    BY <1>1, <1>6, <2>2, StartedOverRest
<1>7. ASSUME NEW G, Becomes(f, G), UNCHANGED <<token, got>>, EatenElse(f), G.hist # "running",
             NEW beg, beg = begun'[f], Position(G, token[f], beg, got[f]), Replay(G, oldest),
             NoGap(G, Txs, since), token[f] = NoLsn \/ beg = begun[f]
      PROVE  Rest'
  <2>1. Skipless(token'[f], begun'[f], got'[f], Txs)
    BY <1>4, <1>7 DEF Skipless, Position
  <2>2. wal_backed => Seen(G, token'[f], Kept', Txs)
    BY <1>3, <1>4, <1>7 DEF Seen
  <2>3. /\ Position(G, token'[f], begun'[f], got'[f])
        /\ ~wal_backed => token'[f] <= (IF active THEN last_assigned ELSE NoLsn)
    BY <1>4, <1>7
  <2> QED
    BY <1>1, <1>3, <1>7, <2>1, <2>2, <2>3, FeedRest
<1>8. CASE /\ UNCHANGED <<token, got>> /\ token[f] = NoLsn
           /\ begun' = [begun EXCEPT ![f] = NoLsn]
           /\ Becomes(f, FreshFeed(ids, last_lsn))
  <2> DEFINE G == FreshFeed(ids, last_lsn)
  <2>0. Becomes(f, G)
    BY <1>8
  <2>1. /\ G.status = "open" /\ G.last = NoLsn /\ ~G.errored
        /\ G.hist = "no" /\ G.after = last_lsn /\ G.upto = 0
    BY <1>2, FeedFresh
  <2> HIDE DEF G
  <2>2. begun'[f] = NoLsn /\ EatenElse(f)
    BY <1>2, <1>8 DEF EatenElse
  <2>3. Position(G, token[f], NoLsn, got[f]) /\ Replay(G, oldest)
    BY <1>4, <1>8, <2>1 DEF Position, Replay
  <2>4. Start(G) = last_lsn
    BY <1>2, <2>1 DEF Start, Bigger
  <2>5. NoGap(G, Txs, since)
    BY <1>2, <1>5, <2>1, <2>4 DEF NoGap
  <2> QED
    BY <1>7, <1>8, <2>0, <2>1, <2>2, <2>3, <2>5
<1>9. CASE /\ UNCHANGED <<token, got>>
           /\ \E from \in Nat : ResumesFrom(f, from)
  <2>1. PICK from \in Nat : ResumesFrom(f, from)
    BY <1>9
  <2> DEFINE b == After(ring, from)
             h == IF from >= ring_floor THEN "no" ELSE "wanted"
             G == ResumedFeed(ids, from, ring_floor, b, h)
  <2>2. /\ h \in Hists /\ (h # "no" => from < ring_floor) /\ (h = "no" => from >= ring_floor)
        /\ h \in {"no", "wanted"} /\ b \in Seq(Batch)
    BY <1>2, <2>1 DEF Hists
  <2>3. Becomes(f, G)
    BY <2>1
  <2>3a. G = ResumedFeed(ids, from, ring_floor, b, h)
    OBVIOUS
  <2> HIDE DEF h, b, G
  <2>4. /\ G.status = "open" /\ G.last = from /\ ~G.errored
        /\ G.hist = h /\ G.after = from /\ G.upto = ring_floor
    <3>1. /\ ids \in Nat /\ from \in Nat /\ ring_floor \in Nat /\ b \in Seq(Batch)
          /\ h \in Hists
      BY <1>2, <2>2
    <3>2. /\ G \in FeedState /\ G.status = "open" /\ G.queue = <<>> /\ G.backlog = b
          /\ G.last = from /\ ~G.errored /\ G.hist = h /\ G.after = from
          /\ G.upto = ring_floor
      BY ONLY <2>3a, <3>1, FeedResumed
    <3> QED
      BY ONLY <3>2
  <2>5. begun'[f] = (IF token[f] = NoLsn THEN from ELSE begun[f]) /\ EatenElse(f)
    BY <1>2, <1>9, <2>1 DEF EatenElse
  <2> DEFINE beg == begun'[f]
  <2>6. beg = begun'[f] /\ (token[f] = NoLsn \/ beg = begun[f])
    BY <2>5
  <2>7. Position(G, token[f], beg, got[f])
    <3>1. beg \in {NoLsn, 0}
      BY <1>4, <2>1, <2>5 DEF Position
    <3>2. from = IF token[f] # NoLsn THEN token[f] ELSE beg
      BY <2>1, <2>5
    <3> QED
      BY <1>4, <2>4, <3>1, <3>2 DEF Position
  <2>8. Replay(G, oldest)
    BY <2>2, <2>4 DEF Replay
  <2>9. /\ Start(G) = (IF from > ring_floor THEN from ELSE ring_floor)
        /\ (h = "no" => Start(G) = from)
    BY <1>2, <2>1, <2>2, <2>4 DEF Start, Bigger
  <2>10. NoGap(G, Txs, since)
    <3>1. \A t \in Txs : t.id <= since => t.lsn <= Start(G)
      BY <1>2, <1>5, <2>1, <2>9
    <3>2. h = "no" => \A t \in Txs : t.lsn <= from \/ t.lsn > Start(G)
      BY <1>5, <2>1, <2>9
    <3> QED
      BY <2>4, <3>1, <3>2 DEF NoGap
  <2>11. G.hist # "running"
    BY <2>2, <2>4
  <2> HIDE DEF beg
  <2> QED
    BY <1>7, <1>9, <2>3, <2>5, <2>6, <2>7, <2>8, <2>10, <2>11
<1> QED
  BY <1>0, <1>6, <1>8, <1>9, SubscribeFacts

\* The plan of a history replay has its base and its segments.
LEMMA PlanRest ==
  ASSUME LiveInv, LiveInv', Rest, NEW f \in Feeds, Plan(f) PROVE Rest'
<1> USE DEF PlannedOn
<1>0. TypeOK
  BY DEF LiveInv, HubInv
<1>1. feed[f].hist = "wanted" /\ UNCHANGED <<log, ids, wal, writer, process, hub>>
  BY <1>0, PlanFacts
<1>2. CASE Becomes(f, NoFeed) /\ StartOver(f)
  BY <1>1, <1>2, StartedOverRest
<1>3. CASE /\ UNCHANGED eaten
           /\ \E b \in bases \cup {EmptyBase} : PlannedOn(f, b)
  <2>1. PICK b \in bases \cup {EmptyBase} : PlannedOn(f, b)
    BY <1>3
  <2> DEFINE F == feed[f]
             l == b.lsn
             s == b.has
             p == F.pos
             r == F.from
             G == Moved(F, "planned", l, s, p, r)
  <2>2. /\ F \in FeedState /\ p \in Nat /\ r \in Nat
        /\ Position(F, token[f], begun[f], got[f]) /\ Replay(F, oldest) /\ NoGap(F, Txs, since)
    BY FeedPlaces, OneFeed
  <2>3. /\ l \in Nat /\ s \in SUBSET Ids /\ Becomes(f, G) /\ l <= F.after /\ oldest <= l + 1
        /\ F.hist = "wanted" /\ "planned" \in Hists
    BY <1>1, <2>1 DEF Covers, Hists
  <2> HIDE DEF F, l, s, p, r
  <2>4. /\ G.status = F.status /\ G.last = F.last /\ G.errored = F.errored
        /\ G.after = F.after /\ G.upto = F.upto /\ G.hist = "planned" /\ G.base = l
    BY <2>2, <2>3, FeedMoved
  <2> HIDE DEF G
  <2>5. Position(G, token[f], begun[f], got[f])
    BY <2>2, <2>4 DEF Position
  <2>6. Replay(G, oldest)
    BY <2>2, <2>3, <2>4 DEF Replay
  <2>7. NoGap(G, Txs, since)
    BY <2>2, <2>4 DEF NoGap, Start
  <2> QED
    BY <1>1, <1>3, <2>3, <2>4, <2>5, <2>6, <2>7, TurnedRest
<1> QED
  BY <1>0, <1>1, <1>2, <1>3, PlanFacts

\* The replay begins: all it will read is durable, its segments are listed.
LEMMA HistoryStartRest ==
  ASSUME LiveInv, LiveInv', Rest, NEW f \in Feeds, HistoryStart(f) PROVE Rest'
<1>0. TypeOK /\ TypeOK' /\ HubInv
  BY DEF LiveInv, HubInv
<1>1. /\ feed[f].hist = "planned" /\ ~feed[f].errored /\ wal_backed /\ active
      /\ feed[f].status # "none" /\ token' = token /\ begun' = begun /\ got' = got
      /\ UNCHANGED <<log, ids, next_lsn, oldest, writer, process, hub, eaten>>
  BY <1>0, HistoryStartFacts, FeedActive DEF eaten
<1>2. /\ next_lsn \in Nat \ {0} /\ disk \in Nat /\ durable_lsn \in Nat /\ oldest \in Nat
      /\ durable_lsn < next_lsn
  BY <1>0 DEF TypeOK, HubInv, WalOrder
<1>3. /\ \/ durable_lsn' = durable_lsn /\ disk' = disk
         \/ /\ durable_lsn' = next_lsn - 1 /\ durable_lsn < feed[f].upto
            /\ disk' = Bigger(disk, next_lsn - 1)
      /\ durable_lsn >= feed[f].upto \/ durable_lsn' = next_lsn - 1
         \/ Becomes(f, Ended(feed[f], <<>>))
      /\ \/ Becomes(f, Ended(feed[f], <<>>))
         \/ \E s \in SUBSET Ids :
              Becomes(f, Moved(feed[f], "running", feed[f].base, s, feed[f].base, oldest))
  BY <1>0, HistoryStartFacts
<1>4. disk' >= disk /\ (durable_lsn' = durable_lsn \/ durable_lsn' <= disk')
  BY <1>2, <1>3 DEF Bigger
<1>5. CASE Becomes(f, Ended(feed[f], <<>>))
  BY <1>1, <1>4, <1>5, EndedRest
<1>6. CASE /\ ~Becomes(f, Ended(feed[f], <<>>))
           /\ \E s \in SUBSET Ids :
                Becomes(f, Moved(feed[f], "running", feed[f].base, s, feed[f].base, oldest))
  <2>1. PICK s \in SUBSET Ids :
          Becomes(f, Moved(feed[f], "running", feed[f].base, s, feed[f].base, oldest))
    BY <1>6
  <2> DEFINE F == feed[f]
             l == F.base
             G == Moved(F, "running", l, s, l, oldest)
             tok == token[f]
             up == F.upto
  <2>2. /\ F \in FeedState /\ l \in Nat /\ F.after \in Nat /\ up \in Nat /\ tok \in Int
        /\ up <= Start(F) /\ Start(F) \in Nat /\ last_lsn \in Nat /\ last_assigned \in Nat
        /\ last_lsn <= last_assigned
        /\ (F.status \in {"open", "lagged"} => Start(F) <= last_lsn)
    BY FeedPlaces
  <2>3. /\ Position(F, tok, begun[f], got[f]) /\ Replay(F, oldest) /\ NoGap(F, Txs, since)
        /\ Skipless(tok, begun[f], got[f], Txs) /\ Seen(F, tok, Kept, Txs)
    BY <1>1, OneFeed
  <2>4. /\ Becomes(f, G) /\ F.hist = "planned" /\ ~F.errored /\ F.status # "none"
        /\ "running" \in Hists
        /\ (durable_lsn >= up \/ durable_lsn' = next_lsn - 1)
        /\ (durable_lsn' = durable_lsn \/ (durable_lsn' = next_lsn - 1 /\ durable_lsn < up))
    BY <1>1, <1>3, <1>6, <2>1 DEF Hists
  <2>5. F.status \in {"none", "open", "lagged", "closed"}
    BY <2>2, FeedFields DEF Statuses
  <2> HIDE DEF F, l
  <2>6. /\ G.status = F.status /\ G.last = F.last /\ G.errored = F.errored
        /\ G.after = F.after /\ G.upto = up /\ G.hist = "running" /\ G.base = l
        /\ G.pos = l /\ G.from = oldest
    BY <1>2, <2>2, <2>4, FeedMoved
  <2> HIDE DEF G
  <2>7. Position(G, tok, begun[f], got[f])
    BY <2>3, <2>6 DEF Position
  <2>8. Replay(G, oldest)
    <3>1. l <= F.after /\ oldest <= l + 1 /\ F.last = F.after /\ F.after < up
      BY <2>3, <2>4 DEF Replay, l
    <3>2. Bigger(F.after, l) = F.after
      BY <2>2, <3>1 DEF Bigger
    <3> QED
      BY <2>6, <3>1, <3>2 DEF Replay
  <2>9. NoGap(G, Txs, since)
    BY <2>3, <2>6 DEF NoGap, Start
  <2>10. up <= last_assigned
    <3>1. F.status \in {"open", "lagged"}
      BY <2>3, <2>4, <2>5 DEF Position
    <3> QED
      BY <2>2, <3>1
  <2>11. last_assigned <= next_lsn + 1
    <3>1. last_assigned <= (IF Marker THEN next_lsn ELSE next_lsn + 1)
      BY <1>0, <1>1 DEF HubInv, Numbers
    <3> QED
      BY <1>2, <2>2, <3>1
  <2> DEFINE T == Txs
             n == Kept
             m == Kept'
  <2>12. n \in Int /\ m \in Int /\ n <= m
    <3>1. next_lsn' >= next_lsn
      BY <1>1, <1>2
    <3> QED
      BY <1>0, <1>4, <3>1, KeptGrows
  <2>13. \A t \in T : t.lsn \in Nat /\ t.lsn < next_lsn /\ t \in T
    BY <1>0, <1>1, TxsFacts DEF HubInv, LogOrder
  <2>14. durable_lsn <= n
    BY <1>1, RestParts DEF HubSecured
  <2>15. durable_lsn' = next_lsn - 1 => m >= next_lsn - 1
    <3> SUFFICES ASSUME durable_lsn' = next_lsn - 1, durable_lsn' # durable_lsn
                 PROVE  m >= next_lsn - 1
      BY <1>2, <2>12, <2>14
    <3>1. disk' = Bigger(disk, next_lsn - 1)
      BY <1>3
    <3>2. next_lsn' = next_lsn /\ disk' \in Int /\ disk' >= next_lsn - 1
      BY <1>1, <1>2, <3>1 DEF Bigger
    <3> QED
      BY <1>2, <3>2 DEF Kept
  <2>16. Seen(F, tok, n, T)
    BY <2>3
  <2> HIDE DEF T, n, m, tok, up
  <2>17. Fenced(tok, m, T)
    BY <2>2, <2>12, <2>13, <2>16, FencedGrows DEF Seen
  <2>18. Fenced(up, m, T)
    <3>1. CASE durable_lsn >= up
      <4>1. up <= m
        BY <1>2, <2>2, <2>12, <2>14, <3>1
      <4> QED
        BY <2>2, <2>12, <2>13, <4>1 DEF Fenced
    <3>2. CASE durable_lsn' = next_lsn - 1
      <4>1. m >= next_lsn - 1 /\ up <= next_lsn + 1
        BY <1>2, <2>2, <2>10, <2>11, <2>15, <3>2
      <4> QED
        BY <1>2, <2>2, <2>12, <2>13, <4>1 DEF Fenced
    <3> QED
      BY <2>4, <3>1, <3>2
  <2>19. Seen(G, token'[f], Kept', Txs)
    <3>1. Seen(G, tok, m, T)
      BY <2>6, <2>17, <2>18 DEF Seen
    <3> QED
      BY <1>1, <3>1 DEF tok, m, T
  <2>20. EatenElse(f) /\ token'[f] = tok
    BY <1>1 DEF EatenElse, tok
  <2> QED
    BY <1>1, <1>4, <2>3, <2>4, <2>7, <2>8, <2>9, <2>19, <2>20, FeedRest DEF tok
<1> QED
  BY <1>3, <1>5, <1>6

-----------------------------------------------------------------------------
\* A consumer takes a batch: no transaction lies between it and the last one.
LEMMA DeliveredRest ==
  ASSUME LiveInv, LiveInv', Rest, NEW f \in Feeds, NEW d \in Delivered, Deliver(f, d),
         NEW G, Becomes(f, G), UNCHANGED <<log, ids, wal, writer, process, hub>>,
         feed[f].status # "none", ~feed[f].errored,
         G.status = feed[f].status, ~G.errored, G.last = d.lsn,
         \/ feed[f].last = NoLsn
         \/ \A t \in Txs : t.lsn > feed[f].last /\ t.lsn <= d.lsn => t.id = d.id,
         Replay(G, oldest), NoGap(G, Txs, since),
         wal_backed => Seen(G, d.lsn, Kept, Txs),
         ~wal_backed => d.lsn <= (IF active THEN last_assigned ELSE NoLsn)
  PROVE  Rest'
<1>1. TypeOK /\ disk \in Nat
  BY DEF LiveInv, HubInv, TypeOK
<1>2. UNCHANGED <<next_lsn, oldest, disk, durable_lsn>> /\ disk' >= disk /\ Kept' = Kept
  BY <1>1 DEF wal, Kept
<1>3. /\ token'[f] = d.lsn /\ begun' = begun /\ begun'[f] = begun[f] /\ EatenElse(f)
  BY <1>1 DEF Deliver, TypeOK, EatenElse
<1> DEFINE g == got[f]
           n == Len(g)
           H == got'[f]
           F == feed[f]
           tok == token[f]
           beg == begun[f]
<1>4. H = Append(g, d) /\ g \in Seq(Delivered)
  BY <1>1, DeliverGot
<1>5. /\ n \in Nat /\ H # <<>> /\ Len(H) = n + 1 /\ H[n + 1] = d
      /\ DOMAIN H = 1 .. n + 1 /\ DOMAIN g = 1 .. n /\ \A k \in 1 .. n : H[k] = g[k]
      /\ (g = <<>> <=> n = 0)
  <2> HIDE DEF g, H
  <2> QED
    BY <1>4
<1>6. d.lsn \in Nat /\ tok \in Int /\ beg \in Int /\ \A t \in Txs : t.lsn \in Nat
  BY <1>1, FeedPlaces, TxsFacts DEF Delivered
<1>7. /\ Position(F, tok, beg, g) /\ Skipless(tok, beg, g, Txs)
  BY OneFeed
<1>8. /\ F.last = NoLsn \/ \A t \in Txs : t.lsn > F.last /\ t.lsn <= d.lsn => t.id = d.id
      /\ F.status # "none" /\ ~F.errored /\ G.status = F.status
  OBVIOUS
<1> HIDE DEF g, n, H, F, tok, beg
<1>9. /\ (tok = NoLsn <=> g = <<>>) /\ beg \in {NoLsn, 0}
      /\ F.last = (IF tok # NoLsn THEN tok ELSE beg) /\ F.status # "closed"
  BY <1>7, <1>8 DEF Position
<1>10. Skipless(d.lsn, beg, H, Txs)
  <2> SUFFICES ASSUME NEW t \in Txs, t.lsn > (IF beg = 0 THEN 0 ELSE H[1].lsn),
                      t.lsn <= d.lsn
               PROVE  \E k \in DOMAIN H : H[k].id = t.id
    BY DEF Skipless
  <2>1. t.lsn > F.last /\ F.last # NoLsn => \E k \in DOMAIN H : H[k].id = t.id
    <3> SUFFICES ASSUME t.lsn > F.last, F.last # NoLsn
                 PROVE  \E k \in DOMAIN H : H[k].id = t.id
      OBVIOUS
    <3>1. t.id = d.id
      BY <1>8
    <3>2. n + 1 \in DOMAIN H
      BY <1>5
    <3> QED
      BY <1>5, <3>1, <3>2
  <2>2. CASE g = <<>>
    <3>1. H[1] = d
      BY <1>5, <2>2
    <3>2. beg = 0
      BY <1>6, <1>9, <3>1
    <3>3. F.last = 0 /\ t.lsn > 0
      BY <1>9, <2>2, <3>2
    <3> QED
      BY <2>1, <3>3 DEF NoLsn
  <2>3. CASE g # <<>>
    <3>1. H[1] = g[1]
      BY <1>5, <2>3
    <3>2. F.last = tok /\ tok # NoLsn
      BY <1>9, <2>3
    <3>3. CASE t.lsn <= tok
      <4>1. \E k \in DOMAIN g : g[k].id = t.id
        BY <1>7, <2>3, <3>1, <3>3 DEF Skipless
      <4> QED
        BY <1>5, <4>1
    <3>4. CASE t.lsn > tok
      BY <2>1, <3>2, <3>4
    <3> QED
      BY <1>6, <3>3, <3>4
  <2> QED
    BY <2>2, <2>3
<1>11. Position(G, d.lsn, beg, H)
  BY <1>5, <1>6, <1>8, <1>9 DEF Position, NoLsn
<1>12. /\ Position(G, token'[f], begun'[f], got'[f])
       /\ Skipless(token'[f], begun'[f], got'[f], Txs)
  BY <1>3, <1>10, <1>11 DEF H, beg
<1>13. /\ wal_backed => Seen(G, token'[f], Kept', Txs)
       /\ ~wal_backed => token'[f] <= (IF active THEN last_assigned ELSE NoLsn)
  BY <1>2, <1>3
<1> QED
  BY <1>2, <1>3, <1>12, <1>13, FeedRest

\* The transaction the replay reads next is the first past its place.
LEMMA ReadNext ==
  ASSUME LiveInv, NEW f \in Feeds, wal_backed, feed[f].from <= feed[f].pos + 1,
         NEW t \in Txs, t.lsn > feed[f].pos, t.lsn <= feed[f].upto
  PROVE  \E j \in ToRead(f) : t = log[j]
<1>1. TypeOK
  BY DEF LiveInv, HubInv
<1>2. PICK j \in DOMAIN log : t = log[j] /\ log[j].kind = "tx"
  BY <1>1, TxsFacts
<1>3. t.lsn \in Nat /\ feed[f].pos \in Nat /\ feed[f].from \in Nat
  BY <1>1, TxsFacts, FeedPlaces
<1>4. t.lsn >= feed[f].from
  BY <1>3
<1> QED
  BY <1>2, <1>4 DEF ToRead

\* Reading the WAL.
LEMMA HistoryNextRest ==
  ASSUME LiveInv, LiveInv', Rest, NEW f \in Feeds, HistoryNext(f) PROVE Rest'
<1> USE DEF ReadOut, ReadsPast, ReadsOn, Reads
<1>0. TypeOK /\ HubInv
  BY DEF LiveInv, HubInv
<1> DEFINE F == feed[f]
           tok == token[f]
<1>1. /\ F.hist = "running" /\ ~F.errored /\ wal_backed /\ F.status # "none"
      /\ UNCHANGED <<log, ids, wal, writer, process, hub>>
  BY <1>0, HistoryNextFacts, FeedActive
<1>2. /\ F \in FeedState /\ F.queue \in Seq(Batch) /\ F.backlog \in Seq(Batch)
      /\ F.last \in Places /\ F.seen \in SUBSET Ids /\ F.base \in Nat /\ F.pos \in Nat
      /\ F.from \in Nat /\ F.after \in Nat /\ F.upto \in Nat
  BY FeedPlaces, FeedFields
<1>3. /\ Position(F, tok, begun[f], got[f]) /\ Replay(F, oldest) /\ NoGap(F, Txs, since)
      /\ Seen(F, tok, Kept, Txs)
  BY <1>1, OneFeed
<1>4. /\ F.last = Bigger(F.after, F.pos) /\ F.from <= F.pos + 1 /\ F.after < F.upto
  BY <1>1, <1>3 DEF Replay
<1>5. \A t \in Txs : t.lsn \in Nat
  BY <1>0, TxsFacts
<1>6. /\ UNCHANGED <<next_lsn, oldest, disk, durable_lsn>> /\ disk' >= disk
      /\ next_lsn' = next_lsn
  <2>1. disk \in Nat
    BY <1>0 DEF TypeOK
  <2> QED
    BY <1>1, <2>1 DEF wal
<1>7. ASSUME NEW i \in ToRead(f), i \in DOMAIN log
      PROVE  /\ F.seen \cup {log[i].id} \in SUBSET Ids /\ log[i].lsn \in Nat
             /\ log[i].id \in Ids /\ log[i].lsn <= F.upto /\ log[i].lsn > F.pos
             /\ log[i].kind = "tx"
  <2>1. log[i] \in Items
    BY <1>0, <1>7 DEF TypeOK
  <2> QED
    BY <1>2, <1>7, <2>1 DEF Items, ToRead
<1>8. CASE ReadOut(f)
  <2> DEFINE b == F.base
             s == F.seen
             p == F.pos
             r == F.from
             G == Moved(F, "no", b, s, p, r)
  <2>1. ToRead(f) = {}
    BY <1>1, <1>3, <1>8 DEF Position
  <2>2. /\ Becomes(f, G) /\ "no" \in Hists /\ b \in Nat /\ s \in SUBSET Ids /\ p \in Nat
        /\ r \in Nat
    BY <1>2, <1>8 DEF Hists
  <2>3. \A t \in Txs : t.lsn <= F.last \/ t.lsn > Start(F)
    <3> SUFFICES ASSUME NEW t \in Txs, ~(t.lsn <= F.last), ~(t.lsn > Start(F)) PROVE FALSE
      OBVIOUS
    <3>1. t.lsn > F.pos /\ t.lsn <= F.upto
      BY <1>2, <1>4, <1>5 DEF Start, Bigger
    <3> QED
      BY <1>1, <1>4, <2>1, <3>1, ReadNext
  <2> HIDE DEF F, b, s, p, r
  <2>4. /\ G.status = F.status /\ G.last = F.last /\ G.errored = F.errored
        /\ G.after = F.after /\ G.upto = F.upto /\ G.hist = "no"
    BY <1>2, <2>2, FeedMoved
  <2> HIDE DEF G
  <2>5. Position(G, tok, begun[f], got[f]) /\ Replay(G, oldest)
    BY <1>3, <2>4 DEF Position, Replay
  <2>6. Start(G) = Start(F)
    BY <2>4 DEF Start
  <2>7. NoGap(G, Txs, since)
    BY <1>1, <1>3, <2>3, <2>4, <2>6 DEF NoGap
  <2> QED
    BY <1>1, <1>8, <2>2, <2>4, <2>5, <2>7, TurnedRest
<1>9. CASE UNCHANGED eaten /\ Becomes(f, Ended(F, <<>>))
  BY <1>1, <1>6, <1>9, EndedRest
\* What reading transaction i leaves, in the places of the feed.
<1>10. ASSUME NEW i \in ToRead(f), i \in DOMAIN log, NEW bl \in Seq(Batch), NEW la \in Places,
              NEW G, G = Took(F, F.queue, bl, la, F.seen \cup {log[i].id}, log[i].lsn),
              la = Bigger(F.after, log[i].lsn)
       PROVE  /\ G.status = F.status /\ G.last = la /\ G.errored = F.errored
              /\ G.upto = F.upto /\ G.hist = F.hist
              /\ Replay(G, oldest) /\ NoGap(G, Txs, since)
  <2> DEFINE q == F.queue
             s == F.seen \cup {log[i].id}
             p == log[i].lsn
  <2>1. /\ q \in Seq(Batch) /\ s \in SUBSET Ids /\ p \in Nat /\ p > F.pos
        /\ G = Took(F, q, bl, la, s, p) /\ la = Bigger(F.after, p)
    BY <1>2, <1>7, <1>10
  <2> HIDE DEF F, q, s, p
  <2>2. /\ G.status = F.status /\ G.last = la /\ G.errored = F.errored /\ G.hist = F.hist
        /\ G.after = F.after /\ G.upto = F.upto /\ G.pos = p /\ G.from = F.from
    BY <1>2, <1>10, <2>1, FeedTook
  <2>3. F.from <= p + 1
    BY <1>2, <1>4, <2>1
  <2>4. Replay(G, oldest)
    BY <1>1, <1>4, <2>1, <2>2, <2>3 DEF Replay
  <2>5. NoGap(G, Txs, since)
    BY <1>1, <1>3, <2>2 DEF NoGap, Start
  <2> QED
    BY <2>2, <2>4, <2>5
<1>11. CASE \E i \in ToRead(f) : ReadsPast(f, i)
  <2>1. PICK i \in ToRead(f) : ReadsPast(f, i)
    BY <1>11
  <2> DEFINE G == Took(F, F.queue, F.backlog, F.last, F.seen \cup {log[i].id}, log[i].lsn)
  <2>2. F.last = Bigger(F.after, log[i].lsn)
    BY <1>2, <1>4, <1>7, <2>1 DEF Bigger
  <2>3. /\ G.status = F.status /\ G.last = F.last /\ G.errored = F.errored
        /\ G.upto = F.upto /\ G.hist = F.hist
        /\ Replay(G, oldest) /\ NoGap(G, Txs, since)
    BY <1>2, <1>10, <2>1, <2>2
  <2>4. Becomes(f, G)
    BY <2>1
  <2> HIDE DEF G
  <2>5. Position(G, tok, begun[f], got[f])
    BY <1>3, <2>3 DEF Position
  <2> QED
    BY <1>1, <2>1, <2>3, <2>4, <2>5, TurnedRest
<1>12. CASE \E i \in ToRead(f) : ReadsOn(f, i)
  <2>1. PICK i \in ToRead(f) : ReadsOn(f, i)
    BY <1>12
  <2> DEFINE good == F.seen = GraphAt(i - 1)
             d == [lsn |-> log[i].lsn, id |-> log[i].id, good |-> good]
             l == log[i].lsn
             id == log[i].id
             bl == After(F.backlog, l)
             G == Took(F, F.queue, bl, l, F.seen \cup {id}, l)
  <2>2. l \in Nat /\ l \in Places /\ id \in Ids /\ l <= F.upto /\ l > F.pos
        /\ log[i].kind = "tx"
    BY <1>7, <2>1 DEF Places
  <2>3. l = Bigger(F.after, l) /\ bl \in Seq(Batch)
    BY <1>2, <2>1, <2>2 DEF Bigger
  <2>4. /\ G.status = F.status /\ G.last = l /\ G.errored = F.errored
        /\ G.upto = F.upto /\ G.hist = F.hist
        /\ Replay(G, oldest) /\ NoGap(G, Txs, since)
    BY <1>10, <2>1, <2>2, <2>3
  <2>5. Becomes(f, G) /\ Deliver(f, d)
    BY <2>1
  <2>6. d \in Delivered /\ d.lsn = l /\ d.id = id
    <3>1. \A b \in BOOLEAN : [lsn |-> l, id |-> id, good |-> b] \in Delivered
      BY <2>2 DEF Delivered
    <3>2. good \in BOOLEAN
      OBVIOUS
    <3>3. d.lsn = l /\ d.id = id
      OBVIOUS
    <3> HIDE DEF good, l, id
    <3> QED
      BY <3>1, <3>2, <3>3, Zenon
  <2>7. \A t \in Txs : t.lsn > F.last /\ t.lsn <= l => t.id = id
    <3> SUFFICES ASSUME NEW t \in Txs, t.lsn > F.last, t.lsn <= l PROVE t.id = id
      OBVIOUS
    <3>1. t.lsn > F.pos /\ t.lsn <= F.upto
      BY <1>2, <1>4, <1>5, <2>2 DEF Bigger
    <3>2. PICK j \in ToRead(f) : t = log[j]
      BY <1>1, <1>4, <3>1, ReadNext
    <3>3. /\ i \in Nat /\ j \in Nat /\ i <= j /\ i \in DOMAIN log /\ j \in DOMAIN log
          /\ log[j].kind = "tx"
      <4>1. DOMAIN log = 1 .. Len(log) /\ Len(log) \in Nat
        BY <1>0 DEF TypeOK
      <4>2. j \in DOMAIN log /\ i \in DOMAIN log /\ i <= j
        BY <2>1, <3>2 DEF ToRead
      <4>3. log[j].kind = "tx"
        BY <3>2 DEF ToRead
      <4> QED
        BY <4>1, <4>2, <4>3
    <3>4. i < j => log[i].lsn < log[j].lsn
      BY <1>0, <1>1, <3>3 DEF HubInv, LogOrder
    <3>5. ~(i < j)
      BY <1>5, <2>2, <3>2, <3>4
    <3> QED
      BY <3>2, <3>3, <3>5
  <2>8. Seen(G, l, Kept, Txs)
    <3>1. Fenced(F.upto, Kept, Txs)
      BY <1>1, <1>3 DEF Seen
    <3>2. Kept \in Int
      BY <1>0, TxsFacts
    <3>3. Fenced(l, Kept, Txs)
      BY <1>2, <1>5, <2>2, <3>1, <3>2 DEF Fenced
    <3> QED
      BY <2>4, <3>1, <3>3 DEF Seen
  <2> HIDE DEF G, d, l, id
  <2> QED
    BY <1>1, <2>4, <2>5, <2>6, <2>7, <2>8, DeliveredRest
<1> QED
  BY <1>0, <1>8, <1>9, <1>11, <1>12, HistoryNextFacts

-----------------------------------------------------------------------------
\* No transaction lies between what a feed delivered last and what it has in
\* store: it was announced before that, and the feed has it.
LEMMA NextBatch ==
  ASSUME LiveInv, Rest, NEW f \in Feeds, feed[f].hist = "no", ~feed[f].errored,
         feed[f].last # NoLsn, feed[f].status \in {"open", "lagged"}, active,
         NEW h, 1 \in DOMAIN Pending(feed[f]), h = Pending(feed[f])[1], h.lsn \in Nat,
         h.lsn <= last_lsn,
         NEW t \in Txs, t.lsn > feed[f].last, t.lsn <= h.lsn
  PROVE  t.id = h.id
<1>0. TypeOK /\ HubInv
  BY DEF LiveInv, HubInv
<1> DEFINE F == feed[f]
           P == Pending(F)
<1>1. /\ F.last \in Int /\ F.backlog \in Seq(Batch) /\ F.queue \in Seq(Batch)
      /\ t.lsn \in Nat /\ t.id \in Nat /\ Start(F) \in Nat /\ since \in Nat
      /\ last_lsn \in Nat /\ last_assigned \in Nat /\ last_lsn <= last_assigned
  BY <1>0, FeedPlaces, FeedFields, TxsFacts DEF TypeOK
<1>2. P \in Seq(Batch)
  BY <1>1, JoinFacts DEF Pending
<1>3. NoGap(F, Txs, since) /\ Stocked(P, Start(F), F.last, F.status, stream, got[f])
  BY OneFeed DEF LiveInv, Stores, Store
<1>4. t.lsn > Start(F)
  BY <1>1, <1>3 DEF NoGap
<1>5. t.id > since
  BY <1>1, <1>3, <1>4 DEF NoGap
<1>6. Told(t)
  BY RestParts DEF Captured
<1>7. ~(writer.at = "publish" /\ writer.id = t.id /\ writer.lsn = t.lsn)
  <2>1. writer.at = "publish" => last_assigned < writer.lsn
    BY <1>0 DEF HubInv, Numbers
  <2> QED
    BY <1>1, <2>1
<1>8. PICK k \in DOMAIN Announced : Announced[k].lsn = t.lsn /\ Announced[k].id = t.id
  BY <1>5, <1>6, <1>7 DEF Told
<1>9. /\ stream \in Seq(Batch) /\ DOMAIN stream = 1 .. Len(stream) /\ Len(stream) \in Nat
      /\ Len(parked) \in Nat /\ DOMAIN Announced = 1 .. Len(stream) + Len(parked)
      /\ \A i \in 1 .. Len(stream) : Announced[i] = stream[i]
  BY <1>0, AnnouncedFacts, BatchPlaces DEF TypeOK
<1>10. k <= Len(stream)
  <2>1. k <= Len(stream) \/ Announced[k].lsn > last_lsn
    BY <1>0 DEF HubInv, Numbers
  <2> QED
    BY <1>1, <1>8, <2>1
<1>11. k \in DOMAIN stream /\ stream[k].lsn = t.lsn /\ stream[k].id = t.id
  BY <1>8, <1>9, <1>10
<1> HIDE DEF P
<1>12. \/ \E m \in DOMAIN P : P[m] = stream[k]
       \/ \A m \in DOMAIN P : P[m].lsn < stream[k].lsn
  BY <1>1, <1>3, <1>4, <1>11 DEF Stocked
<1>13. 1 \in DOMAIN P /\ P[1] = h /\ DOMAIN P = 1 .. Len(P) /\ Len(P) \in Nat
  BY <1>2 DEF P
<1>14. PICK m \in DOMAIN P : P[m] = stream[k]
  BY <1>1, <1>11, <1>12, <1>13
<1>15. m = 1
  <2>1. m \in Nat /\ m >= 1
    BY <1>13
  <2>2. 1 < m => P[1].lsn < P[m].lsn
    BY <1>3, <1>13 DEF Stocked, Increasing
  <2>3. ~(1 < m)
    BY <1>1, <1>11, <1>13, <1>14, <2>2
  <2> QED
    BY <2>1, <2>3
<1> QED
  BY <1>11, <1>13, <1>14, <1>15

\* What a feed hands out was released.
LEMMA TookRest ==
  ASSUME LiveInv, LiveInv', Rest, NEW f \in Feeds, NEW q \in Seq(Batch), NEW b \in Seq(Batch),
         Pending(feed[f]) # <<>>, NEW h, h = Head(Pending(feed[f])), Deliver(f, Live(h)),
         Becomes(f, Took(feed[f], q, b, h.lsn, feed[f].seen, feed[f].pos)),
         CaughtUp(f), feed[f].status # "none", active,
         UNCHANGED <<log, ids, wal, writer, process, hub>>
  PROVE  Rest'
<1>0. TypeOK /\ HubInv
  BY DEF LiveInv, HubInv
<1> DEFINE F == feed[f]
           P == Pending(F)
           l == h.lsn
           s == F.seen
           p == F.pos
           G == Took(F, q, b, l, s, p)
<1>1. /\ F \in FeedState /\ F.hist = "no" /\ ~F.errored /\ F.last \in Int
      /\ F.backlog \in Seq(Batch) /\ F.queue \in Seq(Batch) /\ s \in SUBSET Ids /\ p \in Nat
      /\ F.status \in {"none", "open", "lagged", "closed"}
      /\ Start(F) \in Nat /\ last_lsn \in Nat /\ last_assigned \in Nat
      /\ last_lsn <= last_assigned
  BY FeedPlaces, FeedFields DEF CaughtUp, Statuses
<1>2. /\ Position(F, token[f], begun[f], got[f]) /\ Replay(F, oldest) /\ NoGap(F, Txs, since)
      /\ Store(F, stream, got[f], last_lsn)
  BY OneFeed DEF LiveInv, Stores
<1>3. F.status \in {"open", "lagged"} /\ F.status # "none"
  BY <1>1, <1>2 DEF Position
<1>4. P \in Seq(Batch) /\ P # <<>>
  BY <1>1, JoinFacts DEF Pending
<1>5. Stocked(P, Start(F), F.last, F.status, stream, got[f])
  BY <1>2, <1>3 DEF Store
<1>6. Becomes(f, G) /\ Deliver(f, Live(h)) /\ h = Head(P)
  OBVIOUS
<1>7. /\ UNCHANGED <<log, ids, wal, writer, process, hub>> /\ active
  OBVIOUS
<1> HIDE DEF F, P, s, p
<1>8. h = P[1] /\ h \in Batch /\ 1 \in DOMAIN P
  BY ONLY <1>4, <1>6
<1>9. l \in Nat /\ l \in Places /\ h.id \in Ids
  BY <1>8 DEF Batch, Places
<1>10. PICK i \in DOMAIN stream : stream[i] = h
  BY <1>5, <1>8 DEF Stocked
<1>11. l > Start(F) /\ l > F.last
  BY <1>5, <1>8 DEF Stocked
<1>12. l <= last_lsn
  <2>1. /\ stream \in Seq(Batch) /\ \A j \in 1 .. Len(stream) : stream[j].lsn <= last_lsn
    BY <1>0, StreamFacts
  <2>2. i \in 1 .. Len(stream)
    BY <2>1
  <2> QED
    BY <1>10, <2>1, <2>2
<1>13. Live(h) \in Delivered /\ Live(h).lsn = l /\ Live(h).id = h.id
  BY <1>8, LiveTypes DEF Live
<1>14. /\ G.last = l /\ G.status = F.status /\ G.errored = F.errored
       /\ G.hist = F.hist /\ G.after = F.after /\ G.upto = F.upto
  <2> HIDE DEF l
  <2> QED
    BY <1>1, <1>9, FeedTook
<1> DEFINE d == Live(h)
<1>15. \/ F.last = NoLsn
       \/ \A t \in Txs : t.lsn > F.last /\ t.lsn <= d.lsn => t.id = d.id
  <2> SUFFICES ASSUME F.last # NoLsn, NEW t \in Txs, t.lsn > F.last, t.lsn <= d.lsn
               PROVE  t.id = d.id
    OBVIOUS
  <2>1. t.id = h.id
    BY <1>1, <1>3, <1>7, <1>8, <1>9, <1>12, <1>13, NextBatch DEF F, P
  <2> QED
    BY <1>13, <2>1
<1>16. Replay(G, oldest)
  BY <1>1, <1>14 DEF Replay
<1>17. NoGap(G, Txs, since)
  <2>1. Start(G) = Start(F)
    BY <1>14 DEF Start
  <2>2. \A t \in Txs : t.lsn \in Nat
    BY <1>0, TxsFacts
  <2>3. \A t \in Txs : t.lsn <= l \/ t.lsn > Start(F)
    BY <1>1, <1>9, <1>11, <2>2
  <2> QED
    BY <1>2, <1>14, <2>1, <2>3 DEF NoGap
<1>18. wal_backed => Seen(G, d.lsn, Kept, Txs)
  <2>1. wal_backed => Fenced(l, Kept, Txs)
    BY <1>10, RestParts DEF HubSecured
  <2> QED
    BY <1>1, <1>13, <1>14, <2>1 DEF Seen
<1>19. ~wal_backed => d.lsn <= (IF active THEN last_assigned ELSE NoLsn)
  BY <1>1, <1>7, <1>9, <1>12, <1>13
<1>20. d \in Delivered /\ Deliver(f, d) /\ G.last = d.lsn /\ ~G.errored /\ G.status = F.status
  BY <1>1, <1>6, <1>13, <1>14
<1>21. Becomes(f, G) /\ feed[f].status # "none" /\ ~feed[f].errored
       /\ G.status = feed[f].status
       /\ (feed[f].last = NoLsn
           \/ \A t \in Txs : t.lsn > feed[f].last /\ t.lsn <= d.lsn => t.id = d.id)
  BY <1>1, <1>3, <1>6, <1>15, <1>20 DEF F
<1> HIDE DEF G, d
<1> QED
  BY <1>7, <1>16, <1>17, <1>18, <1>19, <1>20, <1>21, DeliveredRest

\* A feed that moves without moving its place.
LEMMA StaysRest ==
  ASSUME LiveInv, LiveInv', Rest, NEW f \in Feeds, NEW G, Becomes(f, G), Alike(G, feed[f]),
         CaughtUp(f), UNCHANGED eaten, UNCHANGED <<log, ids, wal, writer, process, hub>>
  PROVE  Rest'
<1>0. TypeOK
  BY DEF LiveInv, HubInv
<1> DEFINE F == feed[f]
<1>1. /\ Position(F, token[f], begun[f], got[f]) /\ Replay(F, oldest) /\ NoGap(F, Txs, since)
      /\ Start(F) \in Nat /\ F.last \in Int /\ since \in Nat /\ Alike(G, F)
  BY <1>0, OneFeed, FeedPlaces DEF TypeOK
<1>2. G.hist # "running"
  BY DEF CaughtUp, Alike
<1>3. \A t \in Txs : t.lsn \in Nat /\ t.id \in Nat /\ t \in Txs
  BY <1>0, TxsFacts
<1> HIDE DEF F
<1>4. Position(G, token[f], begun[f], got[f]) /\ Replay(G, oldest)
  BY <1>1, AlikePlaced
<1> DEFINE T == Txs
<1>5. \A t \in T : t.lsn \in Nat /\ t.id \in Nat /\ t \in T
  BY <1>3
<1>6. NoGap(F, T, since)
  BY <1>1
<1> HIDE DEF T
<1>7. NoGap(G, T, since)
  BY <1>1, <1>5, <1>6, AlikeGap
<1> QED
  BY <1>2, <1>4, <1>7, TurnedRest DEF T

LEMMA PollBacklogRest ==
  ASSUME LiveInv, LiveInv', Rest, NEW f \in Feeds, PollBacklog(f) PROVE Rest'
<1>0. TypeOK /\ HubInv
  BY DEF LiveInv, HubInv
<1> DEFINE F == feed[f]
           bl == F.backlog
           q == F.queue
           h == Head(bl)
           t == Tail(bl)
<1>1. /\ CaughtUp(f) /\ bl # <<>> /\ UNCHANGED <<log, ids, wal, writer, process, hub>>
      /\ h \in Batch /\ t \in Seq(Batch)
      /\ \/ NewTo(f, h) /\ Deliver(f, Live(h)) /\ Becomes(f, Took(F, q, t, h.lsn, F.seen, F.pos))
         \/ /\ ~NewTo(f, h) /\ UNCHANGED eaten
            /\ Becomes(f, Took(F, q, t, F.last, F.seen, F.pos))
  BY <1>0, PollBacklogFacts
<1>2. active /\ F.status # "none" /\ F \in FeedState
  BY <1>0, <1>1, FeedActive
<1>3. /\ bl \in Seq(Batch) /\ q \in Seq(Batch) /\ F.last \in Places
      /\ F.seen \in SUBSET Ids /\ F.pos \in Nat
  BY <1>2, FeedFields
<1>4. Pending(F) # <<>> /\ Head(Pending(F)) = h
  <2>1. Pending(F) = bl \o q
    BY DEF Pending
  <2>2. bl \in Seq(Batch) /\ q \in Seq(Batch) /\ bl # <<>>
    BY <1>1, <1>3
  <2> HIDE DEF F, bl, q
  <2>3. bl \o q # <<>> /\ Head(bl \o q) = Head(bl)
    BY ONLY <2>2, HeadTailJoin
  <2> QED
    BY <2>1, <2>3
<1>5. CASE Deliver(f, Live(h)) /\ Becomes(f, Took(F, q, t, h.lsn, F.seen, F.pos))
  <2>1. /\ h = Head(Pending(feed[f])) /\ Pending(feed[f]) # <<>> /\ feed[f].status # "none"
        /\ Becomes(f, Took(feed[f], q, t, h.lsn, feed[f].seen, feed[f].pos))
    BY <1>2, <1>4, <1>5
  <2> HIDE DEF F, bl, q, t, h
  <2> QED
    BY <1>1, <1>2, <1>3, <1>5, <2>1, TookRest
<1>6. CASE UNCHANGED eaten /\ Becomes(f, Took(F, q, t, F.last, F.seen, F.pos))
  <2> DEFINE l == F.last
             s == F.seen
             p == F.pos
             G == Took(F, q, t, l, s, p)
  <2>1. Becomes(f, G) /\ s \in SUBSET Ids /\ p \in Nat /\ l \in Places /\ l = F.last
        /\ p = F.pos
    BY <1>3, <1>6
  <2> HIDE DEF F, q, t, l, s, p
  <2>2. Alike(G, F)
    BY <1>1, <1>2, <1>3, <2>1, FeedTook DEF Alike
  <2> HIDE DEF G
  <2>3. Alike(G, feed[f])
    BY <2>2 DEF F
  <2> QED
    BY <1>1, <1>6, <2>1, <2>3, StaysRest
<1> QED
  BY <1>1, <1>5, <1>6

LEMMA PollQueueRest ==
  ASSUME LiveInv, LiveInv', Rest, NEW f \in Feeds, PollQueue(f) PROVE Rest'
<1>0. TypeOK /\ HubInv
  BY DEF LiveInv, HubInv
<1> DEFINE F == feed[f]
           bl == F.backlog
           q == F.queue
           h == Head(q)
           t == Tail(q)
<1>1. /\ CaughtUp(f) /\ bl = <<>> /\ q # <<>>
      /\ UNCHANGED <<log, ids, wal, writer, process, hub>>
      /\ h \in Batch /\ t \in Seq(Batch) /\ Deliver(f, Live(h))
      /\ Becomes(f, Took(F, t, bl, h.lsn, F.seen, F.pos))
  BY <1>0, PollQueueFacts
<1>2. active /\ F.status # "none" /\ F \in FeedState
  BY <1>0, <1>1, FeedActive
<1>3. bl \in Seq(Batch) /\ q \in Seq(Batch)
  BY <1>2, FeedFields
<1>4. Pending(F) = q
  <2>1. bl \o q = q
    BY <1>1, <1>3, EmptyPending
  <2> QED
    BY <2>1 DEF Pending
<1>5. /\ h = Head(Pending(feed[f])) /\ Pending(feed[f]) # <<>> /\ feed[f].status # "none"
      /\ Becomes(f, Took(feed[f], t, bl, h.lsn, feed[f].seen, feed[f].pos))
  BY <1>1, <1>2, <1>4
<1> HIDE DEF F, bl, q, t, h
<1> QED
  BY <1>1, <1>2, <1>3, <1>5, TookRest

LEMMA ConsumerRest ==
  ASSUME LiveInv, LiveInv', Rest, NEW f \in Feeds, Consumer(f), "close" \notin Ops PROVE Rest'
<1>0. TypeOK
  BY DEF LiveInv, HubInv
<1>1. ~close_feed(f)
  BY DEF close_feed, May
<1>2. CASE PollLagged(f) \/ Drop(f)
  <2>1. /\ UNCHANGED <<log, ids, wal, writer, process, hub, eaten>>
        /\ feed[f].status # "none"
        /\ Becomes(f, NoFeed) \/ Becomes(f, Ended(feed[f], <<>>))
    BY <1>0, <1>2, PollLaggedFacts, DropFacts
  <2>2. disk \in Nat
    BY <1>0 DEF TypeOK
  <2>3. UNCHANGED <<next_lsn, oldest, disk, durable_lsn>> /\ disk' >= disk
    BY <2>1, <2>2 DEF wal
  <2> QED
    BY <2>1, <2>3, EndedRest
<1>3. CASE Sleep(f)
  <2> DEFINE F == feed[f]
             G == Slept(F)
  <2>1. CaughtUp(f) /\ UNCHANGED <<log, ids, wal, writer, process, hub, eaten>>
        /\ Becomes(f, G) /\ F \in FeedState
    BY <1>0, <1>3, SleepFacts DEF TypeOK
  <2> HIDE DEF F
  <2>2. Alike(G, F)
    BY <2>1, FeedSlept DEF Alike
  <2> HIDE DEF G
  <2>3. Alike(G, feed[f])
    BY <2>2 DEF F
  <2> QED
    BY <2>1, <2>3, StaysRest
<1> QED
  BY <1>1, <1>2, <1>3, SubscribeRest, PlanRest, HistoryStartRest, HistoryNextRest,
     PollBacklogRest, PollQueueRest DEF Consumer, Poll

-----------------------------------------------------------------------------
LEMMA InitResume == Init => ResumeInv
<1> SUFFICES ASSUME Init PROVE ResumeInv
  OBVIOUS
<1>1. LiveInv /\ TypeOK
  BY InitLive, InitHub DEF HubInv
<1>2. /\ log = <<>> /\ ids = 0 /\ since = 0 /\ ~active /\ ~closed /\ durable_lsn = 0
      /\ disk = 0 /\ next_lsn = 1 /\ parked = <<>> /\ stream = <<>>
      /\ \A f \in Feeds : /\ feed[f] = NoFeed /\ token[f] = NoLsn /\ begun[f] = NoLsn
                          /\ got[f] = <<>>
  BY DEF Init
<1>3. DOMAIN log = {} /\ DOMAIN stream = {} /\ DOMAIN parked = {} /\ Kept = 0
  BY <1>2 DEF Kept
<1>4. Txs = {}
  BY <1>3 DEF Txs
<1>5. Captured
  BY <1>2 DEF Captured
<1>6. HubSecured
  BY <1>2, <1>3 DEF HubSecured
<1>7. NoFeed.status = "none" /\ NoFeed.hist = "no"
  BY NoFeedFields
<1>8. FeedsSecured
  <2>1. Seen(NoFeed, NoLsn, Kept, Txs)
    BY <1>1, <1>7, NothingSeen
  <2> QED
    BY <1>2, <2>1 DEF FeedsSecured
<1>9. MemorySecured
  <2>1. NoLsn <= NoLsn
    BY DEF NoLsn
  <2>2. \A f \in Feeds : token[f] <= (IF active THEN last_assigned ELSE NoLsn)
    BY <1>2, <2>1
  <2>3. \A i \in DOMAIN log : log[i].lsn = 0
    BY <1>3
  <2> QED
    BY <2>2, <2>3 DEF MemorySecured
<1>10. Resumes
  BY <1>2, <1>7 DEF Resumes, Position, Replay, NoGap
<1>11. NothingSkipped
  BY <1>2 DEF NothingSkipped
<1> QED
  BY <1>1, <1>2, <1>5, <1>6, <1>8, <1>9, <1>10, <1>11 DEF ResumeInv, Secured

LEMMA StepResume ==
  ASSUME "close" \notin Ops, "truncate_replay" \notin Ops,
         "process_crash" \notin Ops \/ "power_loss" \notin Ops
  PROVE  ResumeInv /\ [Next]_vars => ResumeInv'
<1> SUFFICES ASSUME LiveInv, Rest, [Next]_vars, LiveInv' PROVE Rest'
  BY StepLive DEF ResumeInv, Rest
<1>1. CASE \/ CatalogCommit \/ Fsync \/ FsyncFails \/ ActivateRead \/ Checkpoint
           \/ UNCHANGED vars
  BY <1>1, QuietStepsRest
<1>2. CASE Commit \/ Restore
  BY <1>2, CommitRest, RestoreRest
<1>3. CASE CommitInMemory \/ RestoreInMemory
  BY <1>3, InMemoryRest
<1>4. CASE ActivateListen \/ Activate
  BY <1>4, ActivateListenRest, ActivateRest
<1>5. CASE publish \/ publish_reset
  BY <1>5, PublishRest, PublishResetRest
<1>6. CASE on_durable \/ set_retention
  BY <1>6, OnDurableRest, RetentionRest
<1>7. CASE Restart
  BY <1>7, RestartRest
<1>8. ~close
  BY DEF close, May
<1>9. CASE \E f \in Feeds : Consumer(f)
  BY <1>9, ConsumerRest
<1> QED
  BY <1>1, <1>2, <1>3, <1>4, <1>5, <1>6, <1>7, <1>8, <1>9 DEF Next, Writer

\* A consumer that began at an LSN and never started over has every
\* transaction up to its token, across drops, resumes and crashes: where the
\* window of ChangeHub::subscribe ends the history replay takes over, and
\* ChangeFeed::poll goes on from there without a gap.  Not when a feed that
\* was closed still hands out its backlog, nor when a truncation takes
\* segments from under a replay, nor when a power loss takes what an earlier
\* process, also lost, had only found in its WAL.
THEOREM NothingSkippedHolds ==
  ASSUME "close" \notin Ops, "truncate_replay" \notin Ops,
         "process_crash" \notin Ops \/ "power_loss" \notin Ops
  PROVE  Spec => []NothingSkipped
<1>1. ResumeInv /\ [Next]_vars => ResumeInv'
  BY StepResume
<1>2. ResumeInv => NothingSkipped
  BY DEF ResumeInv
<1> QED
  BY <1>1, <1>2, InitResume, PTL DEF Spec
=============================================================================
