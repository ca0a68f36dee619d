------------------------- MODULE ReaderProxyProofs -------------------------
(***************************************************************************)
(* What the methods of ReaderProxy preserve, for every proxy and history:  *)
(* the proxy has exactly the changes of the history above its low mark,    *)
(* and below the mark is only what its reader may do without.              *)
(***************************************************************************)
EXTENDS ReaderProxy, WellFoundedInduction, TLAPS

\* A number that reader proxy p may do without: written before the reader matched, or
\* acknowledged by it.
Covered(p, s) == s <= p.joined \/ s <= p.acked

\* The fields of a proxy the argument needs; delivered and nextAck are left open.
Shape(p) ==
    /\ p = [active |-> p.active, low |-> p.low, changes |-> p.changes, delivered |-> p.delivered,
            nextAck |-> p.nextAck, suppression |-> p.suppression, joined |-> p.joined,
            acked |-> p.acked]
    /\ p.active \in BOOLEAN /\ p.low \in Nat /\ p.joined \in Nat /\ p.acked \in Nat
    /\ p.changes \in [Seqs -> ChangeStatus]

\* A proxy agrees with a history whose last number is last: it has the changes above its low
\* mark, what has left the history is below the mark, and so is only what it may do without.
ProxyOK(p, history, last) ==
    /\ Shape(p)
    /\ \A s \in Seqs : p.changes[s] # "none" <=> (p.active /\ s \in history /\ s > p.low)
    /\ p.active => /\ p.low <= last
                   /\ \A s \in Seqs : s <= last /\ s \notin history => s <= p.low
                   /\ Covered(p, p.low)

\* The history is an interval that ends with the last number.
HistoryOK(history, last) == \E lo \in 1..(last + 1) : history = lo..last

\* q belongs to the same matched or unmatched reader, with the same past, as p.
SamePast(p, q) == q.active = p.active /\ q.joined = p.joined /\ q.acked = p.acked

-----------------------------------------------------------------------------
LessRel == {ss \in Nat \X Nat : ss[1] < ss[2]}

\* Min() of a nonempty set of natural numbers is its least element.
LEMMA MinIsLeast ==
    ASSUME NEW T, T \subseteq Nat, T # {}
    PROVE  Min(T) \in T /\ \A y \in T : Min(T) <= y
<1>1. IsWellFoundedOn(LessRel, Nat)
  BY NatLessThanWellFounded, Zenon DEF OpToRel, LessRel
<1>2. PICK x \in T : \A y \in T : ~ (<<y, x>> \in LessRel)
  BY <1>1, WFMin
<1>3. \A y \in T : ~ (y < x)
  BY <1>2 DEF LessRel
<1>4. \A y \in T : x <= y
  BY <1>3
<1> QED BY <1>4 DEF Min

\* Max() of two integers is one of them and at least each.
LEMMA MaxOfTwo ==
    ASSUME NEW a \in Int, NEW b \in Int
    PROVE  Max({a, b}) \in {a, b} /\ Max({a, b}) >= a /\ Max({a, b}) >= b
<1>1. \E x \in {a, b} : \A y \in {a, b} : x >= y
  OBVIOUS
<1> QED BY <1>1 DEF Max

\* A nonempty history is the interval from its least number to the last one.
LEMMA HistoryIsInterval ==
    ASSUME NEW history, NEW last \in Nat, HistoryOK(history, last), history # {}
    PROVE  Min(history) \in 1..last /\ history = Min(history)..last
<1>1. PICK lo \in 1..(last + 1) : history = lo..last
  BY DEF HistoryOK
<1>2. Min(history) \in history /\ \A y \in history : Min(history) <= y
  BY <1>1, MinIsLeast
<1>3. lo \in history
  BY <1>1
<1>4. Min(history) = lo
  BY <1>1, <1>2, <1>3
<1> QED BY <1>1, <1>3, <1>4

\* What is below a covered low mark is covered.
LEMMA CoveredBelow ==
    ASSUME NEW p, Shape(p), Covered(p, p.low), NEW s \in Int, s <= p.low
    PROVE  Covered(p, s)
<1>1. p.low \in Nat /\ p.joined \in Nat /\ p.acked \in Nat
  BY DEF Shape
<1> QED BY <1>1 DEF Covered

\* Zero is always covered.
LEMMA ZeroCovered ==
    ASSUME NEW p, Shape(p)
    PROVE  Covered(p, 0)
BY DEF Shape, Covered

-----------------------------------------------------------------------------
ProxyFields ==
    {"active", "low", "changes", "delivered", "nextAck", "suppression", "joined", "acked"}

\* A function on the names of the fields whose values have their types has the shape of a proxy.
LEMMA ShapeFromFields ==
    ASSUME NEW q, q = [x \in ProxyFields |-> q[x]],
           q.active \in BOOLEAN, q.low \in Nat, q.joined \in Nat, q.acked \in Nat,
           q.changes \in [Seqs -> ChangeStatus]
    PROVE  Shape(q)
<1>1. q = [active |-> q.active, low |-> q.low, changes |-> q.changes, delivered |-> q.delivered,
           nextAck |-> q.nextAck, suppression |-> q.suppression, joined |-> q.joined,
           acked |-> q.acked]
  BY DEF ProxyFields
<1> QED BY <1>1, Zenon DEF Shape

\* The fields of a proxy, for the provers.
LEMMA FieldsOfShape ==
    ASSUME NEW p, Shape(p)
    PROVE  /\ DOMAIN p = ProxyFields
           /\ p.active \in BOOLEAN /\ p.low \in Nat /\ p.joined \in Nat /\ p.acked \in Nat
           /\ p.changes \in [Seqs -> ChangeStatus]
BY DEF Shape, ProxyFields

\* A proxy with other changes_for_reader_.
LEMMA ChangesReplaced ==
    ASSUME NEW p, Shape(p), NEW c \in [Seqs -> ChangeStatus]
    PROVE  LET q == [p EXCEPT !.changes = c]
           IN  Shape(q) /\ SamePast(p, q) /\ q.low = p.low /\ q.changes = c
<1> DEFINE q == [p EXCEPT !.changes = c]
<1>1. DOMAIN p = ProxyFields
  BY FieldsOfShape
<1>2. q = [x \in ProxyFields |-> q[x]]
  BY <1>1
<1>3. /\ q.active = p.active /\ q.low = p.low /\ q.changes = c /\ q.joined = p.joined
      /\ q.acked = p.acked
  BY <1>1 DEF ProxyFields
<1> HIDE DEF q
<1>4. Shape(q)
  BY <1>2, <1>3, FieldsOfShape, ShapeFromFields
<1> QED BY <1>3, <1>4 DEF q, SamePast

\* A proxy with another low mark and other changes, as Rewind() leaves it.
WithLow(p, l, c) == [p EXCEPT !.low = l, !.changes = c]

\* Its fields.
LEMMA LowReplaced ==
    ASSUME NEW p, Shape(p), NEW l \in Nat, NEW c \in [Seqs -> ChangeStatus]
    PROVE  /\ Shape(WithLow(p, l, c)) /\ SamePast(p, WithLow(p, l, c))
           /\ WithLow(p, l, c).low = l /\ WithLow(p, l, c).changes = c
<1> DEFINE q == WithLow(p, l, c)
<1>1. DOMAIN p = ProxyFields
  BY FieldsOfShape
<1>2. q = [x \in ProxyFields |-> q[x]]
  BY <1>1 DEF WithLow
<1>3. /\ q.active = p.active /\ q.low = l /\ q.changes = c /\ q.joined = p.joined
      /\ q.acked = p.acked
  BY <1>1 DEF ProxyFields, WithLow
<1> HIDE DEF q
<1>4. Shape(q)
  BY <1>2, <1>3, FieldsOfShape, ShapeFromFields
<1> QED BY <1>3, <1>4 DEF q, SamePast

\* A proxy with another low mark, as Rewind() leaves it when the history is empty.
LEMMA OnlyLowReplaced ==
    ASSUME NEW p, Shape(p), NEW l \in Nat
    PROVE  LET q == [p EXCEPT !.low = l]
           IN  Shape(q) /\ SamePast(p, q) /\ q.low = l /\ q.changes = p.changes
<1> DEFINE q == [p EXCEPT !.low = l]
<1>1. DOMAIN p = ProxyFields
  BY FieldsOfShape
<1>2. q = [x \in ProxyFields |-> q[x]]
  BY <1>1
<1>3. /\ q.active = p.active /\ q.low = l /\ q.changes = p.changes /\ q.joined = p.joined
      /\ q.acked = p.acked
  BY <1>1 DEF ProxyFields
<1> HIDE DEF q
<1>4. Shape(q)
  BY <1>2, <1>3, FieldsOfShape, ShapeFromFields
<1> QED BY <1>3, <1>4 DEF q, SamePast

WithAcked(p, n, a) == [p EXCEPT !.nextAck = n, !.acked = a]

\* A proxy that has accepted an ACKNACK.
LEMMA AckedReplaced ==
    ASSUME NEW p, Shape(p), NEW n, NEW a \in Nat
    PROVE  LET q == WithAcked(p, n, a)
           IN  /\ Shape(q)
               /\ q.active = p.active /\ q.joined = p.joined /\ q.acked = a
               /\ q.low = p.low /\ q.changes = p.changes
<1> DEFINE q == WithAcked(p, n, a)
<1>1. DOMAIN p = ProxyFields
  BY FieldsOfShape
<1>2. q = [x \in ProxyFields |-> q[x]]
  BY <1>1 DEF WithAcked
<1>3. /\ q.active = p.active /\ q.low = p.low /\ q.changes = p.changes /\ q.joined = p.joined
      /\ q.acked = a
  BY <1>1 DEF ProxyFields, WithAcked
<1> HIDE DEF q
<1>4. Shape(q)
  BY <1>2, <1>3, FieldsOfShape, ShapeFromFields
<1> QED BY <1>3, <1>4 DEF q

WithMatch(p, j) == [p EXCEPT !.active = TRUE, !.joined = j]

\* A proxy that has been matched.
LEMMA MatchedReplaced ==
    ASSUME NEW p, Shape(p), NEW j \in Nat
    PROVE  LET q == WithMatch(p, j)
           IN  Shape(q) /\ q.active /\ q.joined = j /\ q.low = p.low
<1> DEFINE q == WithMatch(p, j)
<1>1. DOMAIN p = ProxyFields
  BY FieldsOfShape
<1>2. q = [x \in ProxyFields |-> q[x]]
  BY <1>1 DEF WithMatch
<1>3. /\ q.active = TRUE /\ q.low = p.low /\ q.changes = p.changes /\ q.joined = j
      /\ q.acked = p.acked
  BY <1>1 DEF ProxyFields, WithMatch
<1> HIDE DEF q
<1>4. Shape(q)
  BY <1>2, <1>3, FieldsOfShape, ShapeFromFields
<1> QED BY <1>3, <1>4 DEF q

\* A proxy whose suppression timer has fired.
LEMMA SuppressionReplaced ==
    ASSUME NEW p, Shape(p)
    PROVE  LET q == [p EXCEPT !.suppression = FALSE]
           IN  Shape(q) /\ SamePast(p, q) /\ q.low = p.low /\ q.changes = p.changes
<1> DEFINE q == [p EXCEPT !.suppression = FALSE]
<1>1. DOMAIN p = ProxyFields
  BY FieldsOfShape
<1>2. q = [x \in ProxyFields |-> q[x]]
  BY <1>1
<1>3. /\ q.active = p.active /\ q.low = p.low /\ q.changes = p.changes /\ q.joined = p.joined
      /\ q.acked = p.acked
  BY <1>1 DEF ProxyFields
<1> HIDE DEF q
<1>4. Shape(q)
  BY <1>2, <1>3, FieldsOfShape, ShapeFromFields
<1> QED BY <1>3, <1>4 DEF q, SamePast

\* A proxy that has the same changes and the same low mark agrees as before.
LEMMA SameChangesKeep ==
    ASSUME NEW p, NEW q, NEW history, NEW last, ProxyOK(p, history, last), Shape(q),
           SamePast(p, q), q.low = p.low,
           \A s \in Seqs : q.changes[s] # "none" <=> p.changes[s] # "none"
    PROVE  ProxyOK(q, history, last)
BY Zenon DEF ProxyOK, SamePast, Covered

\* Changing the status of changes keeps which changes the proxy has.
LEMMA ConvertKeeps ==
    ASSUME NEW p, NEW history, NEW last, ProxyOK(p, history, last),
           NEW previous \in ChangeStatus \ {"none"}, NEW next \in ChangeStatus \ {"none"}
    PROVE  LET q == convert_status_on_all_changes(p, previous, next)
           IN  ProxyOK(q, history, last) /\ SamePast(p, q)
<1> DEFINE c == [s \in Seqs |-> IF p.changes[s] = previous THEN next ELSE p.changes[s]]
<1> DEFINE q == [p EXCEPT !.changes = c]
<1>1. Shape(p) /\ p.changes \in [Seqs -> ChangeStatus]
  BY FieldsOfShape DEF ProxyOK
<1>2. c \in [Seqs -> ChangeStatus] /\ \A s \in Seqs : c[s] # "none" <=> p.changes[s] # "none"
  BY <1>1
<1>3. convert_status_on_all_changes(p, previous, next) = q
  BY Zenon DEF convert_status_on_all_changes
<1> HIDE DEF c
<1>4. Shape(q) /\ SamePast(p, q) /\ q.low = p.low /\ q.changes = c
  BY <1>1, <1>2, ChangesReplaced
<1> HIDE DEF q
<1>5. ProxyOK(q, history, last)
  BY <1>2, <1>4, SameChangesKeep
<1> QED BY <1>3, <1>4, <1>5

\* The proxy of an unmatched reader agrees with every history.
LEMMA NoProxyOK ==
    ASSUME NEW history, NEW last
    PROVE  Shape(NoProxy) /\ ProxyOK(NoProxy, history, last) /\ ~NoProxy.active
<1>1. Shape(NoProxy)
  BY DEF Shape, NoProxy, ChangeStatus
<1>2. ~NoProxy.active /\ \A s \in Seqs : NoProxy.changes[s] = "none"
  BY DEF NoProxy
<1> QED BY <1>1, <1>2 DEF ProxyOK

\* What acked_changes_set() leaves of a proxy when everything below seq is done with.
LEMMA AckBelowResult ==
    ASSUME NEW p, Shape(p), MaxSeq \in Nat, NEW seq \in Nat \ {0}
    PROVE  /\ Shape(AckBelow(p, seq))
           /\ SamePast(p, AckBelow(p, seq))
           /\ AckBelow(p, seq).low = seq - 1
           /\ \A s \in Seqs : AckBelow(p, seq).changes[s] # "none" <=>
                                (p.changes[s] # "none" /\ s >= seq)
<1> DEFINE q == AckBelow(p, seq)
<1> DEFINE c == [s \in Seqs |-> IF s < seq THEN "none" ELSE p.changes[s]]
<1> DEFINE d == {s \in p.delivered : s >= seq}
<1>1. DOMAIN p = {"active", "low", "changes", "delivered", "nextAck", "suppression", "joined",
                  "acked"}
  BY DEF Shape
<1>2. q = [p EXCEPT !.low = seq - 1, !.changes = c, !.delivered = d]
  BY Zenon DEF AckBelow
<1>3. /\ c \in [Seqs -> ChangeStatus]
      /\ \A s \in Seqs : c[s] # "none" <=> (p.changes[s] # "none" /\ s >= seq)
  BY DEF Shape, ChangeStatus, Seqs
<1> HIDE DEF q, c, d
<1>4. q = [x \in DOMAIN p |-> q[x]]
  BY <1>2
<1>5. /\ q.active = p.active /\ q.low = seq - 1 /\ q.changes = c
      /\ q.joined = p.joined /\ q.acked = p.acked
  BY <1>1, <1>2
<1>6. q = [active |-> q.active, low |-> q.low, changes |-> q.changes, delivered |-> q.delivered,
           nextAck |-> q.nextAck, suppression |-> q.suppression, joined |-> q.joined,
           acked |-> q.acked]
  BY <1>1, <1>4
<1>7. Shape(q)
  <2>1. q.active \in BOOLEAN /\ q.low \in Nat /\ q.joined \in Nat /\ q.acked \in Nat
    BY <1>5 DEF Shape
  <2>2. q.changes \in [Seqs -> ChangeStatus]
    BY <1>3, <1>5
  <2> QED BY <1>6, <2>1, <2>2, Zenon DEF Shape
<1>8. SamePast(p, q) /\ q.low = seq - 1
  BY <1>5 DEF SamePast
<1>9. \A s \in Seqs : q.changes[s] # "none" <=> (p.changes[s] # "none" /\ s >= seq)
  BY <1>3, <1>5
<1> QED BY <1>7, <1>8, <1>9 DEF q

\* acked_changes_set() keeps a matched proxy in agreement with the history when what it is
\* told is done with has been acknowledged.
LEMMA AckedSetKeeps ==
    ASSUME MaxSeq \in Nat, NEW history, NEW last \in 0..MaxSeq, HistoryOK(history, last),
           last > 0 => history # {}, NEW p, ProxyOK(p, history, last), p.active,
           NEW base \in 0..(last + 1), base - 1 <= p.acked
    PROVE  LET q == acked_changes_set(p, base, history, last)
           IN  ProxyOK(q, history, last) /\ SamePast(p, q)
<1> DEFINE q == acked_changes_set(p, base, history, last)
<1>1. /\ last \in 0..MaxSeq /\ HistoryOK(history, last)
      /\ last > 0 => history # {}
  OBVIOUS
<1>2. /\ Shape(p) /\ p.low \in Nat /\ p.joined \in Nat /\ p.acked \in Nat
      /\ p.changes \in [Seqs -> ChangeStatus]
  BY FieldsOfShape DEF ProxyOK
<1>3. /\ \A s \in Seqs : p.changes[s] # "none" <=> (s \in history /\ s > p.low)
      /\ p.low <= last
      /\ \A s \in Seqs : s <= last /\ s \notin history => s <= p.low
      /\ Covered(p, p.low)
  BY DEF ProxyOK
<1>4. CASE base > p.low
  <2>1. q = AckBelow(p, base) /\ base \in Nat \ {0}
    BY <1>1, <1>2, <1>4 DEF acked_changes_set
  <2>2. /\ Shape(q) /\ SamePast(p, q) /\ q.low = base - 1
        /\ \A s \in Seqs : q.changes[s] # "none" <=> (p.changes[s] # "none" /\ s >= base)
    BY <1>2, <2>1, AckBelowResult
  <2> HIDE DEF q
  <2>3. \A s \in Seqs : q.changes[s] # "none" <=> (s \in history /\ s > base - 1)
    BY <1>2, <1>3, <1>4, <2>2 DEF Seqs
  <2>4. base - 1 <= last /\ \A s \in Seqs : s <= last /\ s \notin history => s <= base - 1
    BY <1>1, <1>2, <1>3, <1>4 DEF Seqs
  <2>5. q.active /\ Covered(q, base - 1)
    BY <2>2 DEF SamePast, Covered
  <2>6. ProxyOK(q, history, last)
    BY <2>2, <2>3, <2>4, <2>5, Zenon DEF ProxyOK
  <2> QED BY <2>2, <2>6 DEF q
<1>5. CASE ~ (base > p.low) /\ base = 0
  <2>1. q = Rewind(p, history, last)
    BY <1>5 DEF acked_changes_set
  <2>2. CASE history = {}
    <3>1. last = 0 /\ p.low = 0
      BY <1>1, <1>2, <1>3, <2>2
    <3>2. q = [p EXCEPT !.low = last]
      BY <2>1, <2>2 DEF Rewind
    <3>3. Shape(q) /\ SamePast(p, q) /\ q.low = last /\ q.changes = p.changes
      BY <1>1, <1>2, <3>2, OnlyLowReplaced
    <3> HIDE DEF q
    <3>4. ProxyOK(q, history, last)
      BY <3>1, <3>3, SameChangesKeep
    <3> QED BY <3>3, <3>4 DEF q
  <2>3. CASE history # {}
    <3> DEFINE first == Min(history)
    <3> DEFINE c == [s \in Seqs |-> IF s \in history /\ s <= p.low
                                    THEN "UNACKNOWLEDGED" ELSE p.changes[s]]
    <3>1. first \in 1..last /\ history = first..last /\ last \in Nat
      BY <1>1, <2>3, HistoryIsInterval
    <3>2. first - 1 <= p.low /\ first - 1 \in Nat
      <4>1. CASE first = 1
        BY <4>1, <1>2
      <4>2. CASE first > 1
        <5>1. first - 1 \in Seqs /\ first - 1 <= last /\ first - 1 \notin history
          BY <3>1, <4>2, <1>1 DEF Seqs
        <5> QED BY <5>1, <1>3 DEF Seqs
      <4> QED BY <3>1, <4>1, <4>2
    <3>3. q = [p EXCEPT !.low = first - 1, !.changes = c]
      BY <2>1, <2>3, Zenon DEF Rewind
    <3>4. /\ c \in [Seqs -> ChangeStatus]
          /\ \A s \in Seqs : c[s] # "none" <=> s \in history
      <4>1. c \in [Seqs -> ChangeStatus]
        BY <1>2 DEF ChangeStatus
      <4>2. ASSUME NEW s \in Seqs PROVE c[s] # "none" <=> s \in history
        <5>1. s \in Int /\ (p.changes[s] # "none" <=> (s \in history /\ s > p.low))
          BY <1>3 DEF Seqs
        <5>2. c[s] = IF s \in history /\ s <= p.low THEN "UNACKNOWLEDGED" ELSE p.changes[s]
          OBVIOUS
        <5> QED BY <1>2, <5>1, <5>2
      <4> QED BY <4>1, <4>2
    <3> HIDE DEF q, c, first
    <3>5. Shape(q) /\ SamePast(p, q) /\ q.low = first - 1 /\ q.changes = c
      <4> DEFINE l == first - 1
      <4>1. l \in Nat /\ q = WithLow(p, l, c)
        BY <3>2, <3>3 DEF WithLow
      <4> HIDE DEF l
      <4>2. Shape(q) /\ SamePast(p, q) /\ q.low = l /\ q.changes = c
        <5>1. Shape(p) /\ c \in [Seqs -> ChangeStatus]
          BY <1>2, <3>4
        <5>2. /\ Shape(WithLow(p, l, c)) /\ SamePast(p, WithLow(p, l, c))
              /\ WithLow(p, l, c).low = l /\ WithLow(p, l, c).changes = c
          BY <5>1, <4>1, LowReplaced
        <5> QED BY <5>2, <4>1
      <4> QED BY <4>2 DEF l
    <3>6. \A s \in Seqs : q.changes[s] # "none" <=> (s \in history /\ s > q.low)
      BY <3>1, <3>4, <3>5 DEF Seqs
    <3>7. q.low <= last /\ \A s \in Seqs : s <= last /\ s \notin history => s <= q.low
      BY <3>1, <3>5 DEF Seqs
    <3>8. q.active /\ Covered(q, q.low)
      <4>1. Covered(p, first - 1)
        BY <1>2, <1>3, <3>2, CoveredBelow
      <4> QED BY <3>5, <4>1 DEF SamePast, Covered
    <3>9. ProxyOK(q, history, last)
      BY <3>5, <3>6, <3>7, <3>8, Zenon DEF ProxyOK
    <3> QED BY <3>5, <3>9 DEF q
  <2> QED BY <2>2, <2>3
<1>6. CASE ~ (base > p.low) /\ base # 0
  <2>1. q = p
    BY <1>6 DEF acked_changes_set
  <2> QED BY <2>1 DEF SamePast
<1> QED BY <1>4, <1>5, <1>6

\* Adding the next change to the proxy of a matched reader.
LEMMA AddChangeKeepsProxy ==
    ASSUME NEW p, NEW history, NEW last \in Nat, MaxSeq \in Nat, last < MaxSeq,
           HistoryOK(history, last), ProxyOK(p, history, last)
    PROVE  LET q == IF p.active THEN add_change(p, last + 1) ELSE p
           IN  ProxyOK(q, history \cup {last + 1}, last + 1) /\ SamePast(p, q)
<1> DEFINE seq == last + 1
<1> DEFINE grown == history \cup {seq}
<1>1. seq \in Seqs /\ seq \notin history /\ \A s \in Seqs : s <= last + 1 => s <= last \/ s = seq
  BY DEF Seqs, HistoryOK
<1>2. /\ Shape(p) /\ p.active \in BOOLEAN /\ p.low \in Nat
      /\ p.changes \in [Seqs -> ChangeStatus]
  BY FieldsOfShape DEF ProxyOK
<1>3. CASE ~p.active
  <2>1. ProxyOK(p, grown, seq)
    BY <1>3 DEF ProxyOK
  <2> QED BY <1>3, <2>1 DEF SamePast
<1>4. CASE p.active
  <2> DEFINE c == [p.changes EXCEPT ![seq] = "UNSENT"]
  <2> DEFINE q == [p EXCEPT !.changes = c]
  <2>1. add_change(p, seq) = q
    BY DEF add_change
  <2>2. /\ c \in [Seqs -> ChangeStatus]
        /\ \A s \in Seqs : c[s] # "none" <=> (p.changes[s] # "none" \/ s = seq)
    BY <1>1, <1>2 DEF ChangeStatus
  <2> HIDE DEF c
  <2>3. Shape(q) /\ SamePast(p, q) /\ q.low = p.low /\ q.changes = c
    BY <1>2, <2>2, ChangesReplaced
  <2> HIDE DEF q
  <2>4. p.low <= last /\ Covered(p, p.low)
    BY <1>4 DEF ProxyOK
  <2>5. \A s \in Seqs : q.changes[s] # "none" <=> (s \in grown /\ s > q.low)
    BY <1>2, <1>4, <2>2, <2>3, <2>4 DEF ProxyOK
  <2>6. \A s \in Seqs : s <= seq /\ s \notin grown => s <= q.low
    BY <1>1, <1>4, <2>3 DEF ProxyOK
  <2>7. q.active /\ q.low <= seq /\ Covered(q, q.low)
    BY <1>2, <1>4, <2>3, <2>4 DEF Covered, SamePast
  <2>8. ProxyOK(q, grown, seq)
    BY <2>3, <2>5, <2>6, <2>7, Zenon DEF ProxyOK
  <2> QED BY <1>4, <2>1, <2>3, <2>8
<1> QED BY <1>2, <1>3, <1>4

\* Putting an unsent change in a message.
LEMMA UnderwayKeepsProxy ==
    ASSUME NEW p, NEW history, NEW last, NEW seq, ProxyOK(p, history, last),
           p.changes[seq] = "UNSENT"
    PROVE  LET q == from_unsent_to_status(p, seq)
           IN  ProxyOK(q, history, last) /\ SamePast(p, q)
<1> DEFINE c == [p.changes EXCEPT ![seq] = "UNDERWAY"]
<1> DEFINE q == from_unsent_to_status(p, seq)
<1>1. Shape(p) /\ DOMAIN p = ProxyFields /\ p.changes \in [Seqs -> ChangeStatus]
  BY FieldsOfShape DEF ProxyOK
<1>2. c \in [Seqs -> ChangeStatus] /\ \A s \in Seqs : c[s] # "none" <=> p.changes[s] # "none"
  BY <1>1 DEF ChangeStatus
<1>3. q = [x \in ProxyFields |-> q[x]]
  BY <1>1 DEF from_unsent_to_status
<1>4. /\ q.active = p.active /\ q.low = p.low /\ q.changes = c /\ q.joined = p.joined
      /\ q.acked = p.acked
  BY <1>1 DEF ProxyFields, from_unsent_to_status
<1> HIDE DEF c, q
<1>5. Shape(q) /\ SamePast(p, q)
  BY <1>1, <1>2, <1>3, <1>4, FieldsOfShape, ShapeFromFields DEF SamePast
<1>6. ProxyOK(q, history, last)
  BY <1>2, <1>4, <1>5, SameChangesKeep
<1> QED BY <1>5, <1>6 DEF q

\* Removing the least change of the history, once it is covered.
LEMMA RemovalKeepsProxy ==
    ASSUME NEW p, NEW history, NEW last \in 0..MaxSeq, MaxSeq \in Nat, history # {},
           HistoryOK(history, last), ProxyOK(p, history, last),
           p.active => Covered(p, Min(history))
    PROVE  LET q == change_has_been_removed(p, Min(history))
           IN  ProxyOK(q, history \ {Min(history)}, last) /\ SamePast(p, q)
<1> DEFINE seq == Min(history)
<1> DEFINE rest == history \ {seq}
<1>1. seq \in 1..last /\ seq \in Seqs /\ history = seq..last
  BY HistoryIsInterval DEF Seqs
<1> HIDE DEF seq
<1>2. Shape(p) /\ p.low \in Nat /\ p.active \in BOOLEAN
  BY FieldsOfShape DEF ProxyOK
<1>3. CASE p.changes[seq] = "none"
  <2>1. p.active => seq <= p.low
    BY <1>1, <1>2, <1>3 DEF ProxyOK
  <2>2. \A s \in Seqs : p.changes[s] # "none" <=> (p.active /\ s \in rest /\ s > p.low)
    BY <1>1, <1>2, <2>1 DEF ProxyOK, Seqs
  <2>3. ProxyOK(p, rest, last)
    BY <2>1, <2>2 DEF ProxyOK
  <2>4. change_has_been_removed(p, seq) = p
    BY <1>3 DEF change_has_been_removed
  <2> QED BY <2>3, <2>4 DEF SamePast, seq
<1>4. CASE p.changes[seq] # "none"
  <2>1. p.active /\ seq > p.low
    BY <1>1, <1>4 DEF ProxyOK
  <2>2. p.low + 1 = seq
    <3>1. CASE seq = 1
      BY <1>2, <2>1, <3>1
    <3>2. CASE seq > 1
      <4>1. seq - 1 \in Seqs /\ seq - 1 <= last /\ seq - 1 \notin history
        BY <1>1, <3>2 DEF Seqs
      <4>2. seq - 1 <= p.low
        BY <2>1, <4>1 DEF ProxyOK
      <4> QED BY <1>1, <1>2, <2>1, <4>2
    <3> QED BY <1>1, <3>1, <3>2
  <2> DEFINE n == seq + 1
  <2> DEFINE q == AckBelow(p, n)
  <2>3. change_has_been_removed(p, seq) = q
    BY <1>4, <2>2 DEF change_has_been_removed
  <2>4. n \in Nat \ {0} /\ n - 1 = seq
    BY <1>1
  <2> HIDE DEF n
  <2>5. /\ Shape(q) /\ SamePast(p, q) /\ q.low = n - 1
        /\ \A s \in Seqs : q.changes[s] # "none" <=> (p.changes[s] # "none" /\ s >= n)
    BY <1>2, <2>4, AckBelowResult
  <2> HIDE DEF q
  <2>6. \A s \in Seqs : q.changes[s] # "none" <=> (s \in rest /\ s > q.low)
    <3>1. \A s \in Seqs : p.changes[s] # "none" <=> (s \in history /\ s > p.low)
      BY <2>1 DEF ProxyOK
    <3>2. q.low = seq /\ n = seq + 1
      BY <2>4, <2>5 DEF n
    <3> QED BY <1>1, <1>2, <2>2, <2>5, <3>1, <3>2 DEF Seqs
  <2>7. q.low <= last /\ \A s \in Seqs : s <= last /\ s \notin rest => s <= q.low
    BY <1>1, <2>4, <2>5 DEF Seqs
  <2>8. q.active /\ Covered(q, q.low)
    <3>1. Covered(p, seq)
      BY <2>1 DEF seq
    <3> QED BY <2>1, <2>4, <2>5, <3>1 DEF Covered, SamePast
  <2>9. ProxyOK(q, rest, last)
    BY <2>5, <2>6, <2>7, <2>8, Zenon DEF ProxyOK
  <2> QED BY <2>3, <2>5, <2>9 DEF seq
<1> QED BY <1>3, <1>4

\* The proxy of a reader that has just been matched: all of the history is in it, and whatever
\* is written already is covered.
Joined(history, last) ==
    [start(history, last) EXCEPT
        !.changes = [s \in Seqs |-> IF s \in history THEN "UNACKNOWLEDGED" ELSE "none"]]

\* It agrees with the history.
LEMMA JoinedOK ==
    ASSUME MaxSeq \in Nat, NEW history, NEW last \in 0..MaxSeq, HistoryOK(history, last)
    PROVE  /\ ProxyOK(Joined(history, last), history, last)
           /\ Joined(history, last).active
           /\ \A s \in Int : s <= last => Covered(Joined(history, last), s)
<1> DEFINE p == Rewind(NoProxy, history, last)
<1> DEFINE c == [s \in Seqs |-> IF s \in history THEN "UNACKNOWLEDGED" ELSE "none"]
<1> DEFINE m == WithMatch(p, last)
<1> DEFINE q == Joined(history, last)
<1>1. Shape(p) /\ (IF history = {} THEN p.low = last ELSE p.low = Min(history) - 1)
  <2>1. Shape(NoProxy)
    BY NoProxyOK
  <2>2. CASE history = {}
    <3>1. p = [NoProxy EXCEPT !.low = last]
      BY <2>2 DEF Rewind
    <3> HIDE DEF p
    <3> QED BY <2>1, <2>2, <3>1, OnlyLowReplaced
  <2>3. CASE history # {}
    <3> DEFINE l == Min(history) - 1
    <3> DEFINE d == [s \in Seqs |-> IF s \in history /\ s <= NoProxy.low
                                    THEN "UNACKNOWLEDGED" ELSE NoProxy.changes[s]]
    <3>1. p = WithLow(NoProxy, l, d)
      BY <2>3, Zenon DEF Rewind, WithLow
    <3>2. l \in Nat
      BY <2>3, HistoryIsInterval
    <3>3. d \in [Seqs -> ChangeStatus]
      BY DEF NoProxy, ChangeStatus
    <3> HIDE DEF p, d, l
    <3>4. Shape(WithLow(NoProxy, l, d)) /\ WithLow(NoProxy, l, d).low = l
      BY <2>1, <3>2, <3>3, LowReplaced
    <3>5. Shape(p) /\ p.low = l
      BY <3>1, <3>4
    <3> QED BY <2>3, <3>5 DEF l
  <2> QED BY <2>2, <2>3
<1>2. c \in [Seqs -> ChangeStatus] /\ \A s \in Seqs : c[s] # "none" <=> s \in history
  BY DEF ChangeStatus
<1>3. q = [m EXCEPT !.changes = c]
  BY Zenon DEF Joined, start, WithMatch
<1> HIDE DEF p, c, q
<1>4. Shape(m) /\ m.active /\ m.joined = last /\ m.low = p.low
  BY <1>1, MatchedReplaced
<1> HIDE DEF m
<1>5. Shape(q) /\ SamePast(m, q) /\ q.low = p.low /\ q.changes = c
  BY <1>2, <1>3, <1>4, ChangesReplaced
<1>6. q.active /\ q.joined = last
  BY <1>4, <1>5 DEF SamePast
<1>7. /\ q.low \in Int /\ q.low <= last
      /\ \A s \in Seqs : q.changes[s] # "none" <=> (s \in history /\ s > q.low)
      /\ \A s \in Seqs : s <= last /\ s \notin history => s <= q.low
  <2>1. CASE history = {}
    BY <1>1, <1>2, <1>5, <2>1 DEF Seqs
  <2>2. CASE history # {}
    <3>1. Min(history) \in 1..last /\ history = Min(history)..last
      BY <2>2, HistoryIsInterval
    <3>2. q.low = Min(history) - 1
      BY <1>1, <1>5, <2>2
    <3> QED BY <1>2, <1>5, <3>1, <3>2 DEF Seqs
  <2> QED BY <2>1, <2>2
<1>8. \A s \in Int : s <= last => Covered(q, s)
  BY <1>6 DEF Covered
<1>9. ProxyOK(q, history, last)
  BY <1>5, <1>6, <1>7, <1>8, Zenon DEF ProxyOK
<1> QED BY <1>6, <1>8, <1>9 DEF q

-----------------------------------------------------------------------------
\* The fields ProxyOK leaves open have their types.
Typed(p) == p.delivered \subseteq Seqs /\ p.nextAck \in Nat /\ p.suppression \in BOOLEAN

\* Every change of the proxy has something that will move it on: an unsent one is among those
\* linked in the flow controller, and the timers nack, the proxy's suppression and hb run for
\* the others.
Moving(p, linked, nack, hb) ==
    \A s \in Seqs :
        /\ p.changes[s] = "UNSENT" => s \in linked
        /\ p.changes[s] = "REQUESTED" => nack
        /\ p.changes[s] = "UNDERWAY" => p.suppression
        /\ p.changes[s] = "UNACKNOWLEDGED" => hb

\* q is what is left of p when changes are done with.
LeftOf(p, q) ==
    /\ q.delivered \subseteq p.delivered /\ q.nextAck = p.nextAck /\ q.suppression = p.suppression
    /\ \A s \in Seqs : q.changes[s] \in {"none", p.changes[s]}

\* What is left of a proxy needs no more than it did, and what has moved on needs no more either.
LEMMA LeftMoves ==
    ASSUME NEW p, NEW q, NEW linked, NEW nack, NEW hb, LeftOf(p, q), Typed(p),
           Moving(p, linked, nack, hb)
    PROVE  Typed(q) /\ Moving(q, linked, nack, hb)
BY DEF LeftOf, Typed, Moving

\* More changes linked and more timers running do not hurt.
LEMMA MovingMore ==
    ASSUME NEW p, NEW linked, NEW nack, NEW hb, NEW linked2, NEW nack2, NEW hb2,
           Moving(p, linked, nack, hb),
           \A s \in Seqs : p.changes[s] = "UNSENT" /\ s \in linked => s \in linked2,
           nack => nack2, hb => hb2
    PROVE  Moving(p, linked2, nack2, hb2)
BY DEF Moving

\* A proxy in the pool.
LEMMA NoProxyMoves ==
    ASSUME NEW linked, NEW nack, NEW hb
    PROVE  Typed(NoProxy) /\ Moving(NoProxy, linked, nack, hb)
BY DEF NoProxy, Typed, Moving

\* What add_change() makes of a proxy.
LEMMA AddChangeResult ==
    ASSUME NEW p, Shape(p), NEW seq \in Seqs
    PROVE  LET q == add_change(p, seq)
           IN  /\ q.delivered = p.delivered /\ q.nextAck = p.nextAck
               /\ q.suppression = p.suppression /\ q.active = p.active
               /\ q.changes = [p.changes EXCEPT ![seq] = "UNSENT"]
BY FieldsOfShape DEF ProxyFields, add_change

\* What from_unsent_to_status() makes of a proxy.
LEMMA UnderwayResult ==
    ASSUME NEW p, Shape(p), NEW seq \in Seqs
    PROVE  LET q == from_unsent_to_status(p, seq)
           IN  /\ q.delivered = p.delivered \cup {seq} /\ q.nextAck = p.nextAck
               /\ q.suppression = TRUE
               /\ q.changes = [p.changes EXCEPT ![seq] = "UNDERWAY"]
BY FieldsOfShape DEF ProxyFields, from_unsent_to_status

\* It keeps its types.
LEMMA UnderwayTyped ==
    ASSUME NEW p, Shape(p), Typed(p), NEW seq \in Seqs
    PROVE  Typed(from_unsent_to_status(p, seq))
<1> DEFINE q == from_unsent_to_status(p, seq)
<1>1. q.delivered = p.delivered \cup {seq} /\ q.nextAck = p.nextAck /\ q.suppression = TRUE
  BY UnderwayResult
<1> HIDE DEF q
<1>2. Typed(q)
  BY <1>1 DEF Typed
<1> QED BY <1>2 DEF q

\* A change put in a message waits for the suppression timer.
LEMMA UnderwayMoves ==
    ASSUME NEW p, Shape(p), NEW seq \in Seqs, NEW linked, NEW nack, NEW hb,
           Moving(p, linked, nack, hb)
    PROVE  Moving(from_unsent_to_status(p, seq), linked \ {seq}, nack, hb)
<1> DEFINE q == from_unsent_to_status(p, seq)
<1>1. q.suppression = TRUE /\ q.changes = [p.changes EXCEPT ![seq] = "UNDERWAY"]
  BY UnderwayResult
<1>2. p.changes \in [Seqs -> ChangeStatus]
  BY FieldsOfShape
<1> HIDE DEF q
<1>3. Moving(q, linked \ {seq}, nack, hb)
  BY <1>1, <1>2 DEF Moving
<1> QED BY <1>3 DEF q

\* What convert_status_on_all_changes() makes of a proxy.
LEMMA ConvertResult ==
    ASSUME NEW p, Shape(p), NEW previous, NEW next
    PROVE  LET q == convert_status_on_all_changes(p, previous, next)
           IN  /\ q.delivered = p.delivered /\ q.nextAck = p.nextAck
               /\ q.suppression = p.suppression /\ DOMAIN q = ProxyFields
               /\ q.changes =
                    [s \in Seqs |-> IF p.changes[s] = previous THEN next ELSE p.changes[s]]
BY FieldsOfShape DEF ProxyFields, convert_status_on_all_changes

\* What requested_changes_set() makes of a proxy.
LEMMA RequestedResult ==
    ASSUME NEW p, Shape(p), NEW missing
    PROVE  LET q == requested_changes_set(p, missing)
           IN  /\ q.delivered = p.delivered /\ q.nextAck = p.nextAck
               /\ q.suppression = p.suppression
               /\ q.changes =
                    [s \in Seqs |-> IF s \in missing /\ p.changes[s] = "UNACKNOWLEDGED"
                                    THEN "REQUESTED" ELSE p.changes[s]]
BY FieldsOfShape DEF ProxyFields, requested_changes_set

\* A requested change waits for the nack response timer, which is started for it.
LEMMA RequestedMoves ==
    ASSUME NEW p, Shape(p), Typed(p), NEW missing, NEW linked, NEW nack, NEW hb,
           Moving(p, linked, nack, hb)
    PROVE  LET q == requested_changes_set(p, missing)
           IN  Typed(q) /\ Moving(q, linked, nack \/ q # p, hb)
<1> DEFINE q == requested_changes_set(p, missing)
<1>1. /\ q.delivered = p.delivered /\ q.nextAck = p.nextAck
      /\ q.suppression = p.suppression
      /\ q.changes = [s \in Seqs |-> IF s \in missing /\ p.changes[s] = "UNACKNOWLEDGED"
                                     THEN "REQUESTED" ELSE p.changes[s]]
  BY RequestedResult
<1> HIDE DEF q
<1>2. Typed(q)
  BY <1>1 DEF Typed
<1>3. ASSUME NEW s \in Seqs, q.changes[s] # p.changes[s]
      PROVE  q.changes[s] = "REQUESTED" /\ q # p
  BY <1>1, <1>3
<1>4. ASSUME NEW s \in Seqs
      PROVE  /\ q.changes[s] = "UNSENT" => s \in linked
             /\ q.changes[s] = "REQUESTED" => (nack \/ q # p)
             /\ q.changes[s] = "UNDERWAY" => q.suppression
             /\ q.changes[s] = "UNACKNOWLEDGED" => hb
  <2>1. CASE q.changes[s] = p.changes[s]
    BY <1>1, <2>1 DEF Moving
  <2>2. CASE q.changes[s] # p.changes[s]
    BY <1>3, <2>2
  <2> QED BY <2>1, <2>2
<1>5. Moving(q, linked, nack \/ q # p, hb)
  BY <1>4 DEF Moving
<1> QED BY <1>2, <1>5 DEF q

\* What is left of a proxy when everything below seq is done with.
LEMMA AckBelowLeaves ==
    ASSUME NEW p, Shape(p), NEW seq
    PROVE  LeftOf(p, AckBelow(p, seq))
<1> DEFINE q == AckBelow(p, seq)
<1>1. /\ q.delivered = {s \in p.delivered : s >= seq} /\ q.nextAck = p.nextAck
      /\ q.suppression = p.suppression
      /\ q.changes = [s \in Seqs |-> IF s < seq THEN "none" ELSE p.changes[s]]
  BY FieldsOfShape DEF ProxyFields, AckBelow
<1> HIDE DEF q
<1>2. LeftOf(p, q)
  BY <1>1 DEF LeftOf
<1> QED BY <1>2 DEF q

\* acked_changes_set() keeps the types.
LEMMA AckedSetTyped ==
    ASSUME NEW p, Shape(p), Typed(p), NEW base, NEW history, NEW last
    PROVE  Typed(acked_changes_set(p, base, history, last))
<1>1. Typed(AckBelow(p, base))
  BY AckBelowLeaves DEF LeftOf, Typed
<1>2. Typed(Rewind(p, history, last))
  <2> DEFINE q == Rewind(p, history, last)
  <2>1. q.delivered = p.delivered /\ q.nextAck = p.nextAck /\ q.suppression = p.suppression
    BY FieldsOfShape DEF ProxyFields, Rewind
  <2> HIDE DEF q
  <2>2. Typed(q)
    BY <2>1 DEF Typed
  <2> QED BY <2>2 DEF q
<1> QED BY <1>1, <1>2 DEF acked_changes_set

\* acked_changes_set() leaves a part of the proxy, unless everything is asked for again: then
\* the periodic heartbeat must run.
LEMMA AckedSetMoves ==
    ASSUME NEW p, Shape(p), Typed(p), NEW base, NEW history, NEW last, NEW linked, NEW nack,
           NEW hb, Moving(p, linked, nack, hb), base = 0 => hb
    PROVE  LET q == acked_changes_set(p, base, history, last)
           IN  Typed(q) /\ Moving(q, linked, nack, hb)
<1>1. CASE base > p.low
  <2>1. acked_changes_set(p, base, history, last) = AckBelow(p, base)
    BY <1>1 DEF acked_changes_set
  <2> QED BY <2>1, AckBelowLeaves, LeftMoves
<1>2. CASE ~ (base > p.low) /\ base = 0
  <2> DEFINE q == Rewind(p, history, last)
  <2>1. acked_changes_set(p, base, history, last) = q
    BY <1>2 DEF acked_changes_set
  <2>2. CASE history = {}
    <3>1. /\ q.delivered = p.delivered /\ q.nextAck = p.nextAck /\ q.suppression = p.suppression
          /\ q.changes = p.changes
      BY <2>2, FieldsOfShape DEF ProxyFields, Rewind
    <3> HIDE DEF q
    <3>2. LeftOf(p, q)
      BY <3>1 DEF LeftOf
    <3> QED BY <2>1, <3>2, LeftMoves
  <2>3. CASE history # {}
    <3>1. /\ q.delivered = p.delivered /\ q.nextAck = p.nextAck /\ q.suppression = p.suppression
          /\ q.changes = [s \in Seqs |-> IF s \in history /\ s <= p.low
                                         THEN "UNACKNOWLEDGED" ELSE p.changes[s]]
      BY <2>3, FieldsOfShape DEF ProxyFields, Rewind
    <3> HIDE DEF q
    <3>2. Typed(q) /\ Moving(q, linked, nack, hb)
      BY <1>2, <3>1 DEF Typed, Moving
    <3> QED BY <2>1, <3>2
  <2> QED BY <2>2, <2>3
<1>3. CASE ~ (base > p.low) /\ base # 0
  <2>1. acked_changes_set(p, base, history, last) = p
    BY <1>3 DEF acked_changes_set
  <2> QED BY <2>1
<1> QED BY <1>1, <1>2, <1>3

\* change_has_been_removed() leaves a part of the proxy, without the change.
LEMMA RemovalLeaves ==
    ASSUME NEW p, Shape(p), NEW seq \in Seqs
    PROVE  LET q == change_has_been_removed(p, seq)
           IN  LeftOf(p, q) /\ (q.changes[seq] = "none")
<1>1. CASE p.changes[seq] = "none"
  BY <1>1 DEF change_has_been_removed, LeftOf
<1>2. CASE p.changes[seq] # "none" /\ p.low + 1 = seq
  <2> DEFINE q == AckBelow(p, seq + 1)
  <2>1. change_has_been_removed(p, seq) = q
    BY <1>2 DEF change_has_been_removed
  <2>2. q.changes = [s \in Seqs |-> IF s < seq + 1 THEN "none" ELSE p.changes[s]]
    BY FieldsOfShape DEF ProxyFields, AckBelow
  <2> HIDE DEF q
  <2>3. q.changes[seq] = "none"
    BY <2>2 DEF Seqs
  <2>4. LeftOf(p, q)
    BY AckBelowLeaves DEF q
  <2> QED BY <2>1, <2>3, <2>4
<1>3. CASE p.changes[seq] # "none" /\ p.low + 1 # seq
  <2> DEFINE q == [p EXCEPT !.changes[seq] = "none", !.delivered = p.delivered \ {seq}]
  <2>1. change_has_been_removed(p, seq) = q
    BY <1>3 DEF change_has_been_removed
  <2>2. /\ q.delivered = p.delivered \ {seq} /\ q.nextAck = p.nextAck
        /\ q.suppression = p.suppression
        /\ q.changes = [p.changes EXCEPT ![seq] = "none"]
    BY FieldsOfShape DEF ProxyFields
  <2> HIDE DEF q
  <2>3. LeftOf(p, q) /\ q.changes[seq] = "none"
    BY <2>2, FieldsOfShape DEF LeftOf
  <2> QED BY <2>1, <2>3
<1> QED BY <1>1, <1>2, <1>3

\* A reader just matched waits for the periodic heartbeat if there is something in the history.
LEMMA JoinedMoves ==
    ASSUME NEW history, NEW last, NEW linked, NEW nack, NEW hb, history # {} => hb
    PROVE  Typed(Joined(history, last)) /\ Moving(Joined(history, last), linked, nack, hb)
<1> DEFINE q == Joined(history, last)
<1>1. /\ q.delivered = {} /\ q.nextAck = 0 /\ q.suppression = FALSE
      /\ q.changes = [s \in Seqs |-> IF s \in history THEN "UNACKNOWLEDGED" ELSE "none"]
  <2> DEFINE p == Rewind(NoProxy, history, last)
             m == WithMatch(p, last)
  <2>1. p.delivered = {} /\ p.nextAck = 0 /\ p.suppression = FALSE /\ DOMAIN p = ProxyFields
    BY DEF Rewind, NoProxy, ProxyFields
  <2> HIDE DEF p
  <2>2. m.delivered = {} /\ m.nextAck = 0 /\ m.suppression = FALSE /\ DOMAIN m = ProxyFields
    BY <2>1 DEF WithMatch, ProxyFields
  <2>3. q = [m EXCEPT !.changes = [s \in Seqs |-> IF s \in history THEN "UNACKNOWLEDGED" ELSE "none"]]
    BY Zenon DEF Joined, start, WithMatch, p
  <2> HIDE DEF m, q
  <2> QED BY <2>2, <2>3 DEF ProxyFields
<1> HIDE DEF q
<1>2. Typed(q)
  <2>1. q.delivered \subseteq Seqs /\ q.nextAck \in Nat
    BY <1>1
  <2>2. q.suppression \in BOOLEAN
    BY <1>1, Zenon
  <2> QED BY <2>1, <2>2, Zenon DEF Typed
<1>3. \A s \in Seqs : q.changes[s] = "none" \/ (q.changes[s] = "UNACKNOWLEDGED" /\ history # {})
  BY <1>1
<1>4. Moving(q, linked, nack, hb)
  BY <1>3 DEF Moving
<1> QED BY <1>2, <1>4 DEF q
=============================================================================
