----------------------- MODULE StatefulReaderProofs -----------------------
(***************************************************************************)
(* The reader's safety properties, for every set of writers, every history *)
(* size and every order of messages, matches, timers and takes.            *)
(*                                                                         *)
(* First, what the methods of WriterProxy preserve, for every proxy: the   *)
(* marks stay in order, the low mark never goes back, and a number becomes *)
(* settled only because it was received, declared irrelevant or given up.  *)
(* Then the invariants, each on top of those before: the types and marks   *)
(* (BaseInv), the order of samples, that nothing is dropped silently, that *)
(* a full history can be emptied, that the unread samples are counted      *)
(* right, and that acknowledgements never go back.                         *)
(***************************************************************************)
EXTENDS StatefulReader, FiniteSetTheorems, TLAPS

\* The marks of a proxy between two calls, and inside one before cleanup().
Marks(p) == p \in WriterProxyType /\ p.low <= p.max /\ p.received \subseteq (p.low + 2)..p.max
LooseMarks(p) == p \in WriterProxyType /\ p.low <= p.max /\ p.received \subseteq (p.low + 1)..p.max

\* q is p with other marks: everything else about the proxy is as before.
SameButMarks(p, q) ==
    q.alive = p.alive /\ q.notified = p.notified

-----------------------------------------------------------------------------
LessRel == {ss \in Nat \X Nat : ss[1] < ss[2]}

\* A nonempty set of natural numbers has a least element.
LEMMA NatMin ==
    ASSUME NEW T, T \subseteq Nat, T # {}
    PROVE  \E x \in T : \A y \in T : x <= y
<1>1. IsWellFoundedOn(LessRel, Nat)
  BY NatLessThanWellFounded, Zenon DEF OpToRel, LessRel
<1>2. PICK x \in T : \A y \in T : ~ (<<y, x>> \in LessRel)
  BY <1>1, WFMin
<1>3. \A y \in T : ~ (y < x)
  BY <1>2 DEF LessRel
<1> QED BY <1>3

\* Min() of a nonempty set of natural numbers is its least element.
LEMMA MinIsLeast ==
    ASSUME NEW T, T \subseteq Nat, T # {}
    PROVE  Min(T) \in T /\ \A y \in T : Min(T) <= y
BY NatMin DEF Min

\* Max() of a nonempty bounded set of natural numbers is its largest element.
LEMMA MaxIsLargest ==
    ASSUME NEW T, T \subseteq Nat, T # {}, NEW b \in Nat, \A x \in T : x <= b
    PROVE  Max(T) \in T /\ \A y \in T : Max(T) >= y
<1> DEFINE D == {n \in Nat : b - n \in T}
<1>1. D # {}
  <2>1. PICK x \in T : TRUE
    OBVIOUS
  <2>2. b - x \in Nat /\ b - (b - x) = x
    BY <2>1
  <2> QED BY <2>1, <2>2
<1>2. PICK n \in D : \A k \in D : n <= k
  BY <1>1, NatMin
<1>3. b - n \in T /\ \A y \in T : b - n >= y
  <2> SUFFICES ASSUME NEW y \in T PROVE b - n >= y
    BY <1>2
  <2>1. b - y \in Nat /\ b - (b - y) = y
    OBVIOUS
  <2>2. n <= b - y
    BY <2>1, <1>2
  <2> QED BY <2>2, <1>2
<1> QED BY <1>3 DEF Max

-----------------------------------------------------------------------------
\* What FirstUnsettled() finds.
LEMMA FirstUnsettledFound ==
    ASSUME NEW p, LooseMarks(p)
    PROVE  /\ FirstUnsettled(p) \in (p.low + 1)..(p.max + 1)
           /\ FirstUnsettled(p) \notin p.received
           /\ \A s \in (p.low + 1)..(FirstUnsettled(p) - 1) : s \in p.received
<1> DEFINE T == ((p.low + 1)..(p.max + 1)) \ p.received
<1>1. p.low \in Nat /\ p.max \in Nat /\ p.low <= p.max /\ p.received \subseteq (p.low + 1)..p.max
  BY DEF LooseMarks, WriterProxyType
<1>2. T \subseteq Nat /\ p.max + 1 \in T
  BY <1>1
<1>3. Min(T) \in T /\ \A y \in T : Min(T) <= y
  BY <1>2, MinIsLeast
<1>4. FirstUnsettled(p) = Min(T)
  BY DEF FirstUnsettled
<1> HIDE DEF T
<1>5. Min(T) \in (p.low + 1)..(p.max + 1) /\ Min(T) \notin p.received
  BY <1>3 DEF T
<1>6. ASSUME NEW s \in (p.low + 1)..(Min(T) - 1) PROVE s \in p.received
  <2>1. s \in (p.low + 1)..(p.max + 1) /\ ~(Min(T) <= s)
    BY <1>1, <1>5
  <2>2. s \notin T
    BY <2>1, <1>3
  <2> QED BY <2>1, <2>2 DEF T
<1> QED BY <1>4, <1>5, <1>6

\* cleanup() puts the marks in order and settles nothing.
LEMMA CleanupKeeps ==
    ASSUME NEW p, LooseMarks(p)
    PROVE  /\ Marks(cleanup(p))
           /\ SameButMarks(p, cleanup(p))
           /\ p.low <= cleanup(p).low
           /\ \A s \in Nat : change_was_received(cleanup(p), s) <=> change_was_received(p, s)
<1> DEFINE f == FirstUnsettled(p)
           q == cleanup(p)
<1>1. p.low \in Nat /\ p.max \in Nat /\ p.low <= p.max /\ p.received \subseteq (p.low + 1)..p.max
  BY DEF LooseMarks, WriterProxyType
<1>2. /\ f \in (p.low + 1)..(p.max + 1)
      /\ f \notin p.received
      /\ \A s \in (p.low + 1)..(f - 1) : s \in p.received
  BY FirstUnsettledFound
<1>3. p \in WriterProxyType
  BY DEF LooseMarks
<1> HIDE DEF f
<1>4. /\ q.low = f - 1 /\ q.received = {s \in p.received : s > f}
      /\ q.max = p.max /\ q.alive = p.alive /\ q.notified = p.notified
  BY <1>3 DEF cleanup, WriterProxyType, f
<1>5. f - 1 \in Nat /\ {s \in p.received : s > f} \in SUBSET Nat
  BY <1>1, <1>2
<1>6. q \in WriterProxyType
  BY <1>3, <1>5 DEF cleanup, WriterProxyType, f
<1> HIDE DEF q
<1>7. Marks(q)
  BY <1>1, <1>2, <1>4, <1>6 DEF Marks
<1>8. \A s \in Nat : change_was_received(q, s) <=> change_was_received(p, s)
  BY <1>1, <1>2, <1>4 DEF change_was_received
<1> QED BY <1>1, <1>2, <1>4, <1>7, <1>8 DEF SameButMarks, q

-----------------------------------------------------------------------------
\* q is a later value of the proxy p: its marks are in order, the low mark has not gone back,
\* and only numbers of S have been settled in between.
Advances(p, q, S) ==
    /\ Marks(q)
    /\ SameButMarks(p, q)
    /\ p.low <= q.low
    /\ \A s \in Nat : change_was_received(q, s) => change_was_received(p, s) \/ s \in S

\* received_change_set(): a DATA settles its own number, and the low mark takes the next one.
LEMMA ReceivedChangeAdvances ==
    ASSUME NEW p, Marks(p), NEW s \in Nat \ {0}
    PROVE  /\ Advances(p, received_change_set(p, s), {s})
           /\ s = p.low + 1 => s <= received_change_set(p, s).low
<1> DEFINE q == received_change_set(p, s)
<1>1. /\ p \in WriterProxyType /\ p.low \in Nat /\ p.max \in Nat /\ p.low <= p.max
      /\ p.received \subseteq (p.low + 2)..p.max
  BY DEF Marks, WriterProxyType
<1>2. LargerOf(s, p.max) \in Nat /\ LargerOf(s, p.max) >= s /\ LargerOf(s, p.max) >= p.max
  BY <1>1 DEF LargerOf
<1>3. CASE s <= p.low \/ s \in p.received
  <2>1. q = p
    BY <1>1, <1>3 DEF received_change_set
  <2> QED BY <1>1, <1>3, <2>1 DEF Advances, SameButMarks, Marks
<1>4. CASE ~(s <= p.low \/ s \in p.received) /\ s = p.low + 1
  <2> DEFINE g == [p EXCEPT !.max = LargerOf(s, p.max), !.low = s]
  <2>1. /\ g \in WriterProxyType /\ g.low = s /\ g.max = LargerOf(s, p.max)
        /\ g.received = p.received /\ g.alive = p.alive /\ g.notified = p.notified
    BY <1>1, <1>2 DEF WriterProxyType
  <2>2. q = g \/ q = cleanup(g)
    BY <1>1, <1>4 DEF received_change_set
  <2>3. s > p.max => q = g
    BY <1>1, <1>4 DEF received_change_set
  <2>4. s <= p.max => q = cleanup(g)
    BY <1>1, <1>4 DEF received_change_set
  <2> HIDE DEF g, q
  <2>5. LooseMarks(g)
    BY <1>1, <1>2, <1>4, <2>1 DEF LooseMarks
  <2>6. \A k \in Nat : change_was_received(g, k) => change_was_received(p, k) \/ k = s
    BY <1>1, <1>4, <2>1 DEF change_was_received
  <2>7. CASE s > p.max
    <3>1. p.received = {}
      BY <1>1, <1>4, <2>7
    <3>2. Marks(g)
      BY <2>1, <2>5, <3>1 DEF Marks, LooseMarks
    <3> QED BY <1>1, <1>4, <2>1, <2>3, <2>6, <2>7, <3>2 DEF Advances, SameButMarks, q
  <2>8. CASE s <= p.max
    <3>1. /\ Marks(cleanup(g)) /\ SameButMarks(g, cleanup(g)) /\ g.low <= cleanup(g).low
          /\ \A k \in Nat : change_was_received(cleanup(g), k) <=> change_was_received(g, k)
      BY <2>5, CleanupKeeps
    <3>2. cleanup(g).low \in Nat
      BY <3>1 DEF Marks, WriterProxyType
    <3> QED BY <1>1, <1>4, <2>1, <2>4, <2>6, <2>8, <3>1, <3>2 DEF Advances, SameButMarks, q
  <2> QED BY <1>1, <2>7, <2>8
<1>5. CASE ~(s <= p.low \/ s \in p.received) /\ s # p.low + 1
  <2>1. q = [p EXCEPT !.max = LargerOf(s, p.max), !.received = p.received \cup {s}]
    BY <1>1, <1>5 DEF received_change_set
  <2>2. p.received \cup {s} \in SUBSET Nat
    BY <1>1
  <2>3. /\ q \in WriterProxyType /\ q.low = p.low /\ q.max = LargerOf(s, p.max)
        /\ q.received = p.received \cup {s} /\ q.alive = p.alive /\ q.notified = p.notified
    BY <1>1, <1>2, <2>1, <2>2 DEF WriterProxyType
  <2> HIDE DEF q
  <2>4. s >= p.low + 2
    BY <1>1, <1>5
  <2>5. Marks(q)
    BY <1>1, <1>2, <2>3, <2>4 DEF Marks
  <2>6. \A k \in Nat : change_was_received(q, k) => change_was_received(p, k) \/ k = s
    BY <2>3 DEF change_was_received
  <2> QED BY <1>1, <1>5, <2>3, <2>5, <2>6 DEF Advances, SameButMarks, q
<1> QED BY <1>3, <1>4, <1>5

\* lost_changes_update(): only the numbers that are reported as lost are given up.
LEMMA LostChangesAdvance ==
    ASSUME NEW p, Marks(p), NEW first \in Nat \ {0}
    PROVE  Advances(p, lost_changes_update(p, first), LostBelow(p, first))
<1> DEFINE q == lost_changes_update(p, first)
<1>1. /\ p \in WriterProxyType /\ p.low \in Nat /\ p.max \in Nat /\ p.low <= p.max
      /\ p.received \subseteq (p.low + 2)..p.max
  BY DEF Marks, WriterProxyType
<1>2. CASE ~(first > p.low + 1)
  <2>1. q = p
    BY <1>2 DEF lost_changes_update
  <2> QED BY <1>1, <2>1 DEF Advances, SameButMarks
<1>3. CASE first > p.low + 1
  <2> DEFINE g == [p EXCEPT !.received = {s \in p.received : s >= first},
                            !.low = first - 1,
                            !.max = LargerOf(first - 1, p.max)]
  <2>1. LargerOf(first - 1, p.max) \in Nat /\ LargerOf(first - 1, p.max) >= first - 1
        /\ LargerOf(first - 1, p.max) >= p.max
    BY <1>1 DEF LargerOf
  <2>2. {s \in p.received : s >= first} \in SUBSET Nat /\ first - 1 \in Nat
    BY <1>1
  <2>3. /\ g \in WriterProxyType /\ g.low = first - 1 /\ g.max = LargerOf(first - 1, p.max)
        /\ g.received = {s \in p.received : s >= first}
        /\ g.alive = p.alive /\ g.notified = p.notified
    BY <1>1, <2>1, <2>2 DEF WriterProxyType
  <2>4. q = cleanup(g)
    BY <1>3 DEF lost_changes_update
  <2> HIDE DEF g, q
  <2>5. LooseMarks(g)
    BY <1>1, <2>1, <2>3 DEF LooseMarks
  <2>6. \A k \in Nat : change_was_received(g, k) =>
                       change_was_received(p, k) \/ k \in LostBelow(p, first)
    BY <1>1, <1>3, <2>3 DEF change_was_received, LostBelow
  <2>7. /\ Marks(q) /\ SameButMarks(g, q) /\ g.low <= q.low
        /\ \A k \in Nat : change_was_received(q, k) <=> change_was_received(g, k)
    BY <2>4, <2>5, CleanupKeeps
  <2>8. q.low \in Nat
    BY <2>7 DEF Marks, WriterProxyType
  <2> QED BY <1>1, <1>3, <2>3, <2>6, <2>7, <2>8 DEF Advances, SameButMarks, q
<1> QED BY <1>2, <1>3

\* missing_changes_update() settles nothing.
LEMMA MissingChangesAdvance ==
    ASSUME NEW p, Marks(p), NEW last \in Nat
    PROVE  Advances(p, missing_changes_update(p, last), {})
<1> DEFINE q == missing_changes_update(p, last)
<1>1. /\ p \in WriterProxyType /\ p.low \in Nat /\ p.max \in Nat /\ p.low <= p.max
      /\ p.received \subseteq (p.low + 2)..p.max
  BY DEF Marks, WriterProxyType
<1>2. CASE ~(last > p.low)
  <2>1. q = p
    BY <1>2 DEF missing_changes_update
  <2> QED BY <1>1, <2>1 DEF Advances, SameButMarks
<1>3. CASE last > p.low
  <2>1. LargerOf(last, p.max) \in Nat /\ LargerOf(last, p.max) >= p.max
    BY <1>1 DEF LargerOf
  <2>2. q = [p EXCEPT !.max = LargerOf(last, p.max)]
    BY <1>3 DEF missing_changes_update
  <2>3. /\ q \in WriterProxyType /\ q.low = p.low /\ q.max = LargerOf(last, p.max)
        /\ q.received = p.received /\ q.alive = p.alive /\ q.notified = p.notified
    BY <1>1, <2>1, <2>2 DEF WriterProxyType
  <2> HIDE DEF q
  <2>4. Marks(q)
    BY <1>1, <2>1, <2>3 DEF Marks
  <2> QED BY <1>1, <2>3, <2>4 DEF Advances, SameButMarks, change_was_received, q
<1> QED BY <1>2, <1>3

\* process_heartbeat(): what a HEARTBEAT settles is what it makes the reader give up.
LEMMA HeartbeatAdvances ==
    ASSUME NEW p, Marks(p), NEW hb,
           hb.first \in Nat \ {0}, hb.last \in Nat, hb.count \in Nat, hb.final \in BOOLEAN
    PROVE  Advances(p, process_heartbeat(p, hb), LostBelow(p, hb.first))
<1> DEFINE u == lost_changes_update(p, hb.first)
           q == missing_changes_update(u, hb.last)
           armed == p.response \/ ~hb.final \/ are_there_missing_changes(q)
           z == process_heartbeat(p, hb)
<1>1. Advances(p, u, LostBelow(p, hb.first))
  BY LostChangesAdvance
<1>2. Marks(u)
  BY <1>1 DEF Advances
<1>3. Advances(u, q, {})
  BY <1>2, MissingChangesAdvance
<1>4. z = [q EXCEPT !.hbCount = hb.count, !.hbFinal = hb.final, !.hbSeen = TRUE, !.response = armed]
  BY DEF process_heartbeat
<1>5. armed \in BOOLEAN
  OBVIOUS
<1> HIDE DEF u, q, armed, z
<1>6. q \in WriterProxyType
  BY <1>3 DEF Advances, Marks
<1>7. /\ z \in WriterProxyType /\ z.low = q.low /\ z.max = q.max /\ z.received = q.received
      /\ z.alive = q.alive /\ z.notified = q.notified
  BY <1>4, <1>5, <1>6 DEF WriterProxyType
<1>8. Marks(z)
  BY <1>3, <1>7 DEF Advances, Marks
<1>9. p.low \in Nat /\ u.low \in Nat /\ q.low \in Nat
  BY <1>2, <1>6 DEF Marks, WriterProxyType
<1>10. p.low <= z.low
  BY <1>1, <1>3, <1>7, <1>9 DEF Advances
<1>11. \A s \in Nat : change_was_received(z, s) =>
                      change_was_received(p, s) \/ s \in LostBelow(p, hb.first)
  <2> SUFFICES ASSUME NEW s \in Nat, change_was_received(z, s)
               PROVE  change_was_received(p, s) \/ s \in LostBelow(p, hb.first)
    OBVIOUS
  <2>1. change_was_received(q, s)
    BY <1>7 DEF change_was_received
  <2>2. change_was_received(u, s)
    BY <1>3, <2>1 DEF Advances
  <2> QED BY <1>1, <2>2 DEF Advances
<1>12. SameButMarks(p, z)
  BY <1>1, <1>3, <1>7 DEF Advances, SameButMarks
<1> QED BY <1>8, <1>10, <1>11, <1>12 DEF Advances, z

\* The numbers of a GAP settle nothing but themselves.
LEMMA IrrelevantChangesAdvance ==
    ASSUME NEW p, Marks(p), NEW b \in Nat, NEW S, S \subseteq 1..b
    PROVE  Advances(p, irrelevant_changes_set(p, S), S)
<1> DEFINE m == Max(S \cup {p.max})
           r == p.received \cup {s \in S : s > p.low}
           g == [p EXCEPT !.received = r, !.max = m]
           q == irrelevant_changes_set(p, S)
<1>1. /\ p \in WriterProxyType /\ p.low \in Nat /\ p.max \in Nat /\ p.low <= p.max
      /\ p.received \subseteq (p.low + 2)..p.max
  BY DEF Marks, WriterProxyType
<1>2. /\ S \cup {p.max} \subseteq Nat /\ S \cup {p.max} # {}
      /\ b + p.max \in Nat
      /\ \A x \in S \cup {p.max} : x <= b + p.max
  <2>1. \A x \in S : x \in Nat /\ x >= 1 /\ x <= b
    OBVIOUS
  <2>2. \A x \in S \cup {p.max} : x \in Nat /\ x <= b + p.max
    BY <1>1, <2>1
  <2>3. S \cup {p.max} \subseteq Nat
    BY <2>2
  <2>4. p.max \in S \cup {p.max}
    OBVIOUS
  <2>5. b + p.max \in Nat
    BY <1>1
  <2> QED BY <2>2, <2>3, <2>4, <2>5
<1>3. m \in S \cup {p.max} /\ \A y \in S \cup {p.max} : m >= y
  BY <1>2, MaxIsLargest
<1> HIDE DEF m
<1>4. m \in Nat /\ m >= p.max /\ \A s \in S : s \in Nat /\ s <= m
  <2>1. m \in Nat /\ S \subseteq Nat
    BY <1>2, <1>3
  <2>2. m >= p.max /\ \A s \in S : m >= s
    BY <1>3
  <2>3. \A s \in S : s \in Nat /\ s <= m
    BY <2>1, <2>2
  <2> QED BY <2>1, <2>2, <2>3
<1>5. \A x \in r : x \in Nat /\ x >= p.low + 1 /\ x <= m
  <2>1. \A x \in p.received : x \in Nat /\ x >= p.low + 1 /\ x <= m
    BY <1>1, <1>4
  <2>2. \A x \in S : x \in Nat /\ x <= m /\ (x > p.low => x >= p.low + 1)
    BY <1>1, <1>4
  <2> QED BY <2>1, <2>2
<1>6. r \in SUBSET Nat /\ r \subseteq (p.low + 1)..m
  BY <1>1, <1>4, <1>5
<1> HIDE DEF r
<1>7. /\ g \in WriterProxyType /\ g.low = p.low /\ g.max = m /\ g.received = r
      /\ g.alive = p.alive /\ g.notified = p.notified
  BY <1>1, <1>4, <1>6 DEF WriterProxyType
<1>8. q = cleanup(g)
  BY DEF irrelevant_changes_set, m, r
<1> HIDE DEF g, q
<1>9. LooseMarks(g)
  BY <1>1, <1>4, <1>6, <1>7 DEF LooseMarks
<1>10. /\ Marks(q) /\ SameButMarks(g, q) /\ g.low <= q.low
       /\ \A s \in Nat : change_was_received(q, s) <=> change_was_received(g, s)
  BY <1>8, <1>9, CleanupKeeps
<1>11. \A s \in Nat : change_was_received(g, s) => change_was_received(p, s) \/ s \in S
  BY <1>7 DEF change_was_received, r
<1> QED BY <1>7, <1>10, <1>11 DEF Advances, SameButMarks, q

-----------------------------------------------------------------------------
\* The types and marks; every proxy has its marks in order, those in the pool too, and a writer
\* that was deleted is not matched.
BaseInv ==
    /\ TypeOK
    /\ \A w \in Writers : Marks(wp[w])
    /\ \A w \in Writers : wp[w].alive => wp[w].notified = wp[w].low /\ history_record[w] = wp[w].low
    /\ \A w \in gone : ~wp[w].alive

\* The samples of w in h with numbers above low and up to high.
Between(w, h, low, high) == {x \in h : x[1] = w /\ x[2] > low /\ x[2] <= high}

\* A message from w has been handled, with the samples new stored and only the numbers of S
\* settled: what process_data_msg(), process_heartbeat_msg() and process_gap_msg() share.
Receives(w, new, S) ==
    /\ wp[w].alive /\ wp'[w].alive
    /\ \A v \in Writers \ {w} : wp'[v] = wp[v] /\ history_record'[v] = history_record[v]
    /\ wp[w].low <= wp'[w].low
    /\ history_record'[w] = wp'[w].low
    /\ \A s \in Nat : change_was_received(wp'[w], s) => change_was_received(wp[w], s) \/ s \in S
    /\ hist' = hist \cup new
    /\ total_unread_' = total_unread_ + Cardinality(Between(w, hist', wp[w].low, wp'[w].low))
    /\ UNCHANGED <<gone, taken>>

\* A timer of a proxy has fired: nothing but the timers and the acknack count has changed.
OnlyTimers ==
    /\ \A v \in Writers : /\ wp'[v].alive = wp[v].alive /\ wp'[v].low = wp[v].low
                          /\ wp'[v].max = wp[v].max /\ wp'[v].received = wp[v].received
                          /\ wp'[v].notified = wp[v].notified
    /\ UNCHANGED <<gone, history_record, hist, total_unread_, taken, irrelevant, lost>>

-----------------------------------------------------------------------------
\* Sets of samples are finite.
LEMMA SamplesFinite ==
    ASSUME NEW h, h \subseteq Samples
    PROVE  IsFiniteSet(h) /\ Cardinality(h) \in Nat
<1>1. IsFiniteSet(Writers) /\ IsFiniteSet(1..MaxSeq)
  BY ReaderAssumption, FS_Interval DEF ReaderAssumption
<1>2. IsFiniteSet(Samples)
  BY <1>1, FS_Product DEF Samples
<1>3. IsFiniteSet(h)
  BY <1>2, FS_Subset
<1> QED BY <1>3, FS_CardinalityType

\* NotifyChanges() with a later value of the proxy keeps BaseInv's part about the proxies.
LEMMA NotifyKeeps ==
    ASSUME BaseInv, NEW w \in Writers, wp[w].alive, NEW S, NEW p, Advances(wp[w], p, S),
           NEW h, h \subseteq Samples, NotifyChanges(w, p, h)
    PROVE  /\ wp' \in [Writers -> WriterProxyType]
           /\ history_record' \in [Writers -> Nat]
           /\ total_unread_' \in Nat
           /\ \A v \in Writers : Marks(wp'[v])
           /\ \A v \in Writers \ {w} : wp'[v] = wp[v] /\ history_record'[v] = history_record[v]
           /\ wp'[w].alive
           /\ wp'[w].notified = wp'[w].low /\ history_record'[w] = wp'[w].low
           /\ wp'[w].low = p.low
           /\ wp[w].low <= wp'[w].low
           /\ \A s \in Nat : change_was_received(wp'[w], s) => change_was_received(wp[w], s) \/ s \in S
           /\ total_unread_' = total_unread_ + Cardinality(Between(w, h, wp[w].low, wp'[w].low))
<1> DEFINE q == [p EXCEPT !.notified = p.low]
<1>1. /\ wp \in [Writers -> WriterProxyType] /\ history_record \in [Writers -> Nat]
      /\ total_unread_ \in Nat
  BY DEF BaseInv, TypeOK
<1>2. Marks(p) /\ p.alive = wp[w].alive /\ wp[w].low <= p.low
  BY DEF Advances, SameButMarks
<1>3. p \in WriterProxyType /\ p.low \in Nat
  BY <1>2 DEF Marks, WriterProxyType
<1>4. /\ q \in WriterProxyType /\ q.low = p.low /\ q.max = p.max /\ q.received = p.received
      /\ q.alive = p.alive /\ q.notified = p.low
  BY <1>3 DEF WriterProxyType
<1>5. wp' = [wp EXCEPT ![w] = q]
  BY DEF NotifyChanges
<1> HIDE DEF q
<1>6. /\ wp' \in [Writers -> WriterProxyType] /\ wp'[w] = q
      /\ \A v \in Writers \ {w} : wp'[v] = wp[v]
  BY <1>1, <1>4, <1>5
<1>7. Marks(q)
  BY <1>2, <1>4 DEF Marks
<1>8. history_record[w] = wp[w].low
  BY DEF BaseInv
<1>9. LargerOf(p.low, history_record[w]) = p.low
  BY <1>1, <1>2, <1>3, <1>8 DEF LargerOf
<1>10. history_record' = [history_record EXCEPT ![w] = p.low]
  BY <1>9 DEF NotifyChanges
<1>11. /\ history_record' \in [Writers -> Nat] /\ history_record'[w] = p.low
       /\ \A v \in Writers \ {w} : history_record'[v] = history_record[v]
  BY <1>1, <1>3, <1>10
<1>12. total_unread_' \in Nat
  <2> DEFINE T == {x \in h : x[1] = w /\ x[2] > p.notified /\ x[2] <= p.low}
  <2>1. T \subseteq Samples
    OBVIOUS
  <2> HIDE DEF T
  <2>2. Cardinality(T) \in Nat
    BY <2>1, SamplesFinite
  <2>3. total_unread_' = total_unread_ + Cardinality(T)
    BY DEF NotifyChanges, T
  <2> QED BY <1>1, <2>2, <2>3
<1>13. \A v \in Writers : Marks(wp'[v])
  BY <1>6, <1>7 DEF BaseInv
<1>14. \A s \in Nat : change_was_received(wp'[w], s) => change_was_received(wp[w], s) \/ s \in S
  BY <1>4, <1>6 DEF Advances, change_was_received
<1>15. total_unread_' = total_unread_ + Cardinality(Between(w, h, wp[w].low, wp'[w].low))
  <2>1. p.notified = wp[w].low
    BY DEF Advances, SameButMarks, BaseInv
  <2> QED BY <1>4, <1>6, <2>1 DEF NotifyChanges, Between
<1> QED BY <1>2, <1>4, <1>6, <1>11, <1>12, <1>13, <1>14, <1>15

\* A handler that stores new and notifies with a later value of the proxy keeps BaseInv.
LEMMA ReceiveKeepsBase ==
    ASSUME BaseInv, NEW w \in Writers, wp[w].alive, NEW S, NEW p, Advances(wp[w], p, S),
           NEW new, new \subseteq Samples, hist' = hist \cup new, NotifyChanges(w, p, hist'),
           irrelevant' \subseteq Samples, lost' \subseteq Samples,
           UNCHANGED <<gone, acknack_count_, taken>>
    PROVE  BaseInv' /\ Receives(w, new, S) /\ wp'[w].low = p.low
<1>1. hist' \subseteq Samples
  BY DEF BaseInv, TypeOK
<1> DEFINE h == hist'
<1>6. h \subseteq Samples /\ NotifyChanges(w, p, h)
  BY <1>1
<1> HIDE DEF h
<1>2. /\ wp' \in [Writers -> WriterProxyType]
      /\ history_record' \in [Writers -> Nat]
      /\ total_unread_' \in Nat
      /\ \A v \in Writers : Marks(wp'[v])
      /\ \A v \in Writers \ {w} : wp'[v] = wp[v] /\ history_record'[v] = history_record[v]
      /\ wp'[w].alive
      /\ wp'[w].notified = wp'[w].low /\ history_record'[w] = wp'[w].low
      /\ wp'[w].low = p.low
      /\ wp[w].low <= wp'[w].low
      /\ \A s \in Nat : change_was_received(wp'[w], s) => change_was_received(wp[w], s) \/ s \in S
      /\ total_unread_' = total_unread_ + Cardinality(Between(w, h, wp[w].low, wp'[w].low))
  BY <1>6, NotifyKeeps, ZenonT(40)
<1>3. TypeOK'
  BY <1>1, <1>2 DEF BaseInv, TypeOK
<1>4. \A v \in Writers : wp'[v].alive => wp'[v].notified = wp'[v].low /\ history_record'[v] = wp'[v].low
  BY <1>2 DEF BaseInv
<1>5. \A v \in gone' : ~wp'[v].alive
  <2> SUFFICES ASSUME NEW v \in gone PROVE ~wp'[v].alive
    OBVIOUS
  <2>1. v # w /\ v \in Writers
    BY DEF BaseInv, TypeOK
  <2> QED BY <1>2, <2>1 DEF BaseInv
<1> QED BY <1>2, <1>3, <1>4, <1>5 DEF BaseInv, Receives, h

\* A DATA stores its own sample, and the one after the low mark can be taken at once.
LEMMA DataReceives ==
    ASSUME BaseInv, NEW w \in Writers, NEW s \in 1..MaxSeq, process_data_msg(w, s)
    PROVE  /\ BaseInv' /\ Receives(w, {<<w, s>>}, {s})
           /\ s = wp[w].low + 1 => s <= wp'[w].low
           /\ UNCHANGED <<irrelevant, lost>>
<1> DEFINE p == received_change_set(wp[w], s)
<1>1. /\ wp[w].alive /\ hist' = hist \cup {<<w, s>>} /\ NotifyChanges(w, p, hist')
      /\ UNCHANGED <<gone, acknack_count_, taken, irrelevant, lost>>
  BY DEF process_data_msg, DataAccepted
<1>2. s \in Nat \ {0} /\ {<<w, s>>} \subseteq Samples
  BY ReaderAssumption DEF ReaderAssumption, Samples
<1>3. Marks(wp[w])
  BY DEF BaseInv
<1>4. Advances(wp[w], p, {s}) /\ (s = wp[w].low + 1 => s <= p.low)
  BY <1>2, <1>3, ReceivedChangeAdvances
<1> HIDE DEF p
<1>5. irrelevant' \subseteq Samples /\ lost' \subseteq Samples
  BY <1>1 DEF BaseInv, TypeOK
<1>6. BaseInv' /\ Receives(w, {<<w, s>>}, {s}) /\ wp'[w].low = p.low
  BY <1>1, <1>2, <1>4, <1>5, ReceiveKeepsBase, ZenonT(60)
<1> QED BY <1>1, <1>4, <1>6

\* A HEARTBEAT settles what it reports as lost or irrelevant.
LEMMA HeartbeatReceives ==
    ASSUME BaseInv, NEW w \in Writers, NEW first \in 1..(MaxSeq + 1), NEW last \in 0..MaxSeq,
           NEW count \in 1..MaxHeartbeats, NEW final \in BOOLEAN,
           process_heartbeat_msg(w, Heartbeat(w, ThisReader, first, last, count, final))
    PROVE  /\ BaseInv' /\ Receives(w, {}, LostBelow(wp[w], first))
           /\ irrelevant' \cup lost' = irrelevant \cup lost \cup Of(w, LostBelow(wp[w], first))
<1> DEFINE hb == Heartbeat(w, ThisReader, first, last, count, final)
           p == process_heartbeat(wp[w], hb)
           S == LostBelow(wp[w], first)
<1>1. MaxSeq \in Nat /\ MaxHeartbeats \in Nat
  BY ReaderAssumption DEF ReaderAssumption
<1>2. hb.first = first /\ hb.last = last /\ hb.count = count /\ hb.final = final
  BY DEF Heartbeat
<1>3. first \in Nat \ {0} /\ last \in Nat /\ count \in Nat
  BY <1>1
<1>4. Marks(wp[w])
  BY DEF BaseInv
<1> HIDE DEF hb
<1>5. Advances(wp[w], p, S)
  BY <1>2, <1>3, <1>4, HeartbeatAdvances
<1>6. /\ wp[w].alive /\ hist' = hist \cup {} /\ NotifyChanges(w, p, hist')
      /\ UNCHANGED <<gone, acknack_count_, taken>>
      /\ \/ lost' = lost \cup Of(w, S) /\ irrelevant' = irrelevant
         \/ irrelevant' = irrelevant \cup Of(w, S) /\ lost' = lost
  BY <1>2 DEF process_heartbeat_msg, HeartbeatAccepted, hb
<1>7. Of(w, S) \subseteq Samples
  <2>1. wp[w].low \in Nat
    BY <1>4 DEF Marks, WriterProxyType
  <2>2. S \subseteq 1..MaxSeq
    BY <1>1, <1>3, <2>1 DEF LostBelow
  <2> QED BY <2>2 DEF Of, Samples
<1> HIDE DEF p, S
<1>8. irrelevant' \subseteq Samples /\ lost' \subseteq Samples
  BY <1>6, <1>7 DEF BaseInv, TypeOK
<1>9. BaseInv' /\ Receives(w, {}, S)
  BY <1>5, <1>6, <1>8, ReceiveKeepsBase
<1> QED BY <1>6, <1>9 DEF S

\* A GAP settles what it declares irrelevant.
LEMMA GapReceives ==
    ASSUME BaseInv, NEW w \in Writers, NEW first \in 1..MaxSeq, NEW base \in 2..(MaxSeq + 1),
           NEW list \in SUBSET (base..MaxSeq),
           process_gap_msg(w, Gap(w, ThisReader, first, base, list))
    PROVE  \E S \in SUBSET (1..MaxSeq) :
              /\ BaseInv' /\ Receives(w, {}, S)
              /\ irrelevant' = irrelevant \cup Of(w, {s \in S : ~change_was_received(wp[w], s)})
              /\ lost' = lost
<1> DEFINE gap == Gap(w, ThisReader, first, base, list)
           S == (first..(base - 1)) \cup list
           p == irrelevant_changes_set(wp[w], S)
<1>1. MaxSeq \in Nat
  BY ReaderAssumption DEF ReaderAssumption
<1>2. gap.start = first /\ gap.base = base /\ gap.list = list
  BY DEF Gap
<1>3. S \subseteq 1..MaxSeq
  BY <1>1
<1>4. Marks(wp[w])
  BY DEF BaseInv
<1> HIDE DEF gap
<1>5. /\ wp[w].alive /\ hist' = hist \cup {} /\ NotifyChanges(w, p, hist')
      /\ UNCHANGED <<gone, acknack_count_, taken, lost>>
      /\ irrelevant' = irrelevant \cup Of(w, {s \in S : ~change_was_received(wp[w], s)})
  BY <1>2 DEF process_gap_msg, gap
<1> HIDE DEF S
<1>6. Advances(wp[w], p, S)
  BY <1>1, <1>3, <1>4, IrrelevantChangesAdvance
<1> HIDE DEF p
<1>7. irrelevant' \subseteq Samples /\ lost' \subseteq Samples
  BY <1>3, <1>5 DEF BaseInv, TypeOK, Of, Samples
<1>8. UNCHANGED <<gone, acknack_count_, taken>> /\ {} \subseteq Samples
  BY <1>5
<1>9. wp[w].alive /\ hist' = hist \cup {} /\ NotifyChanges(w, p, hist')
  BY <1>5
<1>10. BaseInv' /\ Receives(w, {}, S)
  BY <1>6, <1>7, <1>8, <1>9, ReceiveKeepsBase
<1> QED BY <1>3, <1>5, <1>10

\* Matching a writer starts its proxy at the number recorded for it.
LEMMA MatchKeepsBase ==
    ASSUME BaseInv, NEW w \in Writers, matched_writer_add(w)
    PROVE  /\ BaseInv'
           /\ wp'[w].alive /\ wp'[w].low = history_record[w] /\ wp'[w].received = {}
           /\ \A v \in Writers \ {w} : wp'[v] = wp[v]
<1> DEFINE n == history_record[w]
           q == start(n)
<1>1. /\ wp \in [Writers -> WriterProxyType] /\ history_record \in [Writers -> Nat] /\ n \in Nat
  BY DEF BaseInv, TypeOK
<1>2. wp' = [wp EXCEPT ![w] = q] /\ w \notin gone
  BY DEF matched_writer_add
<1>3. /\ UNCHANGED <<gone, history_record, hist, total_unread_, acknack_count_, taken, irrelevant, lost>>
  BY DEF matched_writer_add
<1> HIDE DEF n
<1>4. /\ q \in WriterProxyType /\ q.alive /\ q.low = n /\ q.max = n /\ q.notified = n
      /\ q.received = {}
  BY <1>1 DEF start, stop, WriterProxyType
<1> HIDE DEF q
<1>5. /\ wp' \in [Writers -> WriterProxyType] /\ wp'[w] = q
      /\ \A v \in Writers \ {w} : wp'[v] = wp[v]
  BY <1>1, <1>2, <1>4
<1>6. TypeOK'
  BY <1>3, <1>5 DEF BaseInv, TypeOK
<1>7. Marks(q)
  BY <1>1, <1>4 DEF Marks
<1>8. \A v \in Writers : Marks(wp'[v])
  BY <1>5, <1>7 DEF BaseInv
<1>9. \A v \in Writers : wp'[v].alive => wp'[v].notified = wp'[v].low /\ history_record'[v] = wp'[v].low
  BY <1>3, <1>4, <1>5 DEF BaseInv, n
<1>10. \A v \in gone' : ~wp'[v].alive
  <2> SUFFICES ASSUME NEW v \in gone PROVE ~wp'[v].alive
    BY <1>3
  <2>1. v # w /\ v \in Writers
    BY <1>2 DEF BaseInv, TypeOK
  <2> QED BY <1>5, <2>1 DEF BaseInv
<1> QED BY <1>4, <1>5, <1>6, <1>8, <1>9, <1>10 DEF BaseInv, n

\* Unmatching a writer puts its proxy back in the pool and the samples ahead of a hole away.
LEMMA UnmatchKeepsBase ==
    ASSUME BaseInv, NEW w \in Writers, NEW removed_by_lease \in BOOLEAN,
           matched_writer_remove(w, removed_by_lease)
    PROVE  /\ BaseInv'
           /\ ~wp'[w].alive
           /\ \A v \in Writers \ {w} : wp'[v] = wp[v] /\ history_record'[v] = history_record[v]
           /\ \/ gone' = gone /\ history_record'[w] = history_record[w]
              \/ gone' = gone \cup {w}
           /\ hist' = {x \in hist : x[1] = w => x[2] <= history_record[w]}
<1>1. wp \in [Writers -> WriterProxyType] /\ history_record \in [Writers -> Nat]
  BY DEF BaseInv, TypeOK
<1>2. /\ wp' = [wp EXCEPT ![w] = stop]
      /\ hist' = {x \in hist : x[1] = w => x[2] <= history_record[w]}
      /\ UNCHANGED <<total_unread_, acknack_count_, taken, irrelevant, lost>>
      /\ \/ gone' = gone /\ history_record' = history_record
         \/ gone' = gone \cup {w} /\ history_record' = [history_record EXCEPT ![w] = 0]
  BY DEF matched_writer_remove
<1>3. /\ stop \in WriterProxyType /\ ~stop.alive /\ stop.low = 0 /\ stop.max = 0
      /\ stop.received = {}
  BY DEF stop, WriterProxyType
<1>4. /\ wp' \in [Writers -> WriterProxyType] /\ wp'[w] = stop
      /\ \A v \in Writers \ {w} : wp'[v] = wp[v]
  BY <1>1, <1>2, <1>3
<1>5. /\ history_record' \in [Writers -> Nat]
      /\ \A v \in Writers \ {w} : history_record'[v] = history_record[v]
  BY <1>1, <1>2
<1>6. hist' \subseteq Samples /\ gone' \subseteq Writers
  BY <1>2 DEF BaseInv, TypeOK
<1>7. TypeOK'
  BY <1>2, <1>4, <1>5, <1>6 DEF BaseInv, TypeOK
<1>8. Marks(stop)
  BY <1>3 DEF Marks
<1>9. \A v \in Writers : Marks(wp'[v])
  BY <1>4, <1>8 DEF BaseInv
<1>10. \A v \in Writers : wp'[v].alive => wp'[v].notified = wp'[v].low /\ history_record'[v] = wp'[v].low
  BY <1>3, <1>4, <1>5 DEF BaseInv
<1>11. \A v \in gone' : ~wp'[v].alive
  <2> SUFFICES ASSUME NEW v \in gone' PROVE ~wp'[v].alive
    OBVIOUS
  <2>1. v \in gone \/ v = w
    BY <1>2
  <2>2. v \in Writers
    BY <1>6
  <2> QED BY <1>3, <1>4, <2>1, <2>2 DEF BaseInv
<1> QED BY <1>2, <1>3, <1>4, <1>5, <1>7, <1>9, <1>10, <1>11 DEF BaseInv

\* A take moves the least available sample of some writer from the history to the application.
LEMMA TakeKeepsBase ==
    ASSUME BaseInv, take_next_sample
    PROVE  /\ BaseInv'
           /\ UNCHANGED <<wp, gone, history_record, irrelevant, lost>>
           /\ \E w \in Writers, s \in 1..MaxSeq :
                 /\ <<w, s>> \in hist /\ Available(<<w, s>>)
                 /\ \A k \in 1..MaxSeq : <<w, k>> \in hist /\ Available(<<w, k>>) => s <= k
                 /\ hist' = hist \ {<<w, s>>} /\ taken' = taken \cup {<<w, s>>}
           /\ total_unread_' = IF total_unread_ > 0 THEN total_unread_ - 1 ELSE 0
<1> DEFINE ready(w) == {s \in 1..MaxSeq : <<w, s>> \in hist /\ Available(<<w, s>>)}
<1>1. PICK w \in Writers :
        /\ ready(w) # {}
        /\ hist' = hist \ {<<w, Min(ready(w))>>}
        /\ taken' = taken \cup {<<w, Min(ready(w))>>}
        /\ total_unread_' = IF total_unread_ > 0 THEN total_unread_ - 1 ELSE 0
        /\ UNCHANGED <<wp, gone, history_record, acknack_count_, irrelevant, lost>>
  BY DEF take_next_sample
<1>2. MaxSeq \in Nat
  BY ReaderAssumption DEF ReaderAssumption
<1>3. ready(w) \subseteq Nat
  BY <1>2
<1>4. Min(ready(w)) \in ready(w) /\ \A k \in ready(w) : Min(ready(w)) <= k
  BY <1>1, <1>3, MinIsLeast
<1> DEFINE s == Min(ready(w))
<1>5. /\ s \in 1..MaxSeq /\ <<w, s>> \in hist /\ Available(<<w, s>>)
      /\ \A k \in 1..MaxSeq : <<w, k>> \in hist /\ Available(<<w, k>>) => s <= k
  BY <1>4
<1>6. hist' = hist \ {<<w, s>>} /\ taken' = taken \cup {<<w, s>>}
  BY <1>1
<1> HIDE DEF s
<1>7. total_unread_' \in Nat
  BY <1>1 DEF BaseInv, TypeOK
<1>8. hist' \subseteq Samples /\ taken' \subseteq Samples
  BY <1>5, <1>6 DEF BaseInv, TypeOK, Samples
<1>9. TypeOK'
  BY <1>1, <1>7, <1>8 DEF BaseInv, TypeOK
<1>10. BaseInv'
  BY <1>1, <1>9 DEF BaseInv
<1> QED BY <1>1, <1>5, <1>6, <1>10

\* The timers change no mark.
LEMMA TimersKeepBase ==
    ASSUME BaseInv, NEW w \in Writers, perform_heartbeat_response(w) \/ perform_initial_ack_nack(w)
    PROVE  BaseInv' /\ OnlyTimers
<1>1. wp \in [Writers -> WriterProxyType] /\ acknack_count_ \in 0..MaxAckNacks /\ MaxAckNacks \in Nat
  BY ReaderAssumption DEF ReaderAssumption, BaseInv, TypeOK
<1>2. UNCHANGED <<gone, history_record, hist, total_unread_, taken, irrelevant, lost>>
  BY DEF perform_heartbeat_response, perform_initial_ack_nack
<1>3. acknack_count_' \in 0..MaxAckNacks
  <2>1. acknack_count_ < MaxAckNacks
    BY DEF perform_heartbeat_response, perform_initial_ack_nack
  <2>2. acknack_count_' = acknack_count_ \/ acknack_count_' = acknack_count_ + 1
    <3>1. CASE perform_heartbeat_response(w)
      BY <3>1, Zenon DEF perform_heartbeat_response, send_acknack
    <3>2. CASE perform_initial_ack_nack(w)
      BY <3>2, Zenon DEF perform_initial_ack_nack, send_acknack
    <3> QED BY <3>1, <3>2
  <2> QED BY <1>1, <2>1, <2>2
<1>4. \/ wp' = [wp EXCEPT ![w].response = FALSE]
      \/ \E again \in BOOLEAN : wp' = [wp EXCEPT ![w].initial = again]
  BY DEF perform_heartbeat_response, perform_initial_ack_nack
<1>5. wp[w] \in WriterProxyType
  BY <1>1
<1>6. \A again \in BOOLEAN :
        /\ [wp[w] EXCEPT !.response = again] \in WriterProxyType
        /\ [wp[w] EXCEPT !.initial = again] \in WriterProxyType
  BY <1>5 DEF WriterProxyType
<1>7. wp' \in [Writers -> WriterProxyType]
  BY <1>1, <1>4, <1>6
<1>8. \A v \in Writers : /\ wp'[v].alive = wp[v].alive /\ wp'[v].low = wp[v].low
                         /\ wp'[v].max = wp[v].max /\ wp'[v].received = wp[v].received
                         /\ wp'[v].notified = wp[v].notified
  BY <1>1, <1>4 DEF WriterProxyType
<1>9. TypeOK'
  BY <1>2, <1>3, <1>7 DEF BaseInv, TypeOK
<1>10. \A v \in Writers : Marks(wp'[v])
  BY <1>7, <1>8 DEF BaseInv, Marks
<1>11. \A v \in gone' : ~wp'[v].alive
  BY <1>2, <1>8 DEF BaseInv, TypeOK
<1>12. \A v \in Writers : wp'[v].alive => wp'[v].notified = wp'[v].low /\ history_record'[v] = wp'[v].low
  BY <1>2, <1>8 DEF BaseInv
<1> QED BY <1>2, <1>8, <1>9, <1>10, <1>11, <1>12 DEF BaseInv, OnlyTimers

\* BaseInv is inductive.
LEMMA BaseStep == BaseInv /\ [ReaderNext]_vars => BaseInv'
<1> SUFFICES ASSUME BaseInv, [ReaderNext]_vars PROVE BaseInv'
  OBVIOUS
<1>1. CASE ReceivesData
  BY <1>1, DataReceives DEF ReceivesData
<1>2. CASE ReceivesHeartbeat
  BY <1>2, HeartbeatReceives DEF ReceivesHeartbeat
<1>3. CASE ReceivesGap
  BY <1>3, GapReceives DEF ReceivesGap
<1>4. CASE Discovery
  BY <1>4, MatchKeepsBase, UnmatchKeepsBase DEF Discovery
<1>5. CASE take_next_sample
  BY <1>5, TakeKeepsBase
<1>6. CASE Timers
  BY <1>6, TimersKeepBase DEF Timers
<1>7. CASE UNCHANGED vars
  BY <1>7 DEF vars, readerVars, BaseInv, TypeOK
<1> QED BY <1>1, <1>2, <1>3, <1>4, <1>5, <1>6, <1>7 DEF ReaderNext

\* BaseInv holds when the reader is created.
LEMMA BaseInit == Init => BaseInv
<1> SUFFICES ASSUME Init PROVE BaseInv
  OBVIOUS
<1> USE DEF Init, ReaderInit
<1>1. /\ stop \in WriterProxyType /\ ~stop.alive /\ stop.low = 0 /\ stop.max = 0
      /\ stop.received = {}
  BY DEF stop, WriterProxyType
<1>2. Marks(stop)
  BY <1>1 DEF Marks
<1>3. TypeOK
  BY <1>1, ReaderAssumption DEF TypeOK, ReaderAssumption
<1> QED BY <1>1, <1>2, <1>3 DEF BaseInv

\* BaseInv holds in every state: the base of the other invariants.
LEMMA BaseAlways == Spec => []BaseInv
BY BaseInit, BaseStep, PTL DEF Spec

\* The reader's variables keep their types.
THEOREM TypeCorrect == Spec => []TypeOK
<1>1. BaseInv => TypeOK
  BY DEF BaseInv
<1> QED BY <1>1, BaseAlways, PTL

\* The marks of every matched writer agree whenever a handler has returned (cleanup() and
\* NotifyChanges() leave nothing behind).
THEOREM MarksAgreeHolds == Spec => []MarksAgree
<1>1. BaseInv => MarksAgree
  BY DEF BaseInv, MarksAgree, Marks
<1> QED BY <1>1, BaseAlways, PTL

-----------------------------------------------------------------------------
\* The order of samples.  It survives a writer's drop and return because what was taken, and
\* what stays in history while the writer is away, is not above the number recorded for it.
OrderInv ==
    /\ \A x \in hist : ~wp[x[1]].alive /\ x[1] \notin gone => x[2] <= history_record[x[1]]
    /\ \A t \in taken : t[1] \notin gone => t[2] <= history_record[t[1]]
    /\ TakenInOrder

\* Storing samples above the low mark keeps the order.
LEMMA OrderReceive ==
    ASSUME BaseInv, BaseInv', OrderInv, NEW w \in Writers, NEW S, NEW new, Receives(w, new, S),
           \A x \in new : x[1] = w /\ x[2] \in Nat /\ x[2] > wp[w].low
    PROVE  OrderInv'
<1>1. /\ hist \subseteq Samples /\ taken \subseteq Samples /\ MaxSeq \in Nat
      /\ history_record \in [Writers -> Nat] /\ history_record' \in [Writers -> Nat]
      /\ hist' \subseteq Samples
  BY ReaderAssumption DEF ReaderAssumption, BaseInv, TypeOK
<1>2. /\ wp[w].alive /\ wp'[w].alive /\ history_record[w] = wp[w].low
      /\ wp[w].low <= wp'[w].low /\ history_record'[w] = wp'[w].low
      /\ \A v \in Writers \ {w} : wp'[v] = wp[v] /\ history_record'[v] = history_record[v]
      /\ hist' = hist \cup new /\ gone' = gone /\ taken' = taken
  BY DEF Receives, BaseInv
<1>3. w \notin gone
  BY <1>2 DEF BaseInv
<1>4. \A x \in hist' : ~wp'[x[1]].alive /\ x[1] \notin gone' => x[2] <= history_record'[x[1]]
  <2> SUFFICES ASSUME NEW x \in hist', ~wp'[x[1]].alive, x[1] \notin gone
               PROVE  x[2] <= history_record'[x[1]]
    BY <1>2
  <2>1. x[1] # w
    BY <1>2
  <2>2. x \in hist /\ x[1] \in Writers \ {w}
    BY <1>1, <1>2, <2>1 DEF Samples
  <2> QED BY <1>2, <2>2 DEF OrderInv
<1>5. \A t \in taken' : t[1] \notin gone' => t[2] <= history_record'[t[1]]
  <2> SUFFICES ASSUME NEW t \in taken, t[1] \notin gone
               PROVE  t[2] <= history_record'[t[1]]
    BY <1>2
  <2>1. t[1] \in Writers /\ t[2] \in Nat /\ t[2] <= history_record[t[1]]
    BY <1>1 DEF OrderInv, Samples
  <2>2. history_record[t[1]] \in Nat /\ history_record'[t[1]] \in Nat
    BY <1>1, <2>1
  <2>3. history_record[t[1]] <= history_record'[t[1]]
    BY <1>2, <2>1, <2>2
  <2> QED BY <2>1, <2>2, <2>3
<1>6. ASSUME NEW x \in hist', NEW t \in taken', x[1] = t[1] PROVE t[2] < x[2]
  <2>1. CASE x \in hist
    BY <1>2, <1>6, <2>1 DEF OrderInv, TakenInOrder
  <2>2. CASE x \in new
    <3>1. x[1] = w /\ x[2] > wp[w].low /\ x[2] \in Nat
      BY <2>2
    <3>2. t[2] \in Nat /\ t[2] <= history_record[w]
      <4>1. t \in taken /\ t[1] = w
        BY <1>2, <1>6, <3>1
      <4>2. t[2] \in Nat
        BY <1>1, <4>1 DEF Samples
      <4> QED BY <1>3, <4>1, <4>2 DEF OrderInv
    <3>3. wp[w].low \in Nat
      BY <1>1, <1>2
    <3> QED BY <1>2, <3>1, <3>2, <3>3
  <2> QED BY <1>2, <2>1, <2>2
<1> QED BY <1>4, <1>5, <1>6 DEF OrderInv, TakenInOrder

\* OrderInv is inductive, given BaseInv.
LEMMA OrderStep == BaseInv /\ BaseInv' /\ OrderInv /\ [ReaderNext]_vars => OrderInv'
<1> SUFFICES ASSUME BaseInv, BaseInv', OrderInv, [ReaderNext]_vars PROVE OrderInv'
  OBVIOUS
<1>1. /\ hist \subseteq Samples /\ taken \subseteq Samples /\ MaxSeq \in Nat
      /\ history_record \in [Writers -> Nat] /\ history_record' \in [Writers -> Nat]
  BY ReaderAssumption DEF ReaderAssumption, BaseInv, TypeOK
<1>2. CASE ReceivesData
  <2>1. PICK w \in Writers, s \in 1..MaxSeq : process_data_msg(w, s)
    BY <1>2 DEF ReceivesData
  <2>2. Receives(w, {<<w, s>>}, {s})
    BY <2>1, DataReceives
  <2>3. wp[w].low \in Nat
    BY DEF BaseInv, Marks, WriterProxyType
  <2>4. s \in Nat /\ s > wp[w].low
    BY <1>1, <2>1, <2>3 DEF process_data_msg, DataAccepted, change_was_received
  <2>5. \A x \in {<<w, s>>} : x[1] = w /\ x[2] \in Nat /\ x[2] > wp[w].low
    BY <2>4
  <2> QED BY <2>2, <2>5, OrderReceive
<1>3. CASE ReceivesHeartbeat
  <2>1. PICK w \in Writers, first \in 1..(MaxSeq + 1) : Receives(w, {}, LostBelow(wp[w], first))
    BY <1>3, HeartbeatReceives DEF ReceivesHeartbeat
  <2> QED BY <2>1, OrderReceive
<1>4. CASE ReceivesGap
  <2>1. PICK w \in Writers, S \in SUBSET (1..MaxSeq) : Receives(w, {}, S)
    BY <1>4, GapReceives DEF ReceivesGap
  <2> QED BY <2>1, OrderReceive
<1>5. ASSUME NEW w \in Writers, matched_writer_add(w) PROVE OrderInv'
  <2>1. /\ UNCHANGED <<gone, history_record, hist, taken>> /\ wp'[w].alive
        /\ \A v \in Writers \ {w} : wp'[v] = wp[v]
    BY <1>5, MatchKeepsBase DEF matched_writer_add
  <2>2. \A x \in hist : x[1] \in Writers
    BY <1>1 DEF Samples
  <2> QED BY <2>1, <2>2 DEF OrderInv, TakenInOrder
<1>6. ASSUME NEW w \in Writers, NEW removed_by_lease \in BOOLEAN,
             matched_writer_remove(w, removed_by_lease)
      PROVE  OrderInv'
  <2>1. /\ \A v \in Writers \ {w} : wp'[v] = wp[v] /\ history_record'[v] = history_record[v]
        /\ \/ gone' = gone /\ history_record'[w] = history_record[w]
           \/ gone' = gone \cup {w}
        /\ hist' = {x \in hist : x[1] = w => x[2] <= history_record[w]}
    BY <1>6, UnmatchKeepsBase
  <2>2. taken' = taken
    BY <1>6 DEF matched_writer_remove
  <2>3. \A x \in hist : x[1] \in Writers
    BY <1>1 DEF Samples
  <2>4. \A x \in taken : x[1] \in Writers
    BY <1>1 DEF Samples
  <2>5. \A x \in hist' : ~wp'[x[1]].alive /\ x[1] \notin gone' => x[2] <= history_record'[x[1]]
    BY <2>1, <2>3 DEF OrderInv
  <2>6. \A t \in taken' : t[1] \notin gone' => t[2] <= history_record'[t[1]]
    BY <2>1, <2>2, <2>4 DEF OrderInv
  <2>7. TakenInOrder'
    BY <2>1, <2>2 DEF OrderInv, TakenInOrder
  <2> QED BY <2>5, <2>6, <2>7 DEF OrderInv
<1>7. CASE take_next_sample
  <2>1. UNCHANGED <<wp, gone, history_record>>
    BY <1>7, TakeKeepsBase
  <2>2. PICK w \in Writers, s \in 1..MaxSeq :
          /\ <<w, s>> \in hist /\ Available(<<w, s>>)
          /\ \A k \in 1..MaxSeq : <<w, k>> \in hist /\ Available(<<w, k>>) => s <= k
          /\ hist' = hist \ {<<w, s>>} /\ taken' = taken \cup {<<w, s>>}
    BY <1>7, TakeKeepsBase
  <2>3. wp[w].low \in Nat /\ (wp[w].alive => history_record[w] = wp[w].low)
    BY DEF BaseInv, Marks, WriterProxyType
  <2>4. s \in Nat /\ (wp[w].alive => s <= wp[w].low)
    BY <1>1, <2>2 DEF Available
  <2>5. w \notin gone => s <= history_record[w]
    BY <2>2, <2>3, <2>4 DEF OrderInv
  <2>6. ASSUME NEW x \in hist', x[1] = w PROVE s < x[2]
    <3>1. PICK k \in 1..MaxSeq : x = <<w, k>>
      BY <1>1, <2>2, <2>6 DEF Samples
    <3>2. <<w, k>> \in hist /\ k # s /\ k \in Nat
      BY <1>1, <2>2, <3>1
    <3>3. CASE Available(<<w, k>>)
      BY <2>2, <2>4, <3>1, <3>2, <3>3
    <3>4. CASE ~Available(<<w, k>>)
      <4>1. wp[w].alive /\ ~(k <= wp[w].low)
        BY <3>4 DEF Available
      <4> QED BY <2>3, <2>4, <3>1, <3>2, <4>1
    <3> QED BY <3>3, <3>4
  <2>7. TakenInOrder'
    BY <2>2, <2>6 DEF OrderInv, TakenInOrder
  <2>8. \A x \in hist' : ~wp'[x[1]].alive /\ x[1] \notin gone' => x[2] <= history_record'[x[1]]
    BY <2>1, <2>2 DEF OrderInv
  <2>9. \A t \in taken' : t[1] \notin gone' => t[2] <= history_record'[t[1]]
    BY <2>1, <2>2, <2>5 DEF OrderInv
  <2> QED BY <2>7, <2>8, <2>9 DEF OrderInv
<1>8. CASE Timers
  <2>1. OnlyTimers
    BY <1>8, TimersKeepBase DEF Timers
  <2>2. \A x \in hist : x[1] \in Writers
    BY <1>1 DEF Samples
  <2> QED BY <2>1, <2>2 DEF OnlyTimers, OrderInv, TakenInOrder
<1>9. CASE UNCHANGED vars
  BY <1>9 DEF vars, readerVars, OrderInv, TakenInOrder
<1> QED BY <1>2, <1>3, <1>4, <1>5, <1>6, <1>7, <1>8, <1>9 DEF ReaderNext, Discovery

\* The application takes each writer's samples in order and at most once, whatever arrives and
\* however often the writer is dropped and matched again.
THEOREM TakenInOrderHolds == Spec => []TakenInOrder
<1>1. Init => OrderInv
  BY DEF Init, ReaderInit, OrderInv, TakenInOrder
<1>2. OrderInv => TakenInOrder
  BY DEF OrderInv
<1> QED BY <1>1, <1>2, BaseAlways, OrderStep, PTL DEF Spec

-----------------------------------------------------------------------------
Accounted == hist \cup taken \cup irrelevant \cup lost

\* What is settled is accounted for.  While a dropped writer is away, the same holds of the
\* numbers up to the one recorded for it, at which its next proxy starts.
AccountInv ==
    \A w \in Writers, s \in Nat \ {0} :
        \/ wp[w].alive /\ change_was_received(wp[w], s)
        \/ ~wp[w].alive /\ w \notin gone /\ s <= history_record[w]
        => <<w, s>> \in Accounted

\* Settling only numbers that are accounted for keeps AccountInv.
LEMMA AccountReceive ==
    ASSUME BaseInv, AccountInv, NEW w \in Writers, NEW S, NEW new, Receives(w, new, S),
           Accounted \subseteq Accounted',
           \A s \in S : change_was_received(wp[w], s) \/ <<w, s>> \in Accounted'
    PROVE  AccountInv'
<1> SUFFICES ASSUME NEW v \in Writers, NEW s \in Nat \ {0},
                    \/ wp'[v].alive /\ change_was_received(wp'[v], s)
                    \/ ~wp'[v].alive /\ v \notin gone' /\ s <= history_record'[v]
             PROVE  <<v, s>> \in Accounted'
  BY DEF AccountInv, change_was_received
<1>1. CASE v # w
  <2>1. wp'[v] = wp[v] /\ history_record'[v] = history_record[v] /\ gone' = gone
    BY <1>1 DEF Receives
  <2> QED BY <2>1 DEF AccountInv, change_was_received
<1>2. CASE v = w
  <2>1. wp[w].alive /\ change_was_received(wp'[w], s)
    BY <1>2 DEF Receives
  <2>2. change_was_received(wp[w], s) \/ s \in S
    BY <2>1 DEF Receives
  <2>3. change_was_received(wp[w], s) => <<w, s>> \in Accounted
    BY <2>1 DEF AccountInv
  <2> QED BY <1>2, <2>2, <2>3
<1> QED BY <1>1, <1>2

\* AccountInv is inductive, given BaseInv.
LEMMA AccountStep == BaseInv /\ BaseInv' /\ AccountInv /\ [ReaderNext]_vars => AccountInv'
<1> SUFFICES ASSUME BaseInv, BaseInv', AccountInv, [ReaderNext]_vars PROVE AccountInv'
  OBVIOUS
<1>1. /\ hist \subseteq Samples /\ MaxSeq \in Nat
      /\ history_record \in [Writers -> Nat] /\ history_record' \in [Writers -> Nat]
  BY ReaderAssumption DEF ReaderAssumption, BaseInv, TypeOK
<1>2. CASE ReceivesData
  <2>1. PICK w \in Writers, s \in 1..MaxSeq : process_data_msg(w, s)
    BY <1>2 DEF ReceivesData
  <2>2. Receives(w, {<<w, s>>}, {s}) /\ UNCHANGED <<irrelevant, lost>>
    BY <2>1, DataReceives
  <2>3. hist' = hist \cup {<<w, s>>} /\ taken' = taken
    BY <2>2 DEF Receives
  <2> QED BY <2>2, <2>3, AccountReceive DEF Accounted
<1>3. CASE ReceivesHeartbeat
  <2>1. PICK w \in Writers, first \in 1..(MaxSeq + 1) :
          /\ Receives(w, {}, LostBelow(wp[w], first))
          /\ irrelevant' \cup lost' = irrelevant \cup lost \cup Of(w, LostBelow(wp[w], first))
    BY <1>3, HeartbeatReceives DEF ReceivesHeartbeat
  <2>2. hist' = hist /\ taken' = taken
    BY <2>1 DEF Receives
  <2>3. Accounted' = Accounted \cup Of(w, LostBelow(wp[w], first))
    BY <2>1, <2>2 DEF Accounted
  <2>4. \A s \in LostBelow(wp[w], first) : <<w, s>> \in Accounted'
    BY <2>3 DEF Of
  <2> QED BY <2>1, <2>3, <2>4, AccountReceive
<1>4. CASE ReceivesGap
  <2>1. PICK w \in Writers, S \in SUBSET (1..MaxSeq) :
          /\ Receives(w, {}, S)
          /\ irrelevant' = irrelevant \cup Of(w, {s \in S : ~change_was_received(wp[w], s)})
          /\ lost' = lost
    BY <1>4, GapReceives DEF ReceivesGap
  <2>2. hist' = hist /\ taken' = taken
    BY <2>1 DEF Receives
  <2>3. Accounted' = Accounted \cup Of(w, {s \in S : ~change_was_received(wp[w], s)})
    BY <2>1, <2>2 DEF Accounted
  <2>4. \A s \in S : change_was_received(wp[w], s) \/ <<w, s>> \in Accounted'
    BY <2>3 DEF Of
  <2> QED BY <2>1, <2>3, <2>4, AccountReceive
<1>5. ASSUME NEW w \in Writers, matched_writer_add(w) PROVE AccountInv'
  <2>1. /\ UNCHANGED <<gone, history_record, hist, taken, irrelevant, lost>>
        /\ ~wp[w].alive /\ w \notin gone
    BY <1>5 DEF matched_writer_add
  <2>2. /\ wp'[w].alive /\ wp'[w].low = history_record[w] /\ wp'[w].received = {}
        /\ \A v \in Writers \ {w} : wp'[v] = wp[v]
    BY <1>5, MatchKeepsBase
  <2>3. Accounted' = Accounted
    BY <2>1 DEF Accounted
  <2> QED BY <2>1, <2>2, <2>3 DEF AccountInv, change_was_received
<1>6. ASSUME NEW w \in Writers, NEW removed_by_lease \in BOOLEAN,
             matched_writer_remove(w, removed_by_lease)
      PROVE  AccountInv'
  <2>1. /\ ~wp'[w].alive
        /\ \A v \in Writers \ {w} : wp'[v] = wp[v] /\ history_record'[v] = history_record[v]
        /\ \/ gone' = gone /\ history_record'[w] = history_record[w]
           \/ gone' = gone \cup {w}
        /\ hist' = {x \in hist : x[1] = w => x[2] <= history_record[w]}
    BY <1>6, UnmatchKeepsBase
  <2>2. UNCHANGED <<taken, irrelevant, lost>> /\ wp[w].alive
    BY <1>6 DEF matched_writer_remove
  <2>3. history_record[w] = wp[w].low
    BY <2>2 DEF BaseInv
  <2> SUFFICES ASSUME NEW v \in Writers, NEW s \in Nat \ {0},
                      \/ wp'[v].alive /\ change_was_received(wp'[v], s)
                      \/ ~wp'[v].alive /\ v \notin gone' /\ s <= history_record'[v]
               PROVE  <<v, s>> \in Accounted'
    BY DEF AccountInv, change_was_received
  <2>4. CASE v # w
    <3>1. wp'[v] = wp[v] /\ history_record'[v] = history_record[v] /\ (v \in gone <=> v \in gone')
      BY <2>1, <2>4
    <3>2. <<v, s>> \in Accounted
      BY <3>1 DEF AccountInv, change_was_received
    <3> QED BY <2>1, <2>2, <2>4, <3>2 DEF Accounted
  <2>5. CASE v = w
    <3>1. gone' = gone /\ s <= history_record[w]
      BY <2>1, <2>5
    <3>2. change_was_received(wp[w], s)
      BY <2>3, <3>1 DEF change_was_received
    <3>3. <<w, s>> \in Accounted
      BY <2>2, <3>2 DEF AccountInv
    <3> QED BY <2>1, <2>2, <2>5, <3>1, <3>3 DEF Accounted
  <2> QED BY <2>4, <2>5
<1>7. CASE take_next_sample
  <2>1. UNCHANGED <<wp, gone, history_record, irrelevant, lost>>
    BY <1>7, TakeKeepsBase
  <2>2. Accounted' = Accounted
    BY <1>7, <2>1, TakeKeepsBase DEF Accounted
  <2> QED BY <2>1, <2>2 DEF AccountInv, change_was_received
<1>8. CASE Timers
  <2>1. OnlyTimers
    BY <1>8, TimersKeepBase DEF Timers
  <2> QED BY <2>1 DEF OnlyTimers, AccountInv, Accounted, change_was_received
<1>9. CASE UNCHANGED vars
  BY <1>9 DEF vars, readerVars, AccountInv, Accounted, change_was_received
<1> QED BY <1>2, <1>3, <1>4, <1>5, <1>6, <1>7, <1>8, <1>9 DEF ReaderNext, Discovery

\* Everything the reader counts as settled, and so acknowledges, is in history, was taken, was
\* declared irrelevant or was reported as lost.
THEOREM SettledIsAccountedHolds == Spec => []SettledIsAccounted
<1>1. Init => AccountInv
  <2>1. ~stop.alive
    BY DEF stop
  <2> QED BY <2>1 DEF Init, ReaderInit, AccountInv
<1>2. BaseInv /\ AccountInv => SettledIsAccounted
  <2> SUFFICES ASSUME BaseInv, AccountInv, NEW w \in Writers, wp[w].alive,
                      NEW x \in Of(w, (1..wp[w].low) \cup wp[w].received)
               PROVE  x \in Accounted
    BY DEF SettledIsAccounted, Accounted
  <2> DEFINE s == x[2]
  <2>0. x = <<w, s>> /\ s \in (1..wp[w].low) \cup wp[w].received
    BY DEF Of
  <2> HIDE DEF s
  <2>1. wp[w].low \in Nat /\ wp[w].received \subseteq (wp[w].low + 2)..wp[w].max /\ wp[w].max \in Nat
    BY DEF BaseInv, Marks, WriterProxyType
  <2>2. s \in Nat \ {0} /\ change_was_received(wp[w], s)
    BY <2>0, <2>1 DEF change_was_received
  <2> QED BY <2>0, <2>2 DEF AccountInv
<1> QED BY <1>1, <1>2, BaseAlways, AccountStep, PTL DEF Spec

-----------------------------------------------------------------------------
\* The samples ahead of a hole, and why they never fill the history: one is only stored with
\* room to spare for those missing before it, of which there is at least one.
Future == {x \in hist : ~Available(x)}

FutureInv == Cardinality(Future) < MaxSamples

\* If no sample gets to be ahead of a hole, FutureInv stays.
LEMMA FutureShrinks ==
    ASSUME BaseInv, FutureInv, Future' \subseteq Future
    PROVE  FutureInv'
<1>1. Future \subseteq Samples
  BY DEF BaseInv, TypeOK, Future
<1>2. IsFiniteSet(Future) /\ Cardinality(Future) \in Nat
  BY <1>1, SamplesFinite
<1>3. Cardinality(Future') \in Nat /\ Cardinality(Future') <= Cardinality(Future)
  BY <1>2, FS_Subset, FS_CardinalityType
<1> QED BY <1>2, <1>3, ReaderAssumption DEF FutureInv, ReaderAssumption

\* FutureInv is inductive, given BaseInv and OrderInv.
LEMMA FutureStep == BaseInv /\ BaseInv' /\ OrderInv /\ FutureInv /\ [ReaderNext]_vars => FutureInv'
<1> SUFFICES ASSUME BaseInv, BaseInv', OrderInv, FutureInv, [ReaderNext]_vars PROVE FutureInv'
  OBVIOUS
<1>1. /\ hist \subseteq Samples /\ hist' \subseteq Samples /\ MaxSeq \in Nat /\ MaxSamples \in Nat
      /\ \A w \in Writers : wp[w].low \in Nat /\ wp'[w].low \in Nat
  BY ReaderAssumption DEF ReaderAssumption, BaseInv, TypeOK, Marks, WriterProxyType
<1>2. \A x \in Samples : x[1] \in Writers /\ x[2] \in Nat
  BY <1>1 DEF Samples
<1>0. ASSUME NEW w \in Writers, NEW S, NEW new, Receives(w, new, S), NEW x \in Samples, Available(x)
      PROVE  Available(x)'
  <2>1. x[1] \in Writers /\ x[2] \in Nat
    BY <1>2
  <2>2. CASE x[1] = w
    <3>1. wp[w].alive /\ wp[w].low <= wp'[w].low
      BY <1>0 DEF Receives
    <3>2. x[2] <= wp[w].low
      BY <1>0, <2>2, <3>1 DEF Available
    <3>3. x[2] <= wp'[w].low
      BY <1>1, <2>1, <3>1, <3>2
    <3> QED BY <2>2, <3>3 DEF Available
  <2>3. CASE x[1] # w
    <3>1. wp'[x[1]] = wp[x[1]]
      BY <1>0, <2>1, <2>3 DEF Receives
    <3> QED BY <1>0, <3>1 DEF Available
  <2> QED BY <2>2, <2>3
<1>3. ASSUME NEW w \in Writers, NEW S, Receives(w, {}, S) PROVE FutureInv'
  <2>0. \A x \in Samples : Available(x) => Available(x)'
    BY <1>0, <1>3
  <2>1. Future' \subseteq Future
    <3>1. hist' = hist
      BY <1>3 DEF Receives
    <3> QED BY <1>1, <1>2, <2>0, <3>1 DEF Future
  <2> QED BY <2>1, FutureShrinks
<1>4. ASSUME NEW w \in Writers, NEW s \in 1..MaxSeq, process_data_msg(w, s) PROVE FutureInv'
  <2>1. Receives(w, {<<w, s>>}, {s}) /\ (s = wp[w].low + 1 => s <= wp'[w].low)
    BY <1>4, DataReceives
  <2>2. CASE s = wp[w].low + 1
    <3>1. Available(<<w, s>>)'
      BY <2>1, <2>2 DEF Available
    <3>2. Future' \subseteq Future
      <4>1. \A x \in Samples : Available(x) => Available(x)'
        BY <1>0, <2>1
      <4>2. hist' = hist \cup {<<w, s>>}
        BY <2>1 DEF Receives
      <4> QED BY <1>1, <3>1, <4>1, <4>2 DEF Future
    <3> QED BY <3>2, FutureShrinks
  <2>3. CASE s # wp[w].low + 1
    <3> DEFINE T == ((wp[w].low + 1)..(s - 1)) \ wp[w].received
    <3>1. ~(s <= wp[w].low) /\ Cardinality(hist) + Cardinality(T) < MaxSamples
      BY <1>4 DEF process_data_msg, DataAccepted, change_was_received, CanBeAdded,
                  unknown_missing_changes_up_to
    <3>2. wp[w].low + 1 \notin wp[w].received
      BY <1>1, SMTT(30) DEF BaseInv, Marks, WriterProxyType
    <3>3. wp[w].low + 1 \in T
      BY <1>1, <2>3, <3>1, <3>2, SMTT(30)
    <3>4. IsFiniteSet(T)
      <4>1. IsFiniteSet((wp[w].low + 1)..(s - 1))
        BY <1>1, FS_Interval
      <4> QED BY <4>1, FS_Subset
    <3>5. Cardinality(T) \in Nat /\ Cardinality(T) # 0
      BY <3>3, <3>4, FS_CardinalityType, FS_EmptySet
    <3> HIDE DEF T
    <3>6. IsFiniteSet(hist) /\ Cardinality(hist) \in Nat
      BY <1>1, SamplesFinite
    <3>7. hist' = hist \cup {<<w, s>>}
      BY <2>1 DEF Receives
    <3>8. Cardinality(hist') \in Nat /\ Cardinality(hist') <= Cardinality(hist) + 1
      <4>1. Cardinality(hist') = Cardinality(hist) \/ Cardinality(hist') = Cardinality(hist) + 1
        BY <3>6, <3>7, FS_AddElement
      <4> QED BY <3>6, <4>1
    <3>9. IsFiniteSet(hist') /\ Future' \subseteq hist'
      BY <3>6, <3>7, FS_AddElement DEF Future
    <3>10. Cardinality(Future') \in Nat /\ Cardinality(Future') <= Cardinality(hist')
      BY <3>9, FS_Subset, FS_CardinalityType
    <3> QED BY <1>1, <3>1, <3>5, <3>6, <3>8, <3>10 DEF FutureInv
  <2> QED BY <2>2, <2>3
<1>5. CASE ReceivesData
  BY <1>4, <1>5 DEF ReceivesData
<1>6. CASE ReceivesHeartbeat
  <2>1. PICK w \in Writers, first \in 1..(MaxSeq + 1), last \in 0..MaxSeq,
             count \in 1..MaxHeartbeats, final \in BOOLEAN :
          process_heartbeat_msg(w, Heartbeat(w, ThisReader, first, last, count, final))
    BY <1>6, Zenon DEF ReceivesHeartbeat
  <2>2. Receives(w, {}, LostBelow(wp[w], first))
    BY <2>1, HeartbeatReceives
  <2> QED BY <1>3, <2>2
<1>7. CASE ReceivesGap
  BY <1>3, <1>7, GapReceives DEF ReceivesGap
<1>8. ASSUME NEW w \in Writers, matched_writer_add(w) PROVE FutureInv'
  <2>1. /\ wp'[w].low = history_record[w] /\ \A v \in Writers \ {w} : wp'[v] = wp[v]
        /\ hist' = hist
    BY <1>8, MatchKeepsBase DEF matched_writer_add
  <2>2. \A x \in hist : x[1] = w => x[2] <= history_record[w]
    BY <1>8 DEF matched_writer_add, OrderInv
  <2>3. Future' \subseteq Future
    BY <1>1, <1>2, <2>1, <2>2 DEF Future, Available
  <2> QED BY <2>3, FutureShrinks
<1>9. ASSUME NEW w \in Writers, NEW removed_by_lease \in BOOLEAN,
             matched_writer_remove(w, removed_by_lease)
      PROVE  FutureInv'
  <2>1. ~wp'[w].alive /\ (\A v \in Writers \ {w} : wp'[v] = wp[v]) /\ hist' \subseteq hist
    BY <1>9, UnmatchKeepsBase
  <2>2. Future' \subseteq Future
    BY <1>1, <1>2, <2>1 DEF Future, Available
  <2> QED BY <2>2, FutureShrinks
<1>10. CASE take_next_sample
  <2>1. wp' = wp /\ hist' \subseteq hist
    BY <1>10, TakeKeepsBase
  <2>2. Future' \subseteq Future
    BY <2>1 DEF Future, Available
  <2> QED BY <2>2, FutureShrinks
<1>11. CASE Timers
  <2>1. OnlyTimers
    BY <1>11, TimersKeepBase DEF Timers
  <2>2. Future' \subseteq Future
    BY <1>1, <1>2, <2>1 DEF OnlyTimers, Future, Available
  <2> QED BY <2>2, FutureShrinks
<1>12. CASE UNCHANGED vars
  <2>1. Future' = Future
    BY <1>12 DEF vars, readerVars, Future, Available
  <2> QED BY <2>1, FutureShrinks
<1> QED BY <1>5, <1>6, <1>7, <1>8, <1>9, <1>10, <1>11, <1>12 DEF ReaderNext, Discovery

\* A full history holds a sample that can be taken: samples ahead of a hole cannot fill it, so
\* the missing ones always get their room.
THEOREM FullHistoryCanBeTakenHolds == Spec => []FullHistoryCanBeTaken
<1>1. Init => OrderInv
  BY DEF Init, ReaderInit, OrderInv, TakenInOrder
<1>2. Init => FutureInv
  <2> SUFFICES ASSUME Init PROVE FutureInv
    OBVIOUS
  <2>1. Future = {}
    BY DEF Init, ReaderInit, Future
  <2> QED BY <2>1, FS_EmptySet, ReaderAssumption DEF FutureInv, ReaderAssumption
<1>3. BaseInv /\ FutureInv => FullHistoryCanBeTaken
  <2> SUFFICES ASSUME BaseInv, FutureInv, Cardinality(hist) >= MaxSamples,
                      \A x \in hist : ~Available(x)
               PROVE  FALSE
    BY DEF FullHistoryCanBeTaken
  <2>1. Future = hist
    BY DEF Future
  <2>2. Cardinality(hist) \in Nat
    BY SamplesFinite DEF BaseInv, TypeOK
  <2> QED BY <2>1, <2>2, ReaderAssumption DEF FutureInv, ReaderAssumption
<1> QED BY <1>1, <1>2, <1>3, BaseAlways, OrderStep, FutureStep, PTL DEF Spec

-----------------------------------------------------------------------------
\* The samples the application can take.
Unread == {x \in hist : Available(x)}

\* A message makes the samples between the old and the new low mark available.
LEMMA UnreadReceive ==
    ASSUME BaseInv, BaseInv', UnreadIsAvailable, NEW w \in Writers, NEW S, NEW new,
           Receives(w, new, S), \A x \in new : x[1] = w /\ x[2] \in Nat /\ x[2] > wp[w].low
    PROVE  UnreadIsAvailable'
<1> DEFINE B == Between(w, hist', wp[w].low, wp'[w].low)
<1>1. /\ hist \subseteq Samples /\ hist' \subseteq Samples /\ MaxSeq \in Nat
      /\ wp[w].low \in Nat /\ wp'[w].low \in Nat
  BY ReaderAssumption DEF ReaderAssumption, BaseInv, TypeOK, Marks, WriterProxyType
<1>2. /\ wp[w].alive /\ wp'[w].alive /\ wp[w].low <= wp'[w].low /\ hist' = hist \cup new
      /\ \A v \in Writers \ {w} : wp'[v] = wp[v]
      /\ total_unread_' = total_unread_ + Cardinality(B)
  BY DEF Receives
<1>3. \A x \in hist' : x[1] \in Writers /\ x[2] \in Nat
  BY <1>1 DEF Samples
<1>4. \A x \in hist' : x[1] # w => (x \in Unread' <=> x \in Unread)
  BY <1>2, <1>3 DEF Unread, Available
<1>5. \A x \in hist' : x[1] = w => (x \in Unread' <=> x \in Unread \/ x \in B)
  BY <1>1, <1>2, <1>3 DEF Unread, Available, Between
<1>6. Unread' = Unread \cup B /\ Unread \cap B = {}
  <2>1. Unread' \subseteq hist' /\ Unread \subseteq hist' /\ B \subseteq hist'
    BY <1>2 DEF Unread, Between
  <2>2. \A x \in B : x[1] = w
    BY DEF Between
  <2>3. \A x \in B : x \notin Unread
    BY <1>1, <1>2, <1>3 DEF Unread, Available, Between
  <2> HIDE DEF B
  <2> QED BY <1>4, <1>5, <2>1, <2>2, <2>3
<1>7. /\ IsFiniteSet(Unread) /\ Cardinality(Unread) \in Nat
      /\ IsFiniteSet(B) /\ Cardinality(B) \in Nat
  <2>1. Unread \subseteq Samples /\ B \subseteq Samples
    BY <1>1 DEF Unread, Between
  <2> QED BY <2>1, SamplesFinite
<1> HIDE DEF B
<1>8. Cardinality(Unread \cup B) = Cardinality(Unread) + Cardinality(B)
  <2>1. Cardinality(Unread \cap B) = 0
    BY <1>6, FS_EmptySet
  <2>2. Cardinality(Unread \cup B) = Cardinality(Unread) + Cardinality(B) - Cardinality(Unread \cap B)
    BY <1>7, FS_Union
  <2> QED BY <1>7, <2>1, <2>2
<1>9. total_unread_ = Cardinality(Unread)
  BY DEF UnreadIsAvailable, Unread
<1>10. total_unread_' = Cardinality(Unread')
  BY <1>2, <1>6, <1>8, <1>9
<1> QED BY <1>10 DEF UnreadIsAvailable, Unread

\* UnreadIsAvailable is inductive, given BaseInv and OrderInv.
LEMMA UnreadStep ==
    BaseInv /\ BaseInv' /\ OrderInv /\ UnreadIsAvailable /\ [ReaderNext]_vars => UnreadIsAvailable'
<1> SUFFICES ASSUME BaseInv, BaseInv', OrderInv, UnreadIsAvailable, [ReaderNext]_vars
             PROVE  UnreadIsAvailable'
  OBVIOUS
<1>1. /\ hist \subseteq Samples /\ MaxSeq \in Nat /\ \A v \in Writers : wp[v].low \in Nat
      /\ history_record \in [Writers -> Nat]
  BY ReaderAssumption DEF ReaderAssumption, BaseInv, TypeOK, Marks, WriterProxyType
<1>2. \A x \in hist : x[1] \in Writers /\ x[2] \in Nat
  BY <1>1 DEF Samples
<1>3. ASSUME UNCHANGED total_unread_, Unread' = Unread PROVE UnreadIsAvailable'
  BY <1>3 DEF UnreadIsAvailable, Unread
<1>4. CASE ReceivesData
  <2>1. PICK w \in Writers, s \in 1..MaxSeq : process_data_msg(w, s)
    BY <1>4 DEF ReceivesData
  <2>2. Receives(w, {<<w, s>>}, {s})
    BY <2>1, DataReceives
  <2>3. s \in Nat /\ s > wp[w].low
    BY <1>1, <2>1 DEF process_data_msg, DataAccepted, change_was_received
  <2>4. \A x \in {<<w, s>>} : x[1] = w /\ x[2] \in Nat /\ x[2] > wp[w].low
    BY <2>3
  <2> QED BY <2>2, <2>4, UnreadReceive
<1>5. CASE ReceivesHeartbeat
  <2>1. PICK w \in Writers, first \in 1..(MaxSeq + 1) : Receives(w, {}, LostBelow(wp[w], first))
    BY <1>5, HeartbeatReceives DEF ReceivesHeartbeat
  <2> QED BY <2>1, UnreadReceive
<1>6. CASE ReceivesGap
  <2>1. PICK w \in Writers, S \in SUBSET (1..MaxSeq) : Receives(w, {}, S)
    BY <1>6, GapReceives DEF ReceivesGap
  <2> QED BY <2>1, UnreadReceive
<1>7. ASSUME NEW w \in Writers, matched_writer_add(w) PROVE UnreadIsAvailable'
  <2>1. /\ UNCHANGED <<hist, total_unread_>> /\ ~wp[w].alive /\ w \notin gone
        /\ wp'[w].alive /\ wp'[w].low = history_record[w]
        /\ \A v \in Writers \ {w} : wp'[v] = wp[v]
    BY <1>7, MatchKeepsBase DEF matched_writer_add
  <2>2. \A x \in hist : Available(x)' <=> Available(x)
    BY <1>2, <2>1 DEF Available, OrderInv
  <2>3. Unread' = Unread
    BY <2>1, <2>2 DEF Unread
  <2> QED BY <1>3, <2>1, <2>3
<1>8. ASSUME NEW w \in Writers, NEW removed_by_lease \in BOOLEAN,
             matched_writer_remove(w, removed_by_lease)
      PROVE  UnreadIsAvailable'
  <2>1. /\ wp[w].alive /\ ~wp'[w].alive /\ UNCHANGED total_unread_
        /\ \A v \in Writers \ {w} : wp'[v] = wp[v]
        /\ hist' = {x \in hist : x[1] = w => x[2] <= history_record[w]}
    BY <1>8, UnmatchKeepsBase DEF matched_writer_remove
  <2>2. history_record[w] = wp[w].low
    BY <2>1 DEF BaseInv
  <2>3. \A x \in hist : x \in hist' /\ Available(x)' <=> Available(x)
    BY <1>2, <2>1, <2>2 DEF Available
  <2>4. Unread' = Unread
    BY <2>1, <2>3 DEF Unread
  <2> QED BY <1>3, <2>1, <2>4
<1>9. CASE take_next_sample
  <2>1. UNCHANGED wp /\ total_unread_' = IF total_unread_ > 0 THEN total_unread_ - 1 ELSE 0
    BY <1>9, TakeKeepsBase
  <2>2. PICK w \in Writers, s \in 1..MaxSeq :
          <<w, s>> \in hist /\ Available(<<w, s>>) /\ hist' = hist \ {<<w, s>>}
    BY <1>9, TakeKeepsBase
  <2>3. <<w, s>> \in Unread /\ Unread' = Unread \ {<<w, s>>}
    BY <2>1, <2>2 DEF Unread, Available
  <2>4. IsFiniteSet(Unread) /\ Cardinality(Unread) \in Nat
    BY <1>1, SamplesFinite DEF Unread
  <2>5. Cardinality(Unread') = Cardinality(Unread) - 1
    BY <2>3, <2>4, FS_RemoveElement
  <2>6. IsFiniteSet(Unread') /\ Cardinality(Unread') \in Nat
    BY <2>3, <2>4, FS_RemoveElement, FS_CardinalityType
  <2>7. total_unread_ = Cardinality(Unread)
    BY DEF UnreadIsAvailable, Unread
  <2>8. total_unread_' = Cardinality(Unread')
    BY <2>1, <2>4, <2>5, <2>6, <2>7
  <2> QED BY <2>8 DEF UnreadIsAvailable, Unread
<1>10. CASE Timers
  <2>1. OnlyTimers
    BY <1>10, TimersKeepBase DEF Timers
  <2>2. Unread' = Unread
    BY <1>2, <2>1 DEF OnlyTimers, Unread, Available
  <2> QED BY <1>3, <2>1, <2>2 DEF OnlyTimers
<1>11. CASE UNCHANGED vars
  BY <1>11 DEF vars, readerVars, UnreadIsAvailable, Available
<1> QED BY <1>4, <1>5, <1>6, <1>7, <1>8, <1>9, <1>10, <1>11 DEF ReaderNext, Discovery

\* UnreadIsAvailable: total_unread_, on which wait_for_unread_message() sleeps, counts exactly
\* the samples the application can take, also across drops and returns of writers.
THEOREM UnreadIsAvailableHolds == Spec => []UnreadIsAvailable
<1>1. Init => OrderInv
  BY DEF Init, ReaderInit, OrderInv, TakenInOrder
<1>2. Init => UnreadIsAvailable
  <2> SUFFICES ASSUME Init PROVE UnreadIsAvailable
    OBVIOUS
  <2>1. {x \in hist : Available(x)} = {} /\ total_unread_ = 0
    BY DEF Init, ReaderInit
  <2> QED BY <2>1, FS_EmptySet DEF UnreadIsAvailable
<1> QED BY <1>1, <1>2, BaseAlways, OrderStep, UnreadStep, PTL DEF Spec

-----------------------------------------------------------------------------
\* Every ACKNACK sent was numbered by acknack_count_, and acknowledges nothing above the number
\* recorded for its writer unless that is forgotten, with no more ACKNACKs to come.
AckInv ==
    /\ \A m \in net :
          /\ m.writer \in Writers /\ m.count \in Nat /\ m.base \in Nat
          /\ m.count <= acknack_count_
          /\ m.writer \notin gone => m.base <= history_record[m.writer] + 1
    /\ AcksNeverRegress

\* A step that sends nothing, forgets no number and lets none go back keeps AckInv.
LEMMA NoAckKeeps ==
    ASSUME BaseInv, BaseInv', AckInv, UNCHANGED <<net, acknack_count_>>,
           \A v \in Writers : v \notin gone' => v \notin gone /\ history_record[v] <= history_record'[v]
    PROVE  AckInv'
<1>1. history_record \in [Writers -> Nat] /\ history_record' \in [Writers -> Nat]
  BY DEF BaseInv, TypeOK
<1>2. ASSUME NEW m \in net, m.writer \notin gone' PROVE m.base <= history_record'[m.writer] + 1
  <2> DEFINE old == history_record[m.writer]
             new == history_record'[m.writer]
             b == m.base
  <2>1. m.writer \in Writers /\ b \in Nat
    BY DEF AckInv
  <2>2. old \in Nat /\ new \in Nat /\ old <= new /\ b <= old + 1
    BY <1>1, <1>2, <2>1 DEF AckInv
  <2> HIDE DEF old, new, b
  <2>3. b <= new + 1
    BY <2>1, <2>2
  <2> QED BY <2>3 DEF b, new
<1>3. AcksNeverRegress'
  BY DEF AckInv, AcksNeverRegress
<1> QED BY <1>2, <1>3 DEF AckInv

\* A timer sends an ACKNACK that asks for everything, or acknowledges up to the low mark.
LEMMA AckKeeps ==
    ASSUME BaseInv, AckInv, NEW w \in Writers,
           perform_heartbeat_response(w) \/ perform_initial_ack_nack(w)
    PROVE  AckInv'
<1>1. /\ wp[w].alive /\ UNCHANGED <<gone, history_record>>
      /\ \/ UNCHANGED <<acknack_count_, net>>
         \/ \E base \in {0, wp[w].low + 1} : \E missing, final : send_acknack(w, base, missing, final)
  <2>1. CASE perform_heartbeat_response(w)
    BY <2>1, Zenon DEF perform_heartbeat_response
  <2>2. CASE perform_initial_ack_nack(w)
    BY <2>2, Zenon DEF perform_initial_ack_nack
  <2> QED BY <2>1, <2>2
<1>2. /\ acknack_count_ \in Nat /\ wp[w].low \in Nat /\ history_record[w] = wp[w].low /\ w \notin gone
      /\ history_record \in [Writers -> Nat]
  BY <1>1, ReaderAssumption DEF ReaderAssumption, BaseInv, TypeOK, Marks, WriterProxyType
<1>3. CASE UNCHANGED <<acknack_count_, net>>
  BY <1>1, <1>3 DEF AckInv, AcksNeverRegress
<1>4. ASSUME NEW base \in {0, wp[w].low + 1}, NEW missing, NEW final,
             send_acknack(w, base, missing, final)
      PROVE  AckInv'
  <2> DEFINE a == AckNack(w, ThisReader, base, missing, acknack_count_ + 1, final)
  <2>1. acknack_count_' = acknack_count_ + 1 /\ net' = net \cup {a}
    BY <1>4 DEF send_acknack
  <2>2. a.writer = w /\ a.count = acknack_count_ + 1 /\ a.base = base
    BY DEF AckNack
  <2> HIDE DEF a
  <2>3. base \in Nat /\ base <= history_record[w] + 1
    BY <1>2
  <2>4. ASSUME NEW m \in net'
        PROVE  /\ m.writer \in Writers /\ m.count \in Nat /\ m.base \in Nat
               /\ m.count <= acknack_count_'
               /\ m.writer \notin gone' => m.base <= history_record'[m.writer] + 1
    <3>1. CASE m = a
      BY <1>1, <1>2, <2>1, <2>2, <2>3, <3>1
    <3>2. CASE m \in net
      <4>1. /\ m.writer \in Writers /\ m.count \in Nat /\ m.base \in Nat
            /\ m.count <= acknack_count_
            /\ m.writer \notin gone => m.base <= history_record[m.writer] + 1
        BY <3>2 DEF AckInv
      <4>2. m.count <= acknack_count_'
        BY <1>2, <2>1, <4>1
      <4> QED BY <1>1, <4>1, <4>2
    <3> QED BY <2>1, <3>1, <3>2
  <2>5. ASSUME NEW m \in net', NEW n \in net', m.writer = n.writer, m.count < n.count, n.base # 0
        PROVE  m.base <= n.base
    <3>1. CASE m \in net /\ n \in net
      BY <2>5, <3>1 DEF AckInv, AcksNeverRegress
    <3>2. CASE m = a
      <4>1. n.count <= acknack_count_' /\ n.count \in Nat
        BY <2>4
      <4> QED BY <1>2, <2>1, <2>2, <2>5, <3>2, <4>1
    <3>3. CASE m \in net /\ n = a
      <4>1. m.writer = w /\ m.base <= history_record[w] + 1
        BY <1>2, <2>2, <2>5, <3>3 DEF AckInv
      <4>2. base = history_record[w] + 1
        BY <1>2, <2>2, <2>5, <3>3
      <4> QED BY <2>2, <3>3, <4>1, <4>2
    <3> QED BY <2>1, <3>1, <3>2, <3>3
  <2> QED BY <2>4, <2>5 DEF AckInv, AcksNeverRegress
<1> QED BY <1>1, <1>3, <1>4

\* AckInv is inductive, given BaseInv.
LEMMA AckStep == BaseInv /\ BaseInv' /\ AckInv /\ [ReaderNext]_vars => AckInv'
<1> SUFFICES ASSUME BaseInv, BaseInv', AckInv, [ReaderNext]_vars PROVE AckInv'
  OBVIOUS
<1>1. history_record \in [Writers -> Nat] /\ \A v \in Writers : wp[v].low \in Nat
  BY DEF BaseInv, TypeOK, Marks, WriterProxyType
<1>2. ASSUME NEW w \in Writers, NEW S, NEW new, Receives(w, new, S), UNCHANGED <<net, acknack_count_>>
      PROVE  AckInv'
  <2>1. /\ UNCHANGED gone /\ wp[w].alive /\ history_record'[w] = wp'[w].low
        /\ wp[w].low <= wp'[w].low
        /\ \A v \in Writers \ {w} : history_record'[v] = history_record[v]
    BY <1>2 DEF Receives
  <2>2. history_record[w] = wp[w].low
    BY <2>1 DEF BaseInv
  <2>3. \A v \in Writers : history_record[v] <= history_record'[v]
    BY <1>1, <2>1, <2>2
  <2> QED BY <1>2, <2>1, <2>3, NoAckKeeps
<1>3. CASE ReceivesData /\ UNCHANGED net
  <2>1. PICK w \in Writers, s \in 1..MaxSeq : process_data_msg(w, s)
    BY <1>3 DEF ReceivesData
  <2>2. Receives(w, {<<w, s>>}, {s}) /\ UNCHANGED acknack_count_
    BY <2>1, DataReceives DEF process_data_msg
  <2> QED BY <1>2, <1>3, <2>2
<1>4. CASE ReceivesHeartbeat /\ UNCHANGED net
  <2>0. ReceivesHeartbeat
    BY <1>4
  <2>1. PICK w \in Writers, first \in 1..(MaxSeq + 1) : Receives(w, {}, LostBelow(wp[w], first))
    BY <2>0, HeartbeatReceives DEF ReceivesHeartbeat
  <2>2. UNCHANGED acknack_count_
    <3>1. \E v, hb : process_heartbeat_msg(v, hb)
      BY <2>0, Zenon DEF ReceivesHeartbeat
    <3> QED BY <3>1 DEF process_heartbeat_msg
  <2> QED BY <1>2, <1>4, <2>1, <2>2
<1>5. CASE ReceivesGap /\ UNCHANGED net
  <2>0. ReceivesGap
    BY <1>5
  <2>1. PICK w \in Writers, S \in SUBSET (1..MaxSeq) : Receives(w, {}, S)
    BY <2>0, GapReceives DEF ReceivesGap
  <2>2. UNCHANGED acknack_count_
    <3>1. \E v, gap : process_gap_msg(v, gap)
      BY <2>0, Zenon DEF ReceivesGap
    <3> QED BY <3>1 DEF process_gap_msg
  <2> QED BY <1>2, <1>5, <2>1, <2>2
<1>6. ASSUME NEW w \in Writers, matched_writer_add(w) PROVE AckInv'
  <2>1. UNCHANGED <<net, acknack_count_, gone, history_record>>
    BY <1>6 DEF matched_writer_add
  <2> QED BY <1>1, <2>1, NoAckKeeps
<1>7. ASSUME NEW w \in Writers, NEW removed_by_lease \in BOOLEAN,
             matched_writer_remove(w, removed_by_lease)
      PROVE  AckInv'
  <2>1. /\ UNCHANGED <<net, acknack_count_>>
        /\ \A v \in Writers \ {w} : history_record'[v] = history_record[v]
        /\ \/ gone' = gone /\ history_record'[w] = history_record[w]
           \/ gone' = gone \cup {w}
    BY <1>7, UnmatchKeepsBase DEF matched_writer_remove
  <2>2. \A v \in Writers : v \notin gone' => v \notin gone /\ history_record[v] <= history_record'[v]
    BY <1>1, <2>1
  <2> QED BY <2>1, <2>2, NoAckKeeps
<1>8. CASE take_next_sample
  <2>1. UNCHANGED <<net, acknack_count_, gone, history_record>>
    BY <1>8 DEF take_next_sample
  <2> QED BY <1>1, <2>1, NoAckKeeps
<1>9. CASE Timers
  BY <1>9, AckKeeps DEF Timers
<1>10. CASE UNCHANGED vars
  BY <1>10 DEF vars, readerVars, AckInv, AcksNeverRegress
<1> QED BY <1>3, <1>4, <1>5, <1>6, <1>7, <1>8, <1>9, <1>10 DEF ReaderNext, Discovery

\* AcksNeverRegress: of two ACKNACKs to a writer, the one with the later count acknowledges at
\* least as much, unless it is the initial one that asks for everything (base 0), however often
\* the writer is dropped and matched again in between.
THEOREM AcksNeverRegressHolds == Spec => []AcksNeverRegress
<1>1. Init => AckInv
  BY DEF Init, ReaderInit, AckInv, AcksNeverRegress
<1>2. AckInv => AcksNeverRegress
  BY DEF AckInv
<1> QED BY <1>1, <1>2, BaseAlways, AckStep, PTL DEF Spec
=============================================================================
