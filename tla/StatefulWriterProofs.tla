------------------------ MODULE StatefulWriterProofs ------------------------
(***************************************************************************)
(* Properties of StatefulWriter for any number of readers, any history     *)
(* size and any number of changes.  A first invariant, IInv, ties the      *)
(* proxies and the marks to the history: with it, a change leaves only     *)
(* when every reader it was written for has acknowledged it.  A second,    *)
(* FlowInv, ties the flow controller's lists and the timers to the         *)
(* proxies: with it, every type is right, no list points outside the       *)
(* history, and no change is left without something to move it on.         *)
(***************************************************************************)
EXTENDS StatefulWriter, ReaderProxyProofs, FiniteSetTheorems

\* Every proxy agrees with the history.
ProxiesOK(proxies, history, last) ==
    /\ proxies = [r \in Readers |-> proxies[r]]
    /\ \A r \in Readers : ProxyOK(proxies[r], history, last)

\* Both marks the removal of a change relies on cover every matched reader.
MarksOK(proxies, history, last, next, may) ==
    /\ next \in 1..(last + 1)
    /\ \A r \in Matched(proxies) : Covered(proxies[r], next - 1)
    /\ may = 1 => history # {} /\ \A r \in Matched(proxies) : Covered(proxies[r], Min(history))

\* The inductive invariant.
IInv ==
    /\ lastSeq \in 0..MaxSeq
    /\ lastSeq > 0 => whist # {}
    /\ wpc = "waiting" => lastSeq < MaxSeq /\ whist # {}
    /\ HistoryOK(whist, lastSeq)
    /\ ProxiesOK(rp, whist, lastSeq)
    /\ MarksOK(rp, whist, lastSeq, nextAllAcked, may_remove_change_)

-----------------------------------------------------------------------------
\* The lowest mark is at most the last number and at most the mark of each matched reader.
LEMMA LowestMarkBounds ==
    ASSUME NEW proxies, NEW history, NEW last \in 0..MaxSeq, MaxSeq \in Nat,
           ProxiesOK(proxies, history, last)
    PROVE  /\ LowestMark(proxies, last) \in 0..last
           /\ \A r \in Matched(proxies) : LowestMark(proxies, last) <= proxies[r].low
<1> DEFINE Lows == {proxies[r].low : r \in Matched(proxies)}
<1>1. CASE Matched(proxies) = {}
  BY <1>1 DEF LowestMark
<1>2. CASE Matched(proxies) # {}
  <2>1. \A r \in Matched(proxies) : proxies[r].low \in 0..last
    BY DEF Matched, ProxiesOK, ProxyOK, Shape
  <2>2. Lows \subseteq 0..last /\ Lows \subseteq Nat /\ Lows # {}
    BY <1>2, <2>1
  <2>3. Min(Lows) \in Lows /\ \A y \in Lows : Min(Lows) <= y
    BY <2>2, MinIsLeast
  <2>4. LowestMark(proxies, last) = Min(Lows)
    BY <1>2 DEF LowestMark
  <2> QED BY <2>2, <2>3, <2>4
<1> QED BY <1>1, <1>2

\* check_acked_status() keeps both marks covered.
LEMMA CheckAckedKeepsMarks ==
    ASSUME NEW proxies, NEW history, NEW last \in 0..MaxSeq, NEW may, MaxSeq \in Nat,
           last > 0 => history # {},
           HistoryOK(history, last),
           ProxiesOK(proxies, history, last),
           MarksOK(proxies, history, last, nextAllAcked, may),
           check_acked_status(proxies, history, last, may)
    PROVE  MarksOK(proxies, history, last, nextAllAcked', may_remove_change_')
<1> DEFINE low == LowestMark(proxies, last)
<1>1. low \in 0..last /\ \A r \in Matched(proxies) : low <= proxies[r].low
  BY LowestMarkBounds
<1>2. \A r \in Matched(proxies) : Shape(proxies[r]) /\ Covered(proxies[r], proxies[r].low)
  BY DEF Matched, ProxiesOK, ProxyOK
<1>3. ASSUME NEW r \in Matched(proxies), NEW s \in Int, s <= low
      PROVE  Covered(proxies[r], s)
  <2>1. proxies[r].low \in Nat
    BY <1>2 DEF Shape
  <2>2. s <= proxies[r].low
    BY <1>1, <1>3, <2>1
  <2> QED BY <1>2, <2>2, CoveredBelow
<1>4. ASSUME \A r \in Matched(proxies) : ~HasChanges(proxies[r]), NEW r \in Matched(proxies)
      PROVE  Covered(proxies[r], last)
  <2>1. CASE last = 0
    BY <2>1, <1>2, ZeroCovered
  <2>2. CASE last > 0
    <3>1. last \in Seqs /\ last \in history
      BY <2>2, HistoryIsInterval DEF Seqs
    <3>2. proxies[r].changes[last] = "none"
      BY <3>1, <1>4 DEF HasChanges
    <3>3. last <= proxies[r].low
      BY <3>1, <3>2, <1>2 DEF ProxiesOK, ProxyOK, Matched, Shape
    <3> QED BY <3>3, <1>2, CoveredBelow
  <2> QED BY <2>1, <2>2
<1>5. nextAllAcked' \in 1..(last + 1)
  BY <1>1 DEF check_acked_status, MarksOK
<1>6. \A r \in Matched(proxies) : Covered(proxies[r], nextAllAcked' - 1)
  <2>1. CASE \A r \in Matched(proxies) : ~HasChanges(proxies[r])
    <3>1. nextAllAcked' - 1 = last
      BY <2>1 DEF check_acked_status
    <3> QED BY <3>1, <2>1, <1>4
  <2>2. CASE ~ \A r \in Matched(proxies) : ~HasChanges(proxies[r])
    <3>1. nextAllAcked' - 1 = low \/ nextAllAcked' = nextAllAcked
      BY <2>2, <1>1 DEF check_acked_status
    <3>2. CASE nextAllAcked' - 1 = low
      BY <3>2, <1>3, <1>1
    <3>3. CASE nextAllAcked' = nextAllAcked
      BY <3>3 DEF MarksOK
    <3> QED BY <3>1, <3>2, <3>3
  <2> QED BY <2>1, <2>2
<1>7. ASSUME may_remove_change_' = 1
      PROVE  history # {} /\ \A r \in Matched(proxies) : Covered(proxies[r], Min(history))
  <2>1. CASE history # {} /\ low >= Min(history)
    <3>1. Min(history) \in Int
      BY <2>1, HistoryIsInterval
    <3> QED BY <2>1, <3>1, <1>3
  <2>2. CASE ~ (history # {} /\ low >= Min(history))
    BY <2>2, <1>7 DEF check_acked_status, MarksOK
  <2> QED BY <2>1, <2>2
<1> QED BY <1>5, <1>6, <1>7 DEF MarksOK

-----------------------------------------------------------------------------
\* Marks covered for some proxies are covered for proxies with the same past.
LEMMA MarksKept ==
    ASSUME NEW proxies, NEW others, NEW history, NEW last, NEW next, NEW may,
           MarksOK(proxies, history, last, next, may),
           \A r \in Readers : SamePast(proxies[r], others[r])
    PROVE  MarksOK(others, history, last, next, may)
<1>1. Matched(others) = Matched(proxies)
  BY DEF Matched, SamePast
<1>2. \A r \in Matched(proxies) : r \in Readers
  BY DEF Matched
<1>3. ASSUME NEW r \in Readers, NEW s
      PROVE  Covered(proxies[r], s) <=> Covered(others[r], s)
  BY DEF Covered, SamePast
<1> QED BY <1>1, <1>2, <1>3 DEF MarksOK

\* Handing a change to the transport touches neither the marks nor which changes a proxy has.
LEMMA UnderwayKeeps ==
    ASSUME NEW proxies, NEW history, NEW last, NEW seq, ProxiesOK(proxies, history, last)
    PROVE  /\ ProxiesOK(MarkUnderway(seq, proxies), history, last)
           /\ \A r \in Readers : SamePast(proxies[r], MarkUnderway(seq, proxies)[r])
<1> DEFINE others == MarkUnderway(seq, proxies)
<1>1. ASSUME NEW r \in Readers
      PROVE  ProxyOK(others[r], history, last) /\ SamePast(proxies[r], others[r])
  <2>1. ProxyOK(proxies[r], history, last)
    BY DEF ProxiesOK
  <2>2. CASE r \notin Targets(seq, proxies)
    BY <2>1, <2>2 DEF MarkUnderway, SamePast
  <2>3. CASE r \in Targets(seq, proxies)
    <3>1. others[r] = from_unsent_to_status(proxies[r], seq)
      BY <2>3 DEF MarkUnderway
    <3>2. proxies[r].changes[seq] = "UNSENT"
      BY <2>3 DEF Targets
    <3> QED BY <2>1, <3>1, <3>2, UnderwayKeepsProxy
  <2> QED BY <2>2, <2>3
<1>2. others = [r \in Readers |-> others[r]]
  BY DEF MarkUnderway
<1> QED BY <1>1, <1>2 DEF ProxiesOK

\* The proxies after a change has been added to those of matched readers.
Added(proxies, seq) ==
    [r \in Readers |-> IF proxies[r].active THEN add_change(proxies[r], seq) ELSE proxies[r]]

\* Adding the next change to the proxies keeps them in agreement with the history.
LEMMA AddedKeeps ==
    ASSUME NEW proxies, NEW history, NEW last \in Nat, MaxSeq \in Nat, last < MaxSeq,
           HistoryOK(history, last), ProxiesOK(proxies, history, last)
    PROVE  /\ ProxiesOK(Added(proxies, last + 1), history \cup {last + 1}, last + 1)
           /\ \A r \in Readers : SamePast(proxies[r], Added(proxies, last + 1)[r])
<1> DEFINE others == Added(proxies, last + 1)
<1>1. ASSUME NEW r \in Readers
      PROVE  ProxyOK(others[r], history \cup {last + 1}, last + 1) /\ SamePast(proxies[r], others[r])
  <2>1. ProxyOK(proxies[r], history, last)
    BY DEF ProxiesOK
  <2>2. others[r] = IF proxies[r].active THEN add_change(proxies[r], last + 1) ELSE proxies[r]
    BY Zenon DEF Added
  <2> HIDE DEF others
  <2> QED BY <2>1, <2>2, AddChangeKeepsProxy, Zenon
<1>2. others = [r \in Readers |-> others[r]]
  BY DEF Added
<1> QED BY <1>1, <1>2 DEF ProxiesOK

\* Removing the least change of the history, once it is covered.
LEMMA RemovalKeeps ==
    ASSUME NEW proxies, NEW history, NEW last \in 0..MaxSeq, MaxSeq \in Nat, history # {},
           HistoryOK(history, last), ProxiesOK(proxies, history, last),
           \A r \in Matched(proxies) : Covered(proxies[r], Min(history))
    PROVE  LET seq == Min(history)
               others == [r \in Readers |-> change_has_been_removed(proxies[r], seq)]
           IN  /\ ProxiesOK(others, history \ {seq}, last)
               /\ HistoryOK(history \ {seq}, last)
               /\ \A r \in Readers : SamePast(proxies[r], others[r])
<1> DEFINE seq == Min(history)
<1> DEFINE rest == history \ {seq}
<1> DEFINE others == [r \in Readers |-> change_has_been_removed(proxies[r], seq)]
<1>1. HistoryOK(rest, last)
  <2>1. seq \in 1..last /\ history = seq..last
    BY HistoryIsInterval
  <2> HIDE DEF seq
  <2>2. rest = (seq + 1)..last /\ seq + 1 \in 1..(last + 1)
    BY <2>1
  <2> QED BY <2>2 DEF HistoryOK
<1>2. ASSUME NEW r \in Readers
      PROVE  ProxyOK(others[r], rest, last) /\ SamePast(proxies[r], others[r])
  <2>1. ProxyOK(proxies[r], history, last)
    BY DEF ProxiesOK
  <2>2. proxies[r].active => Covered(proxies[r], seq)
    BY DEF Matched
  <2>3. others[r] = change_has_been_removed(proxies[r], seq)
    OBVIOUS
  <2> HIDE DEF others
  <2> QED BY <2>1, <2>2, <2>3, RemovalKeepsProxy
<1>3. others = [r \in Readers |-> others[r]]
  OBVIOUS
<1> QED BY <1>1, <1>2, <1>3 DEF ProxiesOK

-----------------------------------------------------------------------------
\* Sending a change, whatever comes of it, keeps the proxies and the marks.
LEMMA DeliveryKeeps ==
    ASSUME NEW proxies, NEW history, NEW last \in 0..MaxSeq, NEW may, NEW seq, MaxSeq \in Nat,
           last > 0 => history # {},
           HistoryOK(history, last),
           ProxiesOK(proxies, history, last),
           MarksOK(proxies, history, last, nextAllAcked, may),
           \/ deliver_sample(seq, proxies, history, last, may)
           \/ delivery_fails(seq, proxies, history, last, may)
    PROVE  /\ ProxiesOK(rp', history, last)
           /\ MarksOK(rp', history, last, nextAllAcked', may_remove_change_')
<1>1. PICK marked \in {proxies, MarkUnderway(seq, proxies)} :
          rp' = marked /\ check_acked_status(marked, history, last, may)
  BY Zenon DEF deliver_sample, delivery_fails, deliver_sample_nts
<1>2. /\ ProxiesOK(marked, history, last)
      /\ \A r \in Readers : SamePast(proxies[r], marked[r])
  <2>1. CASE marked = proxies
    BY <2>1 DEF SamePast
  <2>2. CASE marked = MarkUnderway(seq, proxies)
    BY <2>2, UnderwayKeeps
  <2> QED BY <1>1, <2>1, <2>2
<1>3. MarksOK(marked, history, last, nextAllAcked, may)
  BY <1>2, MarksKept
<1>4. MarksOK(marked, history, last, nextAllAcked', may_remove_change_')
  BY <1>1, <1>2, <1>3, CheckAckedKeepsMarks
<1> QED BY <1>1, <1>2, <1>4

\* A change added after the removal, if any, that made room for it.
LEMMA AddChangeKeeps ==
    ASSUME NEW history, NEW proxies, NEW new_q, NEW old_q, NEW may, MaxSeq \in Nat,
           lastSeq \in 0..MaxSeq, lastSeq < MaxSeq,
           HistoryOK(history, lastSeq),
           ProxiesOK(proxies, history, lastSeq),
           MarksOK(proxies, history, lastSeq, nextAllAcked, may),
           AddChange(history, proxies, new_q, old_q, may)
    PROVE  /\ lastSeq' = lastSeq + 1
           /\ whist' = history \cup {lastSeq + 1}
           /\ HistoryOK(whist', lastSeq')
           /\ ProxiesOK(rp', whist', lastSeq')
           /\ MarksOK(rp', whist', lastSeq', nextAllAcked', may_remove_change_')
<1> DEFINE seq == lastSeq + 1
<1> DEFINE grown == history \cup {seq}
<1> DEFINE added == Added(proxies, seq)
<1>1. lastSeq' = seq /\ whist' = grown
  BY Zenon DEF AddChange
<1>2. \/ deliver_sample(seq, added, grown, seq, may)
      \/ delivery_fails(seq, added, grown, seq, may)
      \/ rp' = added /\ may_remove_change_' = may /\ nextAllAcked' = nextAllAcked
  BY Zenon DEF AddChange, Added
<1>3. HistoryOK(grown, seq) /\ grown # {} /\ seq \in 0..MaxSeq
  <2>1. PICK lo \in 1..(lastSeq + 1) : history = lo..lastSeq
    BY DEF HistoryOK
  <2>2. grown = lo..seq /\ lo \in 1..(seq + 1)
    BY <2>1
  <2>3. HistoryOK(grown, seq)
    BY <2>2 DEF HistoryOK
  <2> QED BY <2>3
<1>4. ProxiesOK(added, grown, seq) /\ \A r \in Readers : SamePast(proxies[r], added[r])
  <2>1. lastSeq \in Nat
    OBVIOUS
  <2> QED BY <2>1, AddedKeeps, Zenon
<1>5. MarksOK(added, grown, seq, nextAllAcked, may)
  <2>1. MarksOK(added, history, lastSeq, nextAllAcked, may)
    BY <1>4, MarksKept
  <2>2. ASSUME history # {} PROVE Min(grown) = Min(history)
    <3>1. Min(history) \in 1..lastSeq /\ history = Min(history)..lastSeq
      BY <2>2, HistoryIsInterval
    <3>2. Min(grown) \in 1..seq /\ grown = Min(grown)..seq
      <4>1. seq \in Nat
        BY <1>3
      <4> QED BY <4>1, <1>3, HistoryIsInterval, Zenon
    <3>3. \A a \in 1..lastSeq, b \in 1..seq : (a..lastSeq) \cup {seq} = b..seq => a = b
      <4> SUFFICES ASSUME NEW a \in 1..lastSeq, NEW b \in 1..seq,
                          (a..lastSeq) \cup {seq} = b..seq
                   PROVE  a = b
        OBVIOUS
      <4>1. a \in b..seq /\ b \in (a..lastSeq) \cup {seq}
        OBVIOUS
      <4> QED BY <4>1
    <3> QED BY <3>1, <3>2, <3>3
  <2> QED BY <1>3, <2>1, <2>2 DEF MarksOK
<1> HIDE DEF seq, grown, added
<1>6. ProxiesOK(rp', grown, seq) /\ MarksOK(rp', grown, seq, nextAllAcked', may_remove_change_')
  <2>1. CASE \/ deliver_sample(seq, added, grown, seq, may)
             \/ delivery_fails(seq, added, grown, seq, may)
    BY <2>1, <1>3, <1>4, <1>5, DeliveryKeeps
  <2>2. CASE rp' = added /\ may_remove_change_' = may /\ nextAllAcked' = nextAllAcked
    BY <2>2, <1>4, <1>5
  <2> QED BY <1>2, <2>1, <2>2
<1> QED BY <1>1, <1>3, <1>6 DEF seq, grown

\* The oldest change is replaced once it is covered: both the proof of the invariant and what
\* may be said of the change that leaves rest on this.
LEMMA ReplaceOldestKeeps ==
    ASSUME IInv, MaxSeq \in Nat, lastSeq < MaxSeq, whist # {}, ReplaceOldest,
           \A r \in Matched(rp) : Covered(rp[r], Min(whist))
    PROVE  /\ lastSeq' = lastSeq + 1
           /\ whist' = (whist \ {Min(whist)}) \cup {lastSeq + 1}
           /\ HistoryOK(whist', lastSeq')
           /\ ProxiesOK(rp', whist', lastSeq')
           /\ MarksOK(rp', whist', lastSeq', nextAllAcked', may_remove_change_')
<1> DEFINE rest == whist \ {Min(whist)}
<1> DEFINE others == [r \in Readers |-> change_has_been_removed(rp[r], Min(whist))]
<1>1. /\ lastSeq \in 0..MaxSeq /\ HistoryOK(whist, lastSeq) /\ ProxiesOK(rp, whist, lastSeq)
      /\ MarksOK(rp, whist, lastSeq, nextAllAcked, may_remove_change_)
  BY DEF IInv
<1>2. /\ ProxiesOK(others, rest, lastSeq) /\ HistoryOK(rest, lastSeq)
      /\ \A r \in Readers : SamePast(rp[r], others[r])
  BY <1>1, RemovalKeeps
<1>3. MarksOK(rp, rest, lastSeq, nextAllAcked, 2)
  BY <1>1 DEF MarksOK
<1>4. MarksOK(others, rest, lastSeq, nextAllAcked, 2)
  BY <1>2, <1>3, MarksKept
<1>5. AddChange(rest, others, remove_change(new_ones, Min(whist)),
                remove_change(old_ones, Min(whist)), 2)
  BY Zenon DEF ReplaceOldest
<1> HIDE DEF rest, others
<1>6. /\ lastSeq' = lastSeq + 1
      /\ whist' = rest \cup {lastSeq + 1}
      /\ HistoryOK(whist', lastSeq')
      /\ ProxiesOK(rp', whist', lastSeq')
      /\ MarksOK(rp', whist', lastSeq', nextAllAcked', may_remove_change_')
  BY <1>1, <1>2, <1>4, <1>5, AddChangeKeeps
<1> QED BY <1>6 DEF rest

\* An acknowledgement keeps the proxies and the marks.
LEMMA AckNackKeeps ==
    ASSUME IInv, MaxSeq \in Nat, NEW m, m.reader \in Readers, m.base \in 0..(lastSeq + 1),
           process_acknack(m)
    PROVE  /\ ProxiesOK(rp', whist, lastSeq)
           /\ MarksOK(rp', whist, lastSeq, nextAllAcked', may_remove_change_')
           /\ UNCHANGED <<whist, lastSeq, wpc>>
           /\ LET p == rp[m.reader]
                  q == rp'[m.reader]
              IN  q.active = p.active /\ q.joined = p.joined /\ q.acked = Max({p.acked, m.base - 1})
<1> DEFINE r == m.reader
<1> DEFINE p == rp[r]
<1> DEFINE n == m.count + 1
<1> DEFINE a == Max({p.acked, m.base - 1})
<1> DEFINE p0 == WithAcked(p, n, a)
<1> DEFINE p1 == acked_changes_set(p0, m.base, whist, lastSeq)
<1> DEFINE p2 == IF m.base > 0 THEN requested_changes_set(p1, m.missing) ELSE p1
<1>1. /\ rp' = [rp EXCEPT ![r] = p2] /\ p.active
      /\ check_acked_status(rp', whist, lastSeq, may_remove_change_)
      /\ UNCHANGED <<whist, lastSeq, wpc>>
  BY Zenon DEF process_acknack, AckNackAccepted, WithAcked
<1>2. /\ lastSeq \in 0..MaxSeq /\ HistoryOK(whist, lastSeq)
      /\ lastSeq > 0 => whist # {}
      /\ ProxiesOK(rp, whist, lastSeq)
      /\ MarksOK(rp, whist, lastSeq, nextAllAcked, may_remove_change_)
  BY DEF IInv
<1>3. /\ ProxyOK(p, whist, lastSeq) /\ Shape(p) /\ p.low \in Nat /\ p.joined \in Nat
      /\ p.acked \in Nat
  BY <1>2, FieldsOfShape DEF ProxiesOK, ProxyOK
<1>4. a \in Nat /\ a >= p.acked /\ a >= m.base - 1
  <2> DEFINE b == m.base - 1
  <2>1. b \in Int /\ b >= -1 /\ p.acked \in Nat /\ p.acked \in Int /\ a = Max({p.acked, b})
    BY <1>2, <1>3
  <2> HIDE DEF a, b, p
  <2>2. a \in {p.acked, b} /\ a >= p.acked /\ a >= b
    BY <2>1, MaxOfTwo
  <2>3. a \in Nat
    BY <2>1, <2>2
  <2> QED BY <2>2, <2>3 DEF b
<1> HIDE DEF p, n, a
<1>5. /\ Shape(p0) /\ p0.active = p.active /\ p0.joined = p.joined /\ p0.acked = a
      /\ p0.low = p.low /\ p0.changes = p.changes
  BY <1>3, <1>4, AckedReplaced
<1> HIDE DEF p0
<1>6. ProxyOK(p0, whist, lastSeq) /\ p0.active /\ m.base - 1 <= p0.acked
  <2>1. Covered(p0, p0.low)
    <3>1. Covered(p, p.low)
      BY <1>1, <1>3 DEF ProxyOK
    <3> QED BY <1>3, <1>4, <1>5, <3>1 DEF Covered
  <2>2. m.base - 1 <= p0.acked
    BY <1>2, <1>4, <1>5
  <2> QED BY <1>1, <1>3, <1>5, <2>1, <2>2 DEF ProxyOK
<1>7. ProxyOK(p1, whist, lastSeq) /\ SamePast(p0, p1)
  BY <1>2, <1>6, AckedSetKeeps
<1> HIDE DEF p1
<1>8. ProxyOK(p2, whist, lastSeq) /\ SamePast(p1, p2)
  <2>1. CASE m.base > 0
    <3> DEFINE c == [s \in Seqs |-> IF s \in m.missing /\ p1.changes[s] = "UNACKNOWLEDGED"
                                    THEN "REQUESTED" ELSE p1.changes[s]]
    <3>1. p2 = [p1 EXCEPT !.changes = c]
      BY <2>1, Zenon DEF requested_changes_set
    <3>2. Shape(p1) /\ p1.changes \in [Seqs -> ChangeStatus]
      BY <1>7, FieldsOfShape DEF ProxyOK
    <3>3. c \in [Seqs -> ChangeStatus] /\ \A s \in Seqs : c[s] # "none" <=> p1.changes[s] # "none"
      BY <3>2 DEF ChangeStatus
    <3> HIDE DEF c, p2
    <3>4. Shape(p2) /\ SamePast(p1, p2) /\ p2.low = p1.low /\ p2.changes = c
      BY <3>1, <3>2, <3>3, ChangesReplaced
    <3>5. ProxyOK(p2, whist, lastSeq)
      BY <1>7, <3>3, <3>4, SameChangesKeep
    <3> QED BY <3>4, <3>5
  <2>2. CASE ~ (m.base > 0)
    BY <2>2, <1>7 DEF SamePast
  <2> QED BY <2>1, <2>2
<1> HIDE DEF p2
<1>9. /\ rp' = [x \in Readers |-> rp'[x]] /\ rp'[r] = p2
      /\ \A x \in Readers \ {r} : rp'[x] = rp[x]
  BY <1>1, <1>2 DEF ProxiesOK
<1>10. ProxiesOK(rp', whist, lastSeq)
  <2>1. \A x \in Readers : ProxyOK(rp'[x], whist, lastSeq)
    BY <1>2, <1>8, <1>9 DEF ProxiesOK
  <2> QED BY <1>9, <2>1 DEF ProxiesOK
<1>11. MarksOK(rp', whist, lastSeq, nextAllAcked, may_remove_change_)
  <2>1. p2.active = p.active /\ p2.joined = p.joined /\ p2.acked >= p.acked /\ p2.acked \in Nat
    BY <1>3, <1>4, <1>5, <1>7, <1>8 DEF SamePast
  <2>2. Matched(rp') = Matched(rp)
    BY <1>9, <2>1 DEF Matched, p
  <2>3. ASSUME NEW x \in Readers, NEW s \in Int, Covered(rp[x], s) PROVE Covered(rp'[x], s)
    <3>1. CASE x = r
      BY <3>1, <2>1, <2>3, <1>3, <1>9 DEF Covered, p
    <3>2. CASE x # r
      BY <3>2, <2>3, <1>9
    <3> QED BY <3>1, <3>2
  <2>4. nextAllAcked - 1 \in Int /\ (whist # {} => Min(whist) \in Int)
    BY <1>2, HistoryIsInterval DEF MarksOK
  <2>5. \A x \in Matched(rp) : x \in Readers
    BY DEF Matched
  <2> QED BY <1>2, <2>2, <2>3, <2>4, <2>5 DEF MarksOK
<1>12. MarksOK(rp', whist, lastSeq, nextAllAcked', may_remove_change_')
  BY <1>1, <1>2, <1>10, <1>11, CheckAckedKeepsMarks
<1>13. rp'[r].active = p.active /\ rp'[r].joined = p.joined /\ rp'[r].acked = a
  BY <1>5, <1>7, <1>8, <1>9 DEF SamePast
<1> QED BY <1>1, <1>10, <1>12, <1>13 DEF p, a

\* matched_reader_add() gives the new reader a proxy that agrees with the history, and every
\* mark covers it: what is written already it may do without.
LEMMA MatchKeeps ==
    ASSUME IInv, MaxSeq \in Nat, NEW r \in Readers, matched_reader_add(r)
    PROVE  /\ ProxiesOK(rp', whist, lastSeq)
           /\ MarksOK(rp', whist, lastSeq, nextAllAcked, may_remove_change_)
<1> DEFINE q == Joined(whist, lastSeq)
<1>1. rp' = [rp EXCEPT ![r] = q]
  BY Zenon DEF matched_reader_add, Joined
<1>2. /\ lastSeq \in 0..MaxSeq /\ lastSeq \in Nat /\ HistoryOK(whist, lastSeq)
      /\ ProxiesOK(rp, whist, lastSeq)
      /\ MarksOK(rp, whist, lastSeq, nextAllAcked, may_remove_change_)
  BY DEF IInv
<1>3. ProxyOK(q, whist, lastSeq) /\ \A s \in Int : s <= lastSeq => Covered(q, s)
  BY <1>2, JoinedOK
<1> HIDE DEF q
<1>4. /\ rp' = [x \in Readers |-> rp'[x]] /\ rp'[r] = q
      /\ \A x \in Readers \ {r} : rp'[x] = rp[x]
  BY <1>1, <1>2 DEF ProxiesOK
<1>5. ProxiesOK(rp', whist, lastSeq)
  BY <1>2, <1>3, <1>4 DEF ProxiesOK
<1>6. MarksOK(rp', whist, lastSeq, nextAllAcked, may_remove_change_)
  <2>1. nextAllAcked \in 1..(lastSeq + 1) /\ nextAllAcked - 1 \in Int /\ nextAllAcked - 1 <= lastSeq
    BY <1>2 DEF MarksOK
  <2>2. ASSUME whist # {} PROVE Min(whist) \in Int /\ Min(whist) <= lastSeq
    BY <1>2, <2>2, HistoryIsInterval
  <2>3. \A x \in Matched(rp') : x = r \/ (x \in Matched(rp) /\ rp'[x] = rp[x])
    BY <1>4 DEF Matched
  <2> QED BY <1>2, <1>3, <1>4, <2>1, <2>2, <2>3 DEF MarksOK
<1> QED BY <1>5, <1>6

\* matched_reader_remove() forgets the reader, and check_acked_status() follows.
LEMMA UnmatchKeeps ==
    ASSUME IInv, MaxSeq \in Nat, NEW r \in Readers, matched_reader_remove(r)
    PROVE  /\ ProxiesOK(rp', whist, lastSeq)
           /\ MarksOK(rp', whist, lastSeq, nextAllAcked', may_remove_change_')
<1>1. rp' = [rp EXCEPT ![r] = NoProxy] /\ check_acked_status(rp', whist, lastSeq, may_remove_change_)
  BY DEF matched_reader_remove
<1>2. /\ lastSeq \in 0..MaxSeq /\ HistoryOK(whist, lastSeq)
      /\ lastSeq > 0 => whist # {}
      /\ ProxiesOK(rp, whist, lastSeq)
      /\ MarksOK(rp, whist, lastSeq, nextAllAcked, may_remove_change_)
  BY DEF IInv
<1>3. /\ rp' = [x \in Readers |-> rp'[x]] /\ rp'[r] = NoProxy
      /\ \A x \in Readers \ {r} : rp'[x] = rp[x]
  BY <1>1, <1>2 DEF ProxiesOK
<1>4. ProxiesOK(rp', whist, lastSeq)
  BY <1>2, <1>3, NoProxyOK DEF ProxiesOK
<1>5. \A x \in Matched(rp') : x \in Matched(rp) /\ rp'[x] = rp[x]
  BY <1>3, NoProxyOK DEF Matched
<1>6. MarksOK(rp', whist, lastSeq, nextAllAcked, may_remove_change_)
  BY <1>2, <1>5 DEF MarksOK
<1>7. MarksOK(rp', whist, lastSeq, nextAllAcked', may_remove_change_')
  BY <1>1, <1>2, <1>4, <1>6, CheckAckedKeepsMarks
<1> QED BY <1>4, <1>7

-----------------------------------------------------------------------------
\* What leaves the history in a step is acknowledged by the readers it was written for.
LeavesStep ==
    \A s \in whist \ whist', r \in Matched(rp) : s > rp[r].joined => s <= rp[r].acked

\* The invariant holds at first.
LEMMA InitIInv == Init => IInv
<1> SUFFICES ASSUME Init PROVE IInv
  OBVIOUS
<1> USE DEF Init, WriterInit
<1>1. lastSeq \in 0..MaxSeq /\ HistoryOK(whist, lastSeq)
  BY WriterAssumption DEF HistoryOK
<1>2. ProxiesOK(rp, whist, lastSeq)
  BY NoProxyOK DEF ProxiesOK
<1>3. Matched(rp) = {}
  BY NoProxyOK DEF Matched
<1>4. MarksOK(rp, whist, lastSeq, nextAllAcked, may_remove_change_)
  BY <1>3 DEF MarksOK
<1> QED BY <1>1, <1>2, <1>4 DEF IInv

\* The oldest change is covered in the two situations in which it is replaced.
LEMMA ReplacementIsCovered ==
    ASSUME IInv, MaxSeq \in Nat, whist # {},
           may_remove_change_ = 1 \/ nextAllAcked - 1 >= Min(whist)
    PROVE  \A r \in Matched(rp) : Covered(rp[r], Min(whist))
<1>1. /\ lastSeq \in Nat /\ HistoryOK(whist, lastSeq) /\ ProxiesOK(rp, whist, lastSeq)
      /\ MarksOK(rp, whist, lastSeq, nextAllAcked, may_remove_change_)
  BY DEF IInv
<1>2. CASE may_remove_change_ = 1
  BY <1>1, <1>2 DEF MarksOK
<1>3. CASE nextAllAcked - 1 >= Min(whist)
  <2> SUFFICES ASSUME NEW r \in Matched(rp) PROVE Covered(rp[r], Min(whist))
    OBVIOUS
  <2>1. Covered(rp[r], nextAllAcked - 1) /\ nextAllAcked \in Nat
    BY <1>1 DEF MarksOK
  <2>2. rp[r].joined \in Nat /\ rp[r].acked \in Nat
    BY <1>1, FieldsOfShape DEF Matched, ProxiesOK, ProxyOK
  <2>3. Min(whist) \in Nat
    BY <1>1, HistoryIsInterval
  <2> QED BY <1>3, <2>1, <2>2, <2>3 DEF Covered
<1> QED BY <1>2, <1>3

\* So a replacement keeps the invariant, and only a covered change leaves.
LEMMA ReplacementStep ==
    ASSUME IInv, MaxSeq \in Nat, lastSeq < MaxSeq, whist # {}, ReplaceOldest, wpc' = "idle",
           may_remove_change_ = 1 \/ nextAllAcked - 1 >= Min(whist)
    PROVE  IInv' /\ LeavesStep
<1>1. \A r \in Matched(rp) : Covered(rp[r], Min(whist))
  BY ReplacementIsCovered
<1>2. /\ lastSeq' = lastSeq + 1
      /\ whist' = (whist \ {Min(whist)}) \cup {lastSeq + 1}
      /\ HistoryOK(whist', lastSeq')
      /\ ProxiesOK(rp', whist', lastSeq')
      /\ MarksOK(rp', whist', lastSeq', nextAllAcked', may_remove_change_')
  BY <1>1, ReplaceOldestKeeps
<1>3. lastSeq' \in 0..MaxSeq /\ whist' # {}
  BY <1>2 DEF IInv
<1>4. IInv'
  BY <1>2, <1>3 DEF IInv
<1>5. LeavesStep
  <2> SUFFICES ASSUME NEW s \in whist \ whist', NEW r \in Matched(rp), s > rp[r].joined
               PROVE  s <= rp[r].acked
    BY DEF LeavesStep
  <2>1. s = Min(whist)
    BY <1>2
  <2>2. Covered(rp[r], s)
    BY <1>1, <2>1
  <2>3. rp[r].joined \in Nat
    BY FieldsOfShape DEF Matched, IInv, ProxiesOK, ProxyOK
  <2>4. s \in Nat
    BY HistoryIsInterval, <2>1 DEF IInv
  <2> QED BY <2>2, <2>3, <2>4 DEF Covered
<1> QED BY <1>4, <1>5

\* Every step keeps the invariant and lets only acknowledged changes leave.
LEMMA StepKeeps == IInv /\ [WriterNext]_vars => IInv' /\ LeavesStep
<1> SUFFICES ASSUME IInv, [WriterNext]_vars PROVE IInv' /\ LeavesStep
  OBVIOUS
<1>0. MaxSeq \in Nat /\ HistorySize \in Nat \ {0}
  BY WriterAssumption
<1>1. ASSUME UNCHANGED <<whist, lastSeq, wpc>>,
             ProxiesOK(rp', whist, lastSeq),
             MarksOK(rp', whist, lastSeq, nextAllAcked', may_remove_change_')
      PROVE  IInv' /\ LeavesStep
  BY <1>1 DEF IInv, LeavesStep
<1>2. CASE write
  <2>0. wpc = "idle" /\ lastSeq < MaxSeq
    BY <1>2, Zenon DEF write
  <2>1. CASE AddChange(whist, rp, new_ones, old_ones, may_remove_change_) /\ UNCHANGED wpc
    <3>1. /\ lastSeq' = lastSeq + 1
          /\ whist' = whist \cup {lastSeq + 1}
          /\ HistoryOK(whist', lastSeq')
          /\ ProxiesOK(rp', whist', lastSeq')
          /\ MarksOK(rp', whist', lastSeq', nextAllAcked', may_remove_change_')
      <4>1. /\ lastSeq \in 0..MaxSeq /\ HistoryOK(whist, lastSeq) /\ ProxiesOK(rp, whist, lastSeq)
            /\ MarksOK(rp, whist, lastSeq, nextAllAcked, may_remove_change_)
        BY DEF IInv
      <4> QED BY <1>0, <2>0, <2>1, <4>1, AddChangeKeeps
    <3>2. lastSeq' \in 0..MaxSeq /\ wpc' = "idle" /\ whist' # {}
      BY <1>0, <2>0, <2>1, <3>1 DEF IInv
    <3> QED BY <3>1, <3>2 DEF IInv, LeavesStep
  <2>2. CASE HistoryFull /\ nextAllAcked - 1 >= Min(whist) /\ ReplaceOldest /\ UNCHANGED wpc
    <3>1. whist # {}
      BY <1>0, <2>2, FS_EmptySet DEF HistoryFull
    <3> QED BY <1>0, <2>0, <2>2, <3>1, ReplacementStep
  <2>3. CASE /\ HistoryFull /\ may_remove_change_' = 0 /\ wpc' = "waiting"
             /\ UNCHANGED <<whist, lastSeq, rp, nextAllAcked>>
    <3>1. whist # {}
      BY <1>0, <2>3, FS_EmptySet DEF HistoryFull
    <3>2. MarksOK(rp', whist', lastSeq', nextAllAcked', may_remove_change_')
      BY <2>3 DEF IInv, MarksOK
    <3> QED BY <2>0, <2>3, <3>1, <3>2 DEF IInv, LeavesStep
  <2> QED BY <1>2, <2>1, <2>2, <2>3, Zenon DEF write
<1>3. CASE RoomAppears
  <2>1. /\ wpc = "waiting" /\ may_remove_change_ = 1 /\ wpc' = "idle" /\ ReplaceOldest
    BY <1>3, Zenon DEF RoomAppears
  <2>2. lastSeq < MaxSeq /\ whist # {}
    BY <2>1 DEF IInv
  <2> QED BY <1>0, <2>1, <2>2, ReplacementStep
<1>4. CASE WriteTimesOut
  <2>1. wpc' = "idle" /\ UNCHANGED <<whist, lastSeq, rp, nextAllAcked, may_remove_change_>>
    BY <1>4 DEF WriteTimesOut
  <2> QED BY <2>1 DEF IInv, LeavesStep
<1>5. CASE SendQueued \/ SendQueuedFails
  <2>1. /\ \/ deliver_sample(get_next_change, rp, whist, lastSeq, may_remove_change_)
           \/ delivery_fails(get_next_change, rp, whist, lastSeq, may_remove_change_)
        /\ UNCHANGED <<whist, lastSeq, wpc>>
    BY <1>5, Zenon DEF SendQueued, SendQueuedFails
  <2>2. /\ lastSeq \in 0..MaxSeq /\ HistoryOK(whist, lastSeq)
        /\ lastSeq > 0 => whist # {}
        /\ ProxiesOK(rp, whist, lastSeq)
        /\ MarksOK(rp, whist, lastSeq, nextAllAcked, may_remove_change_)
    BY DEF IInv
  <2> QED BY <1>0, <1>1, <2>1, <2>2, DeliveryKeeps
<1>6. CASE Discovery
  <2>1. PICK r \in Readers : matched_reader_add(r) \/ matched_reader_remove(r)
    BY <1>6 DEF Discovery
  <2>2. CASE matched_reader_add(r)
    <3>1. UNCHANGED <<whist, lastSeq, wpc, nextAllAcked, may_remove_change_>>
      BY <2>2, Zenon DEF matched_reader_add
    <3> QED BY <1>0, <1>1, <2>2, <3>1, MatchKeeps
  <2>3. CASE matched_reader_remove(r)
    <3>1. UNCHANGED <<whist, lastSeq, wpc>>
      BY <2>3, Zenon DEF matched_reader_remove
    <3> QED BY <1>0, <1>1, <2>3, <3>1, UnmatchKeeps
  <2> QED BY <2>1, <2>2, <2>3
<1>7. CASE ReceivesAckNack
  <2>1. PICK r \in Readers, count \in 1..MaxAckNacks, base \in 0..(lastSeq + 1) :
          \E missing \in SUBSET (base..lastSeq) :
            process_acknack(AckNack(ThisWriter, r, base, missing, count, base # 0 /\ missing = {}))
    BY <1>7, Zenon DEF ReceivesAckNack
  <2>2. PICK missing \in SUBSET (base..lastSeq) :
          process_acknack(AckNack(ThisWriter, r, base, missing, count, base # 0 /\ missing = {}))
    BY <2>1
  <2> DEFINE m == AckNack(ThisWriter, r, base, missing, count, base # 0 /\ missing = {})
  <2>3. m.reader \in Readers /\ m.base \in 0..(lastSeq + 1) /\ process_acknack(m)
    BY <2>2 DEF AckNack
  <2> HIDE DEF m
  <2> QED BY <1>0, <1>1, <2>3, AckNackKeeps
<1>8. CASE perform_nack_response
  <2>1. /\ rp' = [r \in Readers |-> convert_status_on_all_changes(rp[r], "REQUESTED", "UNSENT")]
        /\ UNCHANGED <<whist, lastSeq, wpc, nextAllAcked, may_remove_change_>>
    BY <1>8, Zenon DEF perform_nack_response
  <2>2. ASSUME NEW r \in Readers
        PROVE  ProxyOK(rp'[r], whist, lastSeq) /\ SamePast(rp[r], rp'[r])
    <3>1. rp'[r] = convert_status_on_all_changes(rp[r], "REQUESTED", "UNSENT")
      BY <2>1
    <3>2. ProxyOK(rp[r], whist, lastSeq)
      BY DEF IInv, ProxiesOK
    <3>3. {"REQUESTED", "UNSENT"} \subseteq ChangeStatus \ {"none"}
      BY DEF ChangeStatus
    <3> QED BY <3>1, <3>2, <3>3, ConvertKeeps
  <2>3. ProxiesOK(rp', whist, lastSeq)
    BY <2>1, <2>2 DEF ProxiesOK
  <2>4. MarksOK(rp', whist, lastSeq, nextAllAcked, may_remove_change_)
    BY <2>2, MarksKept DEF IInv
  <2> QED BY <1>1, <2>1, <2>3, <2>4
<1>9. ASSUME NEW r \in Readers, perform_nack_supression(r) PROVE IInv' /\ LeavesStep
  <2> DEFINE p == convert_status_on_all_changes(rp[r], "UNDERWAY", "UNACKNOWLEDGED")
  <2> DEFINE q == [p EXCEPT !.suppression = FALSE]
  <2>1. /\ rp' = [rp EXCEPT ![r] = q]
        /\ UNCHANGED <<whist, lastSeq, wpc, nextAllAcked, may_remove_change_>>
    BY <1>9, Zenon DEF perform_nack_supression
  <2>2. ProxyOK(p, whist, lastSeq) /\ SamePast(rp[r], p)
    <3>1. ProxyOK(rp[r], whist, lastSeq)
      BY DEF IInv, ProxiesOK
    <3>2. {"UNDERWAY", "UNACKNOWLEDGED"} \subseteq ChangeStatus \ {"none"}
      BY DEF ChangeStatus
    <3> QED BY <3>1, <3>2, ConvertKeeps
  <2> HIDE DEF p
  <2>3. Shape(q) /\ SamePast(p, q) /\ q.low = p.low /\ q.changes = p.changes
    BY <2>2, SuppressionReplaced DEF ProxyOK
  <2> HIDE DEF q
  <2>4. ProxyOK(q, whist, lastSeq) /\ SamePast(rp[r], q)
    BY <2>2, <2>3, SameChangesKeep DEF SamePast
  <2>5. /\ rp' = [x \in Readers |-> rp'[x]] /\ rp'[r] = q
        /\ \A x \in Readers \ {r} : rp'[x] = rp[x]
    BY <2>1 DEF IInv, ProxiesOK
  <2>6. ProxiesOK(rp', whist, lastSeq)
    BY <2>4, <2>5 DEF IInv, ProxiesOK
  <2>7. \A x \in Readers : SamePast(rp[x], rp'[x])
    BY <2>4, <2>5 DEF SamePast
  <2>8. MarksOK(rp', whist, lastSeq, nextAllAcked, may_remove_change_)
    BY <2>7, MarksKept DEF IInv
  <2> QED BY <1>1, <2>1, <2>6, <2>8
<1>10. CASE send_periodic_heartbeat \/ UNCHANGED vars
  <2>1. UNCHANGED <<whist, lastSeq, rp, wpc, nextAllAcked, may_remove_change_>>
    BY <1>10, Zenon DEF send_periodic_heartbeat, vars, writerVars
  <2> QED BY <1>1, <2>1 DEF IInv
<1> QED
  BY <1>2, <1>3, <1>4, <1>5, <1>6, <1>7, <1>8, <1>9, <1>10 DEF WriterNext, Timers

\* LeavesAcknowledged: a change leaves the history of the writer (try_remove_change(),
\* remove_min_change()) only when every matched reader that was there when it was written has
\* acknowledged it.
THEOREM LeavesAcknowledgedHolds == Spec => LeavesAcknowledged
<1>1. IInv /\ [WriterNext]_vars => [LeavesStep]_vars
  BY StepKeeps
<1>2. IInv /\ [WriterNext]_vars => IInv'
  BY StepKeeps
<1> QED BY InitIInv, <1>1, <1>2, PTL DEF Spec, LeavesAcknowledged, LeavesStep

-----------------------------------------------------------------------------
\* A list with an element unlinked holds the others.
LEMMA UnlinkResult ==
    ASSUME NEW S, NEW q \in Seq(S), IsInjective(q), NEW e
    PROVE  /\ remove_change(q, e) \in Seq(S)
           /\ IsInjective(remove_change(q, e))
           /\ Range(remove_change(q, e)) = Range(q) \ {e}
<1>0. Len(q) \in Nat /\ DOMAIN q = 1..Len(q)
  OBVIOUS
<1>1. CASE e \notin Range(q)
  BY <1>1 DEF remove_change
<1>2. CASE e \in Range(q)
  <2> DEFINE k == CHOOSE j \in DOMAIN q : q[j] = e
             front == SubSeq(q, 1, k - 1)
             back == SubSeq(q, k + 1, Len(q))
             u == front \o back
  <2>1. k \in 1..Len(q) /\ q[k] = e
    BY <1>0, <1>2 DEF Range
  <2>2. remove_change(q, e) = u
    BY <1>2, Zenon DEF remove_change
  <2> HIDE DEF k
  <2>3. /\ front \in Seq(S) /\ Len(front) = k - 1
        /\ \A i \in 1..(k - 1) : front[i] = q[i]
    <3>1. \A i \in 1..(k - 1) : q[i] \in S
      BY <1>0, <2>1
    <3>2. /\ front \in Seq(S)
          /\ Len(front) = IF 1 <= k - 1 THEN k - 1 - 1 + 1 ELSE 0
          /\ \A i \in 1..(k - 1 - 1 + 1) : front[i] = q[1 + i - 1]
      BY <2>1, <3>1
    <3> QED BY <2>1, <3>2
  <2>4. /\ back \in Seq(S) /\ Len(back) = Len(q) - k
        /\ \A i \in 1..(Len(q) - k) : back[i] = q[k + i]
    <3>1. \A i \in (k + 1)..Len(q) : q[i] \in S
      BY <1>0, <2>1
    <3>2. /\ back \in Seq(S)
          /\ Len(back) = IF k + 1 <= Len(q) THEN Len(q) - (k + 1) + 1 ELSE 0
          /\ \A i \in 1..(Len(q) - (k + 1) + 1) : back[i] = q[(k + 1) + i - 1]
      BY <1>0, <2>1, <3>1
    <3> HIDE DEF back
    <3>3. Len(back) = Len(q) - k
      <4>1. \A n \in Nat : \A j \in 1..n : (IF j + 1 <= n THEN n - (j + 1) + 1 ELSE 0) = n - j
        OBVIOUS
      <4> QED BY <1>0, <2>1, <3>2, <4>1, Zenon
    <3>4. ASSUME NEW i \in 1..(Len(q) - k) PROVE back[i] = q[k + i]
      <4>1. i \in 1..(Len(q) - (k + 1) + 1) /\ (k + 1) + i - 1 = k + i
        BY <1>0, <2>1
      <4> QED BY <3>2, <4>1
    <3> QED BY <3>2, <3>3, <3>4
  <2> HIDE DEF front, back
  <2>5. /\ u \in Seq(S) /\ Len(u) = Len(q) - 1
        /\ \A i \in 1..(Len(q) - 1) : u[i] = IF i < k THEN q[i] ELSE q[i + 1]
    <3>1. /\ u \in Seq(S) /\ Len(u) = Len(front) + Len(back)
          /\ \A i \in 1..(Len(front) + Len(back)) :
                u[i] = IF i <= Len(front) THEN front[i] ELSE back[i - Len(front)]
      <4>1. front \in Seq(S) /\ back \in Seq(S)
        BY <2>3, <2>4
      <4>2. u \in Seq(S) /\ Len(u) = Len(front) + Len(back)
        BY <4>1
      <4>3. ASSUME NEW i \in 1..(Len(front) + Len(back))
            PROVE  u[i] = IF i <= Len(front) THEN front[i] ELSE back[i - Len(front)]
        BY <4>1
      <4> QED BY <4>2, <4>3
    <3> HIDE DEF u
    <3>2. Len(front) + Len(back) = Len(q) - 1
      BY <1>0, <2>1, <2>3, <2>4
    <3>3. ASSUME NEW i \in 1..(Len(q) - 1), i < k PROVE u[i] = q[i]
      BY <1>0, <2>1, <2>3, <3>1, <3>2, <3>3
    <3>4. ASSUME NEW i \in 1..(Len(q) - 1), ~ (i < k) PROVE u[i] = q[i + 1]
      <4>1. i - (k - 1) \in 1..(Len(q) - k) /\ k + (i - (k - 1)) = i + 1
        BY <1>0, <2>1, <3>4
      <4>2. u[i] = back[i - (k - 1)]
        BY <1>0, <2>1, <2>3, <3>1, <3>2, <3>4
      <4> QED BY <2>4, <4>1, <4>2
    <3> QED BY <3>1, <3>2, <3>3, <3>4
  <2> HIDE DEF u
  <2>6. DOMAIN u = 1..(Len(q) - 1)
    BY <2>5
  <2>7. IsInjective(u)
    <3> SUFFICES ASSUME NEW i \in 1..(Len(q) - 1), NEW j \in 1..(Len(q) - 1), u[i] = u[j]
                 PROVE  i = j
      BY <2>6 DEF IsInjective
    <3>1. \A a, b \in 1..Len(q) : q[a] = q[b] => a = b
      BY <1>0 DEF IsInjective
    <3> DEFINE at(x) == IF x < k THEN x ELSE x + 1
    <3>2. \A x \in 1..(Len(q) - 1) : at(x) \in 1..Len(q) /\ u[x] = q[at(x)]
      BY <1>0, <2>1, <2>5
    <3>3. at(i) = at(j)
      BY <3>1, <3>2
    <3> QED BY <1>0, <2>1, <3>3
  <2>8. ASSUME NEW x \in Range(u) PROVE x \in Range(q) \ {e}
    <3>1. PICK i \in 1..(Len(q) - 1) : x = u[i]
      BY <2>6, <2>8 DEF Range
    <3>2. PICK j \in 1..Len(q) : j # k /\ x = q[j]
      BY <1>0, <2>1, <2>5, <3>1
    <3>3. q[j] # q[k]
      BY <1>0, <2>1, <3>2 DEF IsInjective
    <3> QED BY <1>0, <2>1, <3>2, <3>3 DEF Range
  <2>9. ASSUME NEW x \in Range(q) \ {e} PROVE x \in Range(u)
    <3>1. PICK j \in 1..Len(q) : x = q[j]
      BY <1>0, <2>9 DEF Range
    <3>2. j # k
      BY <2>1, <2>9, <3>1
    <3>3. PICK i \in 1..(Len(q) - 1) : x = u[i]
      <4>1. CASE j < k
        BY <1>0, <2>1, <2>5, <3>1, <4>1
      <4>2. CASE j > k
        <5>1. j - 1 \in 1..(Len(q) - 1) /\ ~ (j - 1 < k)
          BY <1>0, <2>1, <4>2
        <5>2. u[j - 1] = q[j]
          BY <1>0, <2>1, <2>5, <5>1
        <5> QED BY <5>1, <5>2, <3>1
      <4> QED BY <2>1, <3>2, <4>1, <4>2
    <3> QED BY <2>6, <3>3 DEF Range
  <2> QED BY <2>2, <2>5, <2>7, <2>8, <2>9
<1> QED BY <1>1, <1>2

\* Appending a new element.
LEMMA LinkResult ==
    ASSUME NEW S, NEW q \in Seq(S), IsInjective(q), NEW e \in S, e \notin Range(q)
    PROVE  /\ Append(q, e) \in Seq(S)
           /\ IsInjective(Append(q, e))
           /\ Range(Append(q, e)) = Range(q) \cup {e}
<1> DEFINE u == Append(q, e)
<1>1. /\ u \in Seq(S) /\ Len(u) = Len(q) + 1 /\ Len(q) \in Nat
      /\ \A i \in 1..Len(q) : u[i] = q[i]
      /\ u[Len(q) + 1] = e
  OBVIOUS
<1> HIDE DEF u
<1>2. DOMAIN u = 1..(Len(q) + 1) /\ DOMAIN q = 1..Len(q)
  BY <1>1
<1>3. \A i \in 1..Len(q) : q[i] # e
  BY <1>2 DEF Range
<1>4. IsInjective(u)
  BY <1>1, <1>2, <1>3 DEF IsInjective
<1>5. Range(u) = Range(q) \cup {e}
  BY <1>1, <1>2 DEF Range
<1>6. Append(q, e) = u
  BY DEF u
<1> QED BY <1>1, <1>4, <1>5, <1>6

\* Appending a list of other elements.
LEMMA LinkAllResult ==
    ASSUME NEW S, NEW q \in Seq(S), IsInjective(q), NEW T, IsFiniteSet(T), T \subseteq S,
           T \cap Range(q) = {}, NEW added \in Orders(T)
    PROVE  /\ q \o added \in Seq(S)
           /\ IsInjective(q \o added)
           /\ Range(q \o added) = Range(q) \cup T
<1> DEFINE n == Cardinality(T)
           u == q \o added
<1>1. n \in Nat
  BY FS_CardinalityType
<1>2. added \in Injection(1..n, T) /\ added \in Surjection(1..n, T)
  BY DEF Orders, Bijection
<1> HIDE DEF n
<1>3. added \in [1..n -> T] /\ \A i, j \in 1..n : i # j => added[i] # added[j]
  BY <1>2 DEF Injection, IsInjective
<1>4. \A x \in T : \E i \in 1..n : added[i] = x
  BY <1>2 DEF Surjection
<1>5. added \in Seq(T) /\ Len(added) = n /\ added \in Seq(S)
  BY <1>1, <1>3
<1>6. /\ u \in Seq(S) /\ Len(u) = Len(q) + n /\ Len(q) \in Nat
      /\ \A i \in 1..Len(q) : u[i] = q[i]
      /\ \A i \in 1..n : u[Len(q) + i] = added[i]
  BY <1>1, <1>3, <1>5
<1> HIDE DEF u
<1>7. DOMAIN u = 1..(Len(q) + n) /\ DOMAIN q = 1..Len(q)
  BY <1>6
<1>8. \A i \in 1..Len(q), j \in 1..n : q[i] # added[j]
  BY <1>1, <1>3, <1>7 DEF Range
<1>9. \A i \in 1..(Len(q) + n) : i \in 1..Len(q) \/ (i - Len(q) \in 1..n /\ u[i] = added[i - Len(q)])
  BY <1>1, <1>3, <1>6
<1>10. IsInjective(u)
  BY <1>1, <1>3, <1>6, <1>7, <1>8, <1>9 DEF IsInjective
<1>11. Range(u) \subseteq Range(q) \cup T
  BY <1>1, <1>3, <1>6, <1>7, <1>9 DEF Range
<1>12. Range(q) \subseteq Range(u)
  BY <1>1, <1>3, <1>6, <1>7 DEF Range
<1>13. ASSUME NEW x \in T PROVE x \in Range(u)
  <2>1. PICK i \in 1..n : added[i] = x
    BY <1>4
  <2>2. Len(q) + i \in 1..(Len(q) + n) /\ u[Len(q) + i] = x
    BY <1>1, <1>3, <1>6, <2>1
  <2> QED BY <1>7, <2>2 DEF Range
<1>14. q \o added = u
  BY DEF u
<1> QED BY <1>6, <1>10, <1>11, <1>12, <1>13, <1>14

\* A list without repetitions is as long as the set of its elements is large.
LEMMA LengthIsCardinality ==
    ASSUME NEW S, NEW q \in Seq(S), IsInjective(q)
    PROVE  IsFiniteSet(Range(q)) /\ Cardinality(Range(q)) = Len(q)
<1>1. Len(q) \in Nat /\ DOMAIN q = 1..Len(q)
  OBVIOUS
<1>2. q \in [1..Len(q) -> Range(q)]
  BY <1>1 DEF Range
<1>3. q \in Injection(1..Len(q), Range(q))
  BY <1>1, <1>2 DEF Injection, IsInjective
<1>4. q \in Surjection(1..Len(q), Range(q))
  BY <1>1, <1>2 DEF Surjection, Range
<1>5. IsFiniteSet(1..Len(q)) /\ Cardinality(1..Len(q)) = Len(q)
  BY <1>1, FS_Interval
<1> QED BY <1>3, <1>4, <1>5, FS_Surjection

-----------------------------------------------------------------------------
\* The lists of the flow controller hold changes of the history, each at most once.
QueuesOK(new, old, history) ==
    /\ new \in Seq(Seqs) /\ old \in Seq(Seqs)
    /\ IsInjective(new) /\ IsInjective(old)
    /\ Range(new) \cap Range(old) = {}
    /\ Range(new) \cup Range(old) \subseteq history

\* The variables IInv leaves open have their types.
RestOK(proxies, count, hb, nack, may, pc) ==
    /\ \A r \in Readers : Typed(proxies[r])
    /\ count \in 0..MaxHeartbeats
    /\ hb \in BOOLEAN /\ nack \in BOOLEAN
    /\ may \in 0..2
    /\ pc \in {"idle", "waiting"}

\* If a write() always finds a send buffer, every change has something that will move it on.
AllMoving(proxies, linked, nack, hb) ==
    ~SendMayTimeOut => \A r \in Readers : Moving(proxies[r], linked, nack, hb)

\* The second inductive invariant, on top of IInv.
FlowInv ==
    /\ QueuesOK(new_ones, old_ones, whist)
    /\ RestOK(rp, heartbeat_count_, periodic_hb, nack_response, may_remove_change_, wpc)
    /\ AllMoving(rp, Linked, nack_response, periodic_hb)

\* A heartbeat is counted up to the bound.
LEMMA CountStaysBounded ==
    ASSUME NEW rs, NEW history, MaxHeartbeats \in Nat, heartbeat_count_ \in 0..MaxHeartbeats,
           CountHeartbeat(rs, history)
    PROVE  heartbeat_count_' \in 0..MaxHeartbeats
BY DEF CountHeartbeat

\* check_acked_status() leaves the flag as it is or sets it.
LEMMA MayRemoveStaysTyped ==
    ASSUME NEW proxies, NEW history, NEW last, NEW may \in 0..2,
           check_acked_status(proxies, history, last, may)
    PROVE  may_remove_change_' \in 0..2
BY DEF check_acked_status

\* Sending a change: if it is put in a message it need not be linked any more, and otherwise
\* nothing changes for it.
LEMMA DeliveryMoves ==
    ASSUME NEW proxies, NEW history, NEW last, NEW may \in 0..2, NEW seq \in Seqs, NEW linked,
           MaxHeartbeats \in Nat, heartbeat_count_ \in 0..MaxHeartbeats, periodic_hb \in BOOLEAN,
           ProxiesOK(proxies, history, last),
           \A r \in Readers : Typed(proxies[r]),
           AllMoving(proxies, linked, nack_response, periodic_hb),
           NEW left,
           \/ deliver_sample(seq, proxies, history, last, may) /\ left = linked \ {seq}
           \/ delivery_fails(seq, proxies, history, last, may) /\ left = linked
    PROVE  /\ \A r \in Readers : Typed(rp'[r])
           /\ AllMoving(rp', left, nack_response, periodic_hb')
           /\ heartbeat_count_' \in 0..MaxHeartbeats
           /\ periodic_hb' \in BOOLEAN
           /\ may_remove_change_' \in 0..2
<1>1. PICK marked, data, announced :
          /\ deliver_sample_nts(seq, proxies, marked, data, announced, history, last, may)
          /\ \/ marked = MarkUnderway(seq, proxies)
             \/ marked = proxies /\ left = linked
  BY Zenon DEF deliver_sample, delivery_fails
<1>2. /\ rp' = marked
      /\ CountHeartbeat(announced, history)
      /\ periodic_hb' = (periodic_hb \/ \E r \in Targets(seq, proxies) : seq \notin proxies[r].delivered)
      /\ check_acked_status(marked, history, last, may)
  BY <1>1, Zenon DEF deliver_sample_nts
<1>3. heartbeat_count_' \in 0..MaxHeartbeats /\ may_remove_change_' \in 0..2
  BY <1>2, CountStaysBounded, MayRemoveStaysTyped
<1>4. periodic_hb' \in BOOLEAN /\ (periodic_hb => periodic_hb')
  BY <1>2, Zenon
<1>5. left \in {linked, linked \ {seq}}
  OBVIOUS
<1>6. ASSUME NEW r \in Readers
      PROVE  /\ Typed(marked[r])
             /\ ~SendMayTimeOut => Moving(marked[r], left, nack_response, periodic_hb')
  <2>1. Shape(proxies[r]) /\ ProxyOK(proxies[r], history, last)
    BY DEF ProxiesOK, ProxyOK
  <2>2. Typed(proxies[r])
    OBVIOUS
  <2>3. ASSUME ~SendMayTimeOut
        PROVE  Moving(proxies[r], linked, nack_response, periodic_hb')
    <3>1. Moving(proxies[r], linked, nack_response, periodic_hb)
      BY <2>3 DEF AllMoving
    <3> QED BY <3>1, <1>4 DEF Moving
  <2>4. CASE marked = proxies /\ left = linked
    BY <2>2, <2>3, <2>4
  <2>5. CASE marked = MarkUnderway(seq, proxies) /\ r \in Targets(seq, proxies)
    <3>1. marked[r] = from_unsent_to_status(proxies[r], seq)
      BY <2>5 DEF MarkUnderway
    <3>2. Typed(marked[r])
      BY <2>1, <2>2, <3>1, UnderwayTyped
    <3>3. ASSUME ~SendMayTimeOut
          PROVE  Moving(marked[r], left, nack_response, periodic_hb')
      <4>1. Moving(proxies[r], linked, nack_response, periodic_hb')
        BY <2>3, <3>3
      <4>2. Moving(marked[r], linked \ {seq}, nack_response, periodic_hb')
        BY <2>1, <3>1, <4>1, UnderwayMoves, SMTT(30)
      <4>3. Moving(marked[r], linked, nack_response, periodic_hb')
        BY <4>2 DEF Moving
      <4> QED BY <1>5, <4>2, <4>3
    <3> QED BY <3>2, <3>3
  <2>6. CASE marked = MarkUnderway(seq, proxies) /\ r \notin Targets(seq, proxies)
    <3>1. marked[r] = proxies[r]
      BY <2>6 DEF MarkUnderway
    <3>2. proxies[r].changes[seq] # "UNSENT"
      <4>1. CASE proxies[r].active
        BY <2>6, <4>1 DEF Targets, Matched
      <4>2. CASE ~proxies[r].active
        BY <2>1, <4>2 DEF ProxyOK
      <4> QED BY <4>1, <4>2
    <3>3. ASSUME ~SendMayTimeOut
          PROVE  Moving(marked[r], left, nack_response, periodic_hb')
      <4>1. Moving(proxies[r], linked, nack_response, periodic_hb')
        BY <2>3, <3>3
      <4>2. Moving(proxies[r], linked \ {seq}, nack_response, periodic_hb')
        BY <3>2, <4>1 DEF Moving
      <4> QED BY <1>5, <3>1, <4>1, <4>2
    <3> QED BY <2>2, <3>1, <3>3
  <2> QED BY <1>1, <2>4, <2>5, <2>6
<1>7. AllMoving(rp', left, nack_response, periodic_hb')
  BY <1>2, <1>6 DEF AllMoving
<1> QED BY <1>2, <1>3, <1>4, <1>6, <1>7

\* A change added after the removal, if any, that made room for it: it is put in a message, or
\* linked.
LEMMA AddChangeMoves ==
    ASSUME NEW history, NEW proxies, NEW new_q, NEW old_q, NEW may \in 0..2,
           MaxSeq \in Nat, MaxHeartbeats \in Nat, lastSeq \in 0..MaxSeq, lastSeq < MaxSeq,
           HistoryOK(history, lastSeq),
           ProxiesOK(proxies, history, lastSeq),
           QueuesOK(new_q, old_q, history),
           heartbeat_count_ \in 0..MaxHeartbeats, periodic_hb \in BOOLEAN,
           \A r \in Readers : Typed(proxies[r]),
           AllMoving(proxies, Range(new_q) \cup Range(old_q), nack_response, periodic_hb),
           AddChange(history, proxies, new_q, old_q, may)
    PROVE  /\ QueuesOK(new_ones', old_ones', whist')
           /\ \A r \in Readers : Typed(rp'[r])
           /\ AllMoving(rp', Linked', nack_response, periodic_hb')
           /\ heartbeat_count_' \in 0..MaxHeartbeats
           /\ periodic_hb' \in BOOLEAN
           /\ may_remove_change_' \in 0..2
<1> DEFINE seq == lastSeq + 1
           grown == history \cup {seq}
           added == Added(proxies, seq)
           linked == Range(new_q) \cup Range(old_q)
<1>1. whist' = grown /\ old_ones' = old_q
  BY Zenon DEF AddChange
<1>2. \/ deliver_sample(seq, added, grown, seq, may) /\ new_ones' = new_q
      \/ delivery_fails(seq, added, grown, seq, may) /\ new_ones' = Append(new_q, seq)
      \/ /\ SendMayTimeOut /\ rp' = added /\ new_ones' = new_q /\ may_remove_change_' = may
         /\ UNCHANGED <<periodic_hb, heartbeat_count_>>
  BY Zenon DEF AddChange, Added
<1>3. seq \in Seqs /\ seq \notin history
  BY DEF Seqs, HistoryOK
<1>4. ProxiesOK(added, grown, seq)
  <2>1. lastSeq \in Nat
    OBVIOUS
  <2> QED BY <2>1, AddedKeeps, Zenon
<1>5. seq \notin linked
  BY <1>3 DEF QueuesOK
<1>6. ASSUME NEW r \in Readers
      PROVE  /\ Typed(added[r])
             /\ ~SendMayTimeOut => Moving(added[r], linked \cup {seq}, nack_response, periodic_hb)
  <2>1. Shape(proxies[r]) /\ Typed(proxies[r]) /\ proxies[r].changes \in [Seqs -> ChangeStatus]
    BY FieldsOfShape DEF ProxiesOK, ProxyOK
  <2>2. ASSUME ~SendMayTimeOut
        PROVE  Moving(proxies[r], linked, nack_response, periodic_hb)
    BY <2>2 DEF AllMoving
  <2> HIDE DEF linked
  <2>3. CASE ~proxies[r].active
    <3>1. added[r] = proxies[r]
      BY <2>3 DEF Added
    <3>2. ASSUME ~SendMayTimeOut
          PROVE  Moving(proxies[r], linked \cup {seq}, nack_response, periodic_hb)
      BY <2>2, <3>2 DEF Moving
    <3> QED BY <2>1, <3>1, <3>2
  <2>4. CASE proxies[r].active
    <3> DEFINE q == add_change(proxies[r], seq)
    <3>1. added[r] = q
      BY <2>4 DEF Added
    <3>2. /\ q.delivered = proxies[r].delivered /\ q.nextAck = proxies[r].nextAck
          /\ q.suppression = proxies[r].suppression
          /\ q.changes = [proxies[r].changes EXCEPT ![seq] = "UNSENT"]
      BY <1>3, <2>1, AddChangeResult
    <3> HIDE DEF q, seq
    <3>3. Typed(q)
      BY <2>1, <3>2 DEF Typed
    <3>4. ASSUME ~SendMayTimeOut
          PROVE  Moving(q, linked \cup {seq}, nack_response, periodic_hb)
      <4>1. Moving(proxies[r], linked, nack_response, periodic_hb)
        BY <2>2, <3>4
      <4> QED BY <1>3, <2>1, <3>2, <4>1 DEF Moving
    <3> QED BY <3>1, <3>3, <3>4
  <2> QED BY <2>3, <2>4
<1>7. AllMoving(added, linked \cup {seq}, nack_response, periodic_hb)
  BY <1>6 DEF AllMoving
<1> HIDE DEF added, seq
<1>8. CASE deliver_sample(seq, added, grown, seq, may) /\ new_ones' = new_q
  <2>1. QueuesOK(new_ones', old_ones', whist') /\ Linked' = linked
    BY <1>1, <1>8 DEF QueuesOK, Linked
  <2> DEFINE left == (linked \cup {seq}) \ {seq}
  <2>2. left = linked
    BY <1>5
  <2> HIDE DEF linked, grown
  <2>3. /\ \A r \in Readers : Typed(rp'[r])
        /\ AllMoving(rp', left, nack_response, periodic_hb')
        /\ heartbeat_count_' \in 0..MaxHeartbeats
        /\ periodic_hb' \in BOOLEAN
        /\ may_remove_change_' \in 0..2
    BY <1>3, <1>4, <1>6, <1>7, <1>8, DeliveryMoves
  <2> QED BY <2>1, <2>2, <2>3
<1>9. CASE delivery_fails(seq, added, grown, seq, may) /\ new_ones' = Append(new_q, seq)
  <2>1. /\ new_ones' \in Seq(Seqs) /\ IsInjective(new_ones')
        /\ Range(new_ones') = Range(new_q) \cup {seq}
    BY <1>3, <1>5, <1>9, LinkResult DEF QueuesOK
  <2>2. QueuesOK(new_ones', old_ones', whist') /\ Linked' = linked \cup {seq}
    BY <1>1, <1>5, <2>1 DEF QueuesOK, Linked
  <2> HIDE DEF linked, grown
  <2>3. /\ \A r \in Readers : Typed(rp'[r])
        /\ AllMoving(rp', linked \cup {seq}, nack_response, periodic_hb')
        /\ heartbeat_count_' \in 0..MaxHeartbeats
        /\ periodic_hb' \in BOOLEAN
        /\ may_remove_change_' \in 0..2
    BY <1>3, <1>4, <1>6, <1>7, <1>9, DeliveryMoves
  <2> QED BY <2>2, <2>3
<1>10. CASE /\ SendMayTimeOut /\ rp' = added /\ new_ones' = new_q /\ may_remove_change_' = may
            /\ UNCHANGED <<periodic_hb, heartbeat_count_>>
  <2>1. QueuesOK(new_ones', old_ones', whist')
    BY <1>1, <1>10 DEF QueuesOK
  <2>2. AllMoving(rp', Linked', nack_response, periodic_hb')
    BY <1>10 DEF AllMoving
  <2> QED BY <1>6, <1>10, <2>1, <2>2
<1> QED BY <1>2, <1>8, <1>9, <1>10

\* The oldest change is unlinked before it is destroyed.
LEMMA ReplaceOldestMoves ==
    ASSUME IInv, FlowInv, MaxSeq \in Nat, MaxHeartbeats \in Nat, lastSeq < MaxSeq, whist # {},
           ReplaceOldest, \A r \in Matched(rp) : Covered(rp[r], Min(whist))
    PROVE  /\ QueuesOK(new_ones', old_ones', whist')
           /\ \A r \in Readers : Typed(rp'[r])
           /\ AllMoving(rp', Linked', nack_response, periodic_hb')
           /\ heartbeat_count_' \in 0..MaxHeartbeats
           /\ periodic_hb' \in BOOLEAN
           /\ may_remove_change_' \in 0..2
<1> DEFINE seq == Min(whist)
           rest == whist \ {seq}
           others == [r \in Readers |-> change_has_been_removed(rp[r], seq)]
           new_q == remove_change(new_ones, seq)
           old_q == remove_change(old_ones, seq)
<1>1. /\ lastSeq \in 0..MaxSeq /\ HistoryOK(whist, lastSeq) /\ ProxiesOK(rp, whist, lastSeq)
  BY DEF IInv
<1>2. ProxiesOK(others, rest, lastSeq) /\ HistoryOK(rest, lastSeq)
  BY <1>1, RemovalKeeps
<1>3. AddChange(rest, others, new_q, old_q, 2)
  BY Zenon DEF ReplaceOldest
<1>4. seq \in Seqs
  BY <1>1, HistoryIsInterval DEF Seqs
<1>5. /\ new_q \in Seq(Seqs) /\ IsInjective(new_q) /\ Range(new_q) = Range(new_ones) \ {seq}
      /\ old_q \in Seq(Seqs) /\ IsInjective(old_q) /\ Range(old_q) = Range(old_ones) \ {seq}
  BY UnlinkResult DEF FlowInv, QueuesOK
<1> HIDE DEF new_q, old_q, seq
<1>6. QueuesOK(new_q, old_q, rest)
  BY <1>5 DEF FlowInv, QueuesOK
<1>7. ASSUME NEW r \in Readers
      PROVE  /\ Typed(others[r])
             /\ ~SendMayTimeOut =>
                    Moving(others[r], Range(new_q) \cup Range(old_q), nack_response, periodic_hb)
  <2>1. Shape(rp[r]) /\ Typed(rp[r])
    BY <1>1 DEF ProxiesOK, ProxyOK, FlowInv, RestOK
  <2>2. others[r] = change_has_been_removed(rp[r], seq)
    OBVIOUS
  <2> HIDE DEF others
  <2>3. LeftOf(rp[r], others[r]) /\ others[r].changes[seq] = "none"
    BY <1>4, <2>1, <2>2, RemovalLeaves
  <2>4. Typed(others[r])
    BY <2>1, <2>3 DEF LeftOf, Typed
  <2>5. ASSUME ~SendMayTimeOut
        PROVE  Moving(others[r], Range(new_q) \cup Range(old_q), nack_response, periodic_hb)
    <3>1. Moving(rp[r], Linked, nack_response, periodic_hb)
      BY <2>5 DEF FlowInv, AllMoving
    <3>2. Moving(others[r], Linked, nack_response, periodic_hb)
      BY <2>1, <2>3, <3>1, LeftMoves
    <3>3. Linked \ {seq} = Range(new_q) \cup Range(old_q)
      BY <1>5 DEF Linked
    <3> QED BY <2>3, <3>2, <3>3 DEF Moving
  <2> QED BY <2>4, <2>5
<1>8. AllMoving(others, Range(new_q) \cup Range(old_q), nack_response, periodic_hb)
  BY <1>7 DEF AllMoving
<1>9. heartbeat_count_ \in 0..MaxHeartbeats /\ periodic_hb \in BOOLEAN
  BY DEF FlowInv, RestOK
<1> HIDE DEF others, rest
<1> QED BY <1>1, <1>2, <1>3, <1>6, <1>7, <1>8, <1>9, AddChangeMoves

\* The asynchronous thread sends a change that is linked.
LEMMA NextIsLinked ==
    ASSUME QueuesOK(new_ones, old_ones, whist), Linked # {}
    PROVE  get_next_change \in Linked
<1>1. new_ones \in Seq(Seqs) /\ old_ones \in Seq(Seqs)
  BY DEF QueuesOK
<1>2. ASSUME NEW q \in Seq(Seqs), q # <<>> PROVE Head(q) \in Range(q)
  <2>1. Head(q) = q[1] /\ 1 \in DOMAIN q
    BY <1>2
  <2> QED BY <2>1 DEF Range
<1>3. new_ones = <<>> => Range(new_ones) = {}
  BY DEF Range
<1>4. old_ones = <<>> => Range(old_ones) = {}
  BY DEF Range
<1> QED BY <1>1, <1>2, <1>3, <1>4 DEF get_next_change, Linked

\* An ACKNACK that asks for everything again is never final, so that the periodic heartbeat is
\* started for what becomes unacknowledged; one that asks for changes starts the response timer.
LEMMA AckNackMoves ==
    ASSUME IInv, FlowInv, MaxSeq \in Nat, MaxHeartbeats \in Nat,
           NEW m, m.reader \in Readers, m.base \in 0..(lastSeq + 1), m.count \in Nat,
           m.base = 0 => ~m.final,
           process_acknack(m)
    PROVE  FlowInv'
<1> DEFINE r == m.reader
           p == rp[r]
           n == m.count + 1
           a == Max({p.acked, m.base - 1})
           p0 == WithAcked(p, n, a)
           p1 == acked_changes_set(p0, m.base, whist, lastSeq)
           p2 == IF m.base > 0 THEN requested_changes_set(p1, m.missing) ELSE p1
<1>1. /\ rp' = [rp EXCEPT ![r] = p2] /\ p.active
      /\ nack_response' = (nack_response \/ p2 # p1)
      /\ periodic_hb' = (periodic_hb \/ (p2 = p1 /\ ~m.final))
      /\ check_acked_status(rp', whist, lastSeq, may_remove_change_)
      /\ UNCHANGED <<whist, new_ones, old_ones, wpc>>
  BY Zenon DEF process_acknack, AckNackAccepted, WithAcked
<1>2. heartbeat_count_' \in 0..MaxHeartbeats
  <2>1. CountHeartbeat({r}, whist) \/ UNCHANGED heartbeat_count_
    BY Zenon DEF process_acknack
  <2> QED BY <2>1, CountStaysBounded DEF FlowInv, RestOK
<1>3. /\ nack_response' \in BOOLEAN /\ (nack_response => nack_response')
      /\ periodic_hb' \in BOOLEAN /\ (periodic_hb => periodic_hb')
  BY <1>1, Zenon
<1>4. may_remove_change_' \in 0..2 /\ wpc' \in {"idle", "waiting"}
  BY <1>1, MayRemoveStaysTyped DEF FlowInv, RestOK
<1>5. /\ Shape(p) /\ Typed(p) /\ p.acked \in Nat /\ ProxyOK(p, whist, lastSeq)
      /\ lastSeq \in 0..MaxSeq /\ HistoryOK(whist, lastSeq)
  BY FieldsOfShape DEF IInv, ProxiesOK, ProxyOK, FlowInv, RestOK
<1>6. a \in Nat /\ a >= p.acked /\ a >= m.base - 1 /\ n \in Nat
  <2> DEFINE b == m.base - 1
  <2>1. b \in Int /\ b >= -1 /\ p.acked \in Nat /\ p.acked \in Int /\ a = Max({p.acked, b})
    BY <1>5, SMTT(30)
  <2> HIDE DEF a, b, p
  <2>2. a \in {p.acked, b} /\ a >= p.acked /\ a >= b
    BY <2>1, MaxOfTwo
  <2>3. a \in Nat
    BY <2>1, <2>2
  <2> QED BY <2>2, <2>3 DEF b
<1> HIDE DEF p, n, a
<1>7. /\ Shape(p0) /\ p0.active = p.active /\ p0.joined = p.joined /\ p0.acked = a
      /\ p0.low = p.low /\ p0.changes = p.changes
  BY <1>5, <1>6, AckedReplaced
<1>8. p0.delivered = p.delivered /\ p0.nextAck = n /\ p0.suppression = p.suppression
  BY <1>5, FieldsOfShape DEF ProxyFields, WithAcked
<1> HIDE DEF p0
<1>9. Typed(p0)
  BY <1>5, <1>6, <1>8 DEF Typed
<1>10. ProxyOK(p0, whist, lastSeq) /\ p0.active /\ m.base - 1 <= p0.acked
  <2>1. Covered(p0, p0.low)
    <3>1. Covered(p, p.low) /\ p.low \in Nat /\ p.joined \in Nat
      BY <1>1, <1>5, FieldsOfShape DEF ProxyOK, p
    <3> QED BY <1>5, <1>6, <1>7, <3>1 DEF Covered
  <2> QED BY <1>1, <1>5, <1>6, <1>7, <2>1 DEF ProxyOK, p
<1>11. ProxyOK(p1, whist, lastSeq)
  <2>1. lastSeq > 0 => whist # {}
    BY DEF IInv
  <2> QED BY <1>5, <1>10, <2>1, AckedSetKeeps
<1>12. m.base = 0 => periodic_hb'
  <2>1. m.base = 0 => p2 = p1
    OBVIOUS
  <2> HIDE DEF p1, p2
  <2> QED BY <1>1, <2>1, Zenon
<1>13. /\ Typed(p1)
       /\ ~SendMayTimeOut => Moving(p1, Linked, nack_response, periodic_hb')
  <2>1. Typed(p1)
    BY <1>7, <1>9, AckedSetTyped
  <2>2. ASSUME ~SendMayTimeOut
        PROVE  Moving(p1, Linked, nack_response, periodic_hb')
    <3>1. Moving(p, Linked, nack_response, periodic_hb)
      BY <2>2 DEF FlowInv, AllMoving, p
    <3>2. Moving(p0, Linked, nack_response, periodic_hb')
      BY <1>3, <1>7, <1>8, <3>1 DEF Moving
    <3> QED BY <1>7, <1>9, <1>12, <3>2, AckedSetMoves
  <2> QED BY <2>1, <2>2
<1>14. Shape(p1)
  BY <1>11 DEF ProxyOK
<1> HIDE DEF p1
<1>15. /\ Typed(p2)
       /\ ~SendMayTimeOut => Moving(p2, Linked, nack_response', periodic_hb')
  <2>1. CASE m.base > 0
    <3>1. p2 = requested_changes_set(p1, m.missing)
      BY <2>1
    <3> HIDE DEF p2
    <3>2. Typed(p2)
      <4>1. p2.delivered = p1.delivered /\ p2.nextAck = p1.nextAck /\ p2.suppression = p1.suppression
        BY <1>14, <3>1, RequestedResult
      <4> QED BY <1>13, <4>1 DEF Typed
    <3>3. ASSUME ~SendMayTimeOut
          PROVE  Moving(p2, Linked, nack_response', periodic_hb')
      <4>1. Moving(p2, Linked, nack_response \/ p2 # p1, periodic_hb')
        BY <1>13, <1>14, <3>1, <3>3, RequestedMoves
      <4> QED BY <1>1, <4>1, Zenon DEF Moving
    <3> QED BY <3>2, <3>3
  <2>2. CASE ~ (m.base > 0)
    <3>1. p2 = p1
      BY <2>2
    <3> HIDE DEF p2
    <3> QED BY <1>3, <1>13, <3>1 DEF Moving
  <2> QED BY <2>1, <2>2
<1> HIDE DEF p2
<1>16. rp'[r] = p2 /\ \A x \in Readers \ {r} : rp'[x] = rp[x]
  BY <1>1 DEF IInv, ProxiesOK
<1>17. Linked' = Linked /\ QueuesOK(new_ones', old_ones', whist')
  BY <1>1 DEF FlowInv, Linked, QueuesOK
<1>18. ASSUME NEW x \in Readers
       PROVE  /\ Typed(rp'[x])
              /\ ~SendMayTimeOut => Moving(rp'[x], Linked', nack_response', periodic_hb')
  <2>1. CASE x = r
    BY <1>15, <1>16, <1>17, <2>1
  <2>2. CASE x # r
    <3>1. rp'[x] = rp[x] /\ Typed(rp[x])
      BY <1>16, <2>2 DEF FlowInv, RestOK
    <3>2. ASSUME ~SendMayTimeOut
          PROVE  Moving(rp[x], Linked', nack_response', periodic_hb')
      <4>1. Moving(rp[x], Linked, nack_response, periodic_hb)
        BY <3>2 DEF FlowInv, AllMoving
      <4> QED BY <1>3, <1>17, <4>1 DEF Moving
    <3> QED BY <3>1, <3>2
  <2> QED BY <2>1, <2>2
<1> QED BY <1>2, <1>3, <1>4, <1>17, <1>18 DEF FlowInv, RestOK, AllMoving

\* A reader is matched or unmatched; the heartbeat is stopped only with the last reader.
LEMMA DiscoveryMoves ==
    ASSUME IInv, FlowInv, MaxSeq \in Nat, MaxHeartbeats \in Nat, Discovery
    PROVE  FlowInv'
<1>1. PICK r \in Readers : matched_reader_add(r) \/ matched_reader_remove(r)
  BY DEF Discovery
<1>2. /\ UNCHANGED <<whist, nack_response, new_ones, old_ones, wpc>>
      /\ \/ rp' = [rp EXCEPT ![r] = Joined(whist, lastSeq)]
         \/ rp' = [rp EXCEPT ![r] = NoProxy]
  BY <1>1, Zenon DEF matched_reader_add, matched_reader_remove, Joined
<1>3. Linked' = Linked /\ QueuesOK(new_ones', old_ones', whist')
  BY <1>2 DEF FlowInv, Linked, QueuesOK
<1>4. \A x \in Readers \ {r} : rp'[x] = rp[x]
  BY <1>2 DEF IInv, ProxiesOK
<1>5. heartbeat_count_' \in 0..MaxHeartbeats
  <2>1. CountHeartbeat({r}, whist) \/ UNCHANGED heartbeat_count_
    BY <1>1, Zenon DEF matched_reader_add, matched_reader_remove
  <2> QED BY <2>1, CountStaysBounded DEF FlowInv, RestOK
<1>6. may_remove_change_' \in 0..2
  <2>1. \/ check_acked_status(rp', whist, lastSeq, may_remove_change_)
        \/ UNCHANGED may_remove_change_
    BY <1>1, Zenon DEF matched_reader_add, matched_reader_remove
  <2> QED BY <2>1, MayRemoveStaysTyped DEF FlowInv, RestOK
<1>7. /\ Typed(rp'[r]) /\ Moving(rp'[r], Linked', nack_response', periodic_hb')
      /\ periodic_hb' \in BOOLEAN
      /\ \A x \in Readers \ {r} : rp[x].active /\ periodic_hb => periodic_hb'
  <2>1. CASE matched_reader_add(r)
    <3>1. /\ rp' = [rp EXCEPT ![r] = Joined(whist, lastSeq)]
          /\ periodic_hb' = (periodic_hb \/ whist # {})
      BY <2>1, Zenon DEF matched_reader_add, Joined
    <3>2. rp'[r] = Joined(whist, lastSeq)
      BY <3>1 DEF IInv, ProxiesOK
    <3>3. whist # {} => periodic_hb'
      BY <3>1
    <3>4. periodic_hb' \in BOOLEAN /\ (periodic_hb => periodic_hb')
      BY <3>1, Zenon
    <3> QED BY <3>2, <3>3, <3>4, JoinedMoves
  <2>2. CASE matched_reader_remove(r)
    <3>1. rp' = [rp EXCEPT ![r] = NoProxy] /\ periodic_hb' = (periodic_hb /\ Matched(rp) # {r})
      BY <2>2, Zenon DEF matched_reader_remove
    <3>2. rp'[r] = NoProxy
      BY <3>1 DEF IInv, ProxiesOK
    <3>3. periodic_hb' \in BOOLEAN
      BY <3>1, Zenon
    <3>4. \A x \in Readers \ {r} : rp[x].active => Matched(rp) # {r}
      BY DEF Matched
    <3> QED BY <3>1, <3>2, <3>3, <3>4, NoProxyMoves
  <2> QED BY <1>1, <2>1, <2>2
<1>8. ASSUME NEW x \in Readers
      PROVE  /\ Typed(rp'[x])
             /\ ~SendMayTimeOut => Moving(rp'[x], Linked', nack_response', periodic_hb')
  <2>1. CASE x = r
    BY <1>7, <2>1
  <2>2. CASE x # r
    <3>1. rp'[x] = rp[x] /\ Typed(rp[x]) /\ ProxyOK(rp[x], whist, lastSeq)
      BY <1>4, <2>2 DEF FlowInv, RestOK, IInv, ProxiesOK
    <3>2. ASSUME ~SendMayTimeOut
          PROVE  Moving(rp[x], Linked', nack_response', periodic_hb')
      <4>1. Moving(rp[x], Linked, nack_response, periodic_hb)
        BY <3>2 DEF FlowInv, AllMoving
      <4>2. ASSUME NEW s \in Seqs, rp[x].changes[s] = "UNACKNOWLEDGED" PROVE periodic_hb'
        <5>1. rp[x].active
          BY <3>1, <4>2 DEF ProxyOK
        <5>2. periodic_hb
          BY <4>1, <4>2 DEF Moving
        <5> QED BY <1>7, <2>2, <5>1, <5>2
      <4> QED BY <1>2, <1>3, <4>1, <4>2 DEF Moving
    <3> QED BY <3>1, <3>2
  <2> QED BY <2>1, <2>2
<1>9. nack_response' \in BOOLEAN /\ wpc' \in {"idle", "waiting"}
  BY <1>2 DEF FlowInv, RestOK
<1> QED BY <1>3, <1>5, <1>6, <1>7, <1>8, <1>9 DEF FlowInv, RestOK, AllMoving

\* The response timer links every requested change that is not linked yet.
LEMMA NackResponseMoves ==
    ASSUME IInv, FlowInv, MaxSeq \in Nat, perform_nack_response
    PROVE  FlowInv'
<1> DEFINE T == (UNION {Requested(r) : r \in Matched(rp)}) \ Linked
<1>1. /\ nack_response' = FALSE
      /\ rp' = [r \in Readers |-> convert_status_on_all_changes(rp[r], "REQUESTED", "UNSENT")]
      /\ UNCHANGED <<whist, heartbeat_count_, periodic_hb, new_ones, may_remove_change_, wpc>>
  BY Zenon DEF perform_nack_response
<1>2. PICK added \in Orders(T) : old_ones' = old_ones \o added
  BY Zenon DEF perform_nack_response
<1>3. ASSUME NEW r \in Readers PROVE ProxyOK(rp[r], whist, lastSeq) /\ Shape(rp[r])
  BY DEF IInv, ProxiesOK, ProxyOK
<1>4. T \subseteq Seqs /\ T \subseteq whist
  BY <1>3 DEF Requested, Matched, ProxyOK
<1>5. IsFiniteSet(T)
  <2>1. IsFiniteSet(Seqs)
    BY FS_Interval DEF Seqs
  <2> QED BY <1>4, <2>1, FS_Subset
<1>6. QueuesOK(new_ones, old_ones, whist)
  BY DEF FlowInv
<1>7. T \cap Range(old_ones) = {} /\ T \cap Range(new_ones) = {}
  BY DEF Linked
<1> HIDE DEF T
<1>8. /\ old_ones' \in Seq(Seqs) /\ IsInjective(old_ones')
      /\ Range(old_ones') = Range(old_ones) \cup T
  BY <1>2, <1>4, <1>5, <1>6, <1>7, LinkAllResult DEF QueuesOK
<1>9. QueuesOK(new_ones', old_ones', whist') /\ Linked' = Linked \cup T
  BY <1>1, <1>4, <1>6, <1>7, <1>8 DEF QueuesOK, Linked
<1>10. ASSUME NEW r \in Readers
       PROVE  /\ Typed(rp'[r])
              /\ ~SendMayTimeOut => Moving(rp'[r], Linked', nack_response', periodic_hb')
  <2>1. rp'[r] = convert_status_on_all_changes(rp[r], "REQUESTED", "UNSENT")
    BY <1>1
  <2>2. /\ rp'[r].delivered = rp[r].delivered /\ rp'[r].nextAck = rp[r].nextAck
        /\ rp'[r].suppression = rp[r].suppression
        /\ rp'[r].changes =
             [s \in Seqs |-> IF rp[r].changes[s] = "REQUESTED" THEN "UNSENT" ELSE rp[r].changes[s]]
    <3> DEFINE q == convert_status_on_all_changes(rp[r], "REQUESTED", "UNSENT")
    <3>1. Shape(rp[r])
      BY <1>3
    <3>2. /\ q.delivered = rp[r].delivered /\ q.nextAck = rp[r].nextAck
          /\ q.suppression = rp[r].suppression
          /\ q.changes =
               [s \in Seqs |-> IF rp[r].changes[s] = "REQUESTED" THEN "UNSENT" ELSE rp[r].changes[s]]
      BY <3>1, ConvertResult
    <3>3. rp'[r] = q
      BY <2>1
    <3> HIDE DEF q
    <3> QED BY <3>2, <3>3
  <2>3. Typed(rp'[r])
    BY <2>2 DEF FlowInv, RestOK, Typed
  <2>4. \A s \in Seqs : rp[r].changes[s] = "REQUESTED" => s \in Linked'
    <3>1. ASSUME NEW s \in Seqs, rp[r].changes[s] = "REQUESTED" PROVE s \in Linked \cup T
      <4>1. r \in Matched(rp)
        BY <1>3, <3>1 DEF Matched, ProxyOK
      <4>2. s \in Requested(r)
        BY <3>1 DEF Requested
      <4> QED BY <4>1, <4>2 DEF T
    <3> QED BY <1>9, <3>1
  <2>5. ASSUME ~SendMayTimeOut
        PROVE  Moving(rp'[r], Linked', nack_response', periodic_hb')
    <3>1. Moving(rp[r], Linked, nack_response, periodic_hb)
      BY <2>5 DEF FlowInv, AllMoving
    <3>2. ASSUME NEW s \in Seqs
          PROVE  /\ rp'[r].changes[s] = "UNSENT" => s \in Linked'
                 /\ rp'[r].changes[s] # "REQUESTED"
                 /\ rp'[r].changes[s] = "UNDERWAY" => rp'[r].suppression
                 /\ rp'[r].changes[s] = "UNACKNOWLEDGED" => periodic_hb'
      BY <1>1, <1>9, <2>2, <2>4, <3>1, SMTT(30) DEF Moving
    <3> QED BY <3>2 DEF Moving
  <2> QED BY <2>3, <2>5
<1>11. nack_response' \in BOOLEAN
  BY <1>1, Zenon
<1>12. /\ heartbeat_count_' \in 0..MaxHeartbeats /\ periodic_hb' \in BOOLEAN
       /\ may_remove_change_' \in 0..2 /\ wpc' \in {"idle", "waiting"}
  BY <1>1 DEF FlowInv, RestOK
<1> QED BY <1>9, <1>10, <1>11, <1>12 DEF FlowInv, RestOK, AllMoving

\* After the suppression timer a change waits for the periodic heartbeat, which is started.
LEMMA SuppressionMoves ==
    ASSUME IInv, FlowInv, NEW r \in Readers, perform_nack_supression(r)
    PROVE  FlowInv'
<1> DEFINE p == convert_status_on_all_changes(rp[r], "UNDERWAY", "UNACKNOWLEDGED")
           q == [p EXCEPT !.suppression = FALSE]
<1>1. /\ rp' = [rp EXCEPT ![r] = q] /\ periodic_hb' = TRUE
      /\ UNCHANGED <<whist, heartbeat_count_, nack_response, new_ones, old_ones,
                     may_remove_change_, wpc>>
  BY Zenon DEF perform_nack_supression
<1>2. Shape(rp[r]) /\ Typed(rp[r]) /\ rp[r].changes \in [Seqs -> ChangeStatus]
  BY FieldsOfShape DEF IInv, ProxiesOK, ProxyOK, FlowInv, RestOK
<1>3. /\ p.delivered = rp[r].delivered /\ p.nextAck = rp[r].nextAck /\ DOMAIN p = ProxyFields
      /\ p.changes = [s \in Seqs |-> IF rp[r].changes[s] = "UNDERWAY"
                                     THEN "UNACKNOWLEDGED" ELSE rp[r].changes[s]]
  BY <1>2, ConvertResult, SMTT(30)
<1> HIDE DEF p
<1>4. /\ q.delivered = p.delivered /\ q.nextAck = p.nextAck /\ q.changes = p.changes
      /\ q.suppression = FALSE
  BY <1>3 DEF ProxyFields
<1> HIDE DEF q
<1>5. Typed(q)
  <2>1. q.suppression \in BOOLEAN
    BY <1>4, Zenon
  <2> QED BY <1>2, <1>3, <1>4, <2>1 DEF Typed
<1>6. ASSUME NEW linked, NEW nack, NEW hb, Moving(rp[r], linked, nack, hb)
      PROVE  Moving(q, linked, nack, TRUE)
  BY <1>3, <1>4, <1>6 DEF Moving
<1>7. rp'[r] = q /\ \A x \in Readers \ {r} : rp'[x] = rp[x]
  BY <1>1 DEF IInv, ProxiesOK
<1>8. Linked' = Linked /\ QueuesOK(new_ones', old_ones', whist')
  BY <1>1 DEF FlowInv, Linked, QueuesOK
<1>9. periodic_hb' /\ periodic_hb' \in BOOLEAN
  BY <1>1, Zenon
<1>10. ASSUME NEW x \in Readers
       PROVE  /\ Typed(rp'[x])
              /\ ~SendMayTimeOut => Moving(rp'[x], Linked', nack_response', periodic_hb')
  <2>1. CASE x = r
    <3>1. ASSUME ~SendMayTimeOut
          PROVE  Moving(rp[r], Linked, nack_response, periodic_hb)
      BY <3>1 DEF FlowInv, AllMoving
    <3>2. ASSUME ~SendMayTimeOut
          PROVE  Moving(q, Linked, nack_response, TRUE)
      BY <1>6, <3>1, <3>2
    <3> QED BY <1>1, <1>5, <1>7, <1>8, <2>1, <3>2
  <2>2. CASE x # r
    <3>1. rp'[x] = rp[x] /\ Typed(rp[x])
      BY <1>7, <2>2 DEF FlowInv, RestOK
    <3>2. ASSUME ~SendMayTimeOut
          PROVE  Moving(rp[x], Linked', nack_response', periodic_hb')
      <4>1. Moving(rp[x], Linked, nack_response, periodic_hb)
        BY <3>2 DEF FlowInv, AllMoving
      <4> QED BY <1>1, <1>8, <1>9, <4>1 DEF Moving
    <3> QED BY <3>1, <3>2
  <2> QED BY <2>1, <2>2
<1>11. /\ heartbeat_count_' \in 0..MaxHeartbeats /\ nack_response' \in BOOLEAN
       /\ may_remove_change_' \in 0..2 /\ wpc' \in {"idle", "waiting"}
  BY <1>1 DEF FlowInv, RestOK
<1> QED BY <1>8, <1>9, <1>10, <1>11 DEF FlowInv, RestOK, AllMoving

\* The periodic heartbeat goes on while a change is unacknowledged.
LEMMA PeriodicMoves ==
    ASSUME IInv, FlowInv, MaxHeartbeats \in Nat, send_periodic_heartbeat
    PROVE  FlowInv'
<1> DEFINE first == IF whist = {} THEN lastSeq ELSE Min(whist)
           unacked == \E r \in Matched(rp) : has_unacknowledged(rp[r], first)
           announced == IF unacked THEN Matched(rp) ELSE {}
<1>1. /\ periodic_hb' = unacked
      /\ CountHeartbeat(announced, whist)
      /\ UNCHANGED <<whist, rp, nack_response, new_ones, old_ones, may_remove_change_, wpc>>
  BY Zenon DEF send_periodic_heartbeat
<1>2. periodic_hb' \in BOOLEAN
  BY <1>1, Zenon
<1>3. heartbeat_count_' \in 0..MaxHeartbeats
  BY <1>1, CountStaysBounded DEF FlowInv, RestOK
<1>4. Linked' = Linked /\ QueuesOK(new_ones', old_ones', whist')
  BY <1>1 DEF FlowInv, Linked, QueuesOK
<1>5. ASSUME NEW r \in Readers, NEW s \in Seqs, rp[r].changes[s] = "UNACKNOWLEDGED"
      PROVE  periodic_hb'
  <2>1. r \in Matched(rp)
    BY <1>5 DEF Matched, IInv, ProxiesOK, ProxyOK
  <2>2. has_unacknowledged(rp[r], first)
    BY <1>5, Zenon DEF has_unacknowledged
  <2>3. unacked
    BY <2>1, <2>2
  <2> QED BY <1>1, <2>3, Zenon
<1> HIDE DEF unacked, announced
<1>6. AllMoving(rp', Linked', nack_response', periodic_hb')
  BY <1>1, <1>4, <1>5 DEF FlowInv, AllMoving, Moving
<1> QED BY <1>1, <1>2, <1>3, <1>4, <1>6 DEF FlowInv, RestOK

\* The asynchronous thread sends what is linked.
LEMMA QueuedMoves ==
    ASSUME IInv, FlowInv, MaxSeq \in Nat, MaxHeartbeats \in Nat, SendQueued \/ SendQueuedFails
    PROVE  FlowInv'
<1> DEFINE seq == get_next_change
<1>1. /\ Linked # {}
      /\ UNCHANGED <<whist, nack_response, wpc>>
  BY Zenon DEF SendQueued, SendQueuedFails
<1>2. \/ /\ deliver_sample(seq, rp, whist, lastSeq, may_remove_change_)
         /\ new_ones' = remove_change(new_ones, seq)
         /\ old_ones' = remove_change(old_ones, seq)
      \/ /\ delivery_fails(seq, rp, whist, lastSeq, may_remove_change_)
         /\ UNCHANGED <<new_ones, old_ones>>
  BY Zenon DEF SendQueued, SendQueuedFails
<1>3. QueuesOK(new_ones, old_ones, whist)
  BY DEF FlowInv
<1>4. seq \in Seqs
  <2>1. seq \in Linked
    BY <1>1, <1>3, NextIsLinked
  <2>2. whist \subseteq Seqs
    BY DEF IInv, HistoryOK, Seqs
  <2> QED BY <1>3, <2>1, <2>2 DEF QueuesOK, Linked
<1>5. /\ MaxHeartbeats \in Nat /\ heartbeat_count_ \in 0..MaxHeartbeats /\ periodic_hb \in BOOLEAN
      /\ ProxiesOK(rp, whist, lastSeq) /\ may_remove_change_ \in 0..2
      /\ \A r \in Readers : Typed(rp[r])
      /\ AllMoving(rp, Linked, nack_response, periodic_hb)
  BY DEF IInv, FlowInv, RestOK
<1> HIDE DEF seq
<1>6. /\ QueuesOK(new_ones', old_ones', whist')
      /\ \/ /\ deliver_sample(seq, rp, whist, lastSeq, may_remove_change_)
            /\ Linked' = Linked \ {seq}
         \/ /\ delivery_fails(seq, rp, whist, lastSeq, may_remove_change_)
            /\ Linked' = Linked
  <2>1. CASE /\ deliver_sample(seq, rp, whist, lastSeq, may_remove_change_)
             /\ new_ones' = remove_change(new_ones, seq)
             /\ old_ones' = remove_change(old_ones, seq)
    <3>1. /\ new_ones' \in Seq(Seqs) /\ IsInjective(new_ones')
          /\ Range(new_ones') = Range(new_ones) \ {seq}
          /\ old_ones' \in Seq(Seqs) /\ IsInjective(old_ones')
          /\ Range(old_ones') = Range(old_ones) \ {seq}
      BY <1>3, <2>1, UnlinkResult DEF QueuesOK
    <3>2. QueuesOK(new_ones', old_ones', whist')
      BY <1>1, <1>3, <3>1 DEF QueuesOK
    <3>3. Linked' = Linked \ {seq}
      BY <3>1 DEF Linked
    <3> QED BY <2>1, <3>2, <3>3
  <2>2. CASE /\ delivery_fails(seq, rp, whist, lastSeq, may_remove_change_)
             /\ UNCHANGED <<new_ones, old_ones>>
    BY <1>1, <1>3, <2>2 DEF QueuesOK, Linked
  <2> QED BY <1>2, <2>1, <2>2
<1>7. /\ \A r \in Readers : Typed(rp'[r])
      /\ AllMoving(rp', Linked', nack_response, periodic_hb')
      /\ heartbeat_count_' \in 0..MaxHeartbeats
      /\ periodic_hb' \in BOOLEAN
      /\ may_remove_change_' \in 0..2
  BY <1>4, <1>5, <1>6, DeliveryMoves
<1>8. nack_response' = nack_response /\ nack_response' \in BOOLEAN /\ wpc' \in {"idle", "waiting"}
  BY <1>1 DEF FlowInv, RestOK
<1> QED BY <1>6, <1>7, <1>8 DEF FlowInv, RestOK

\* Every step of the writer but the reception of an ACKNACK.
OwnStep ==
    write \/ RoomAppears \/ WriteTimesOut \/ SendQueued \/ SendQueuedFails \/ Discovery \/ Timers

\* It keeps the second invariant.
LEMMA OwnStepMoves ==
    ASSUME IInv, FlowInv, OwnStep \/ UNCHANGED writerVars
    PROVE  FlowInv'
<1>0. MaxSeq \in Nat /\ MaxHeartbeats \in Nat /\ HistorySize \in Nat \ {0}
  BY WriterAssumption
<1>1. /\ lastSeq \in 0..MaxSeq /\ HistoryOK(whist, lastSeq) /\ ProxiesOK(rp, whist, lastSeq)
      /\ QueuesOK(new_ones, old_ones, whist) /\ may_remove_change_ \in 0..2
      /\ heartbeat_count_ \in 0..MaxHeartbeats /\ periodic_hb \in BOOLEAN /\ nack_response \in BOOLEAN
      /\ \A r \in Readers : Typed(rp[r])
      /\ AllMoving(rp, Range(new_ones) \cup Range(old_ones), nack_response, periodic_hb)
      /\ wpc \in {"idle", "waiting"}
  BY DEF IInv, FlowInv, RestOK, Linked
<1>2. ASSUME /\ QueuesOK(new_ones', old_ones', whist')
             /\ \A r \in Readers : Typed(rp'[r])
             /\ AllMoving(rp', Linked', nack_response, periodic_hb')
             /\ heartbeat_count_' \in 0..MaxHeartbeats
             /\ periodic_hb' \in BOOLEAN
             /\ may_remove_change_' \in 0..2,
             UNCHANGED nack_response,
             wpc' \in {"idle", "waiting"}
      PROVE  FlowInv'
  <2>1. nack_response' = nack_response
    BY <1>2
  <2> QED BY <1>1, <1>2, <2>1 DEF FlowInv, RestOK
<1>3. ASSUME lastSeq < MaxSeq, whist # {}, ReplaceOldest, UNCHANGED nack_response,
             wpc' \in {"idle", "waiting"},
             may_remove_change_ = 1 \/ nextAllAcked - 1 >= Min(whist)
      PROVE  FlowInv'
  <2>1. \A r \in Matched(rp) : Covered(rp[r], Min(whist))
    BY <1>0, <1>3, ReplacementIsCovered
  <2> QED BY <1>0, <1>2, <1>3, <2>1, ReplaceOldestMoves
<1>4. ASSUME UNCHANGED <<whist, rp, heartbeat_count_, periodic_hb, nack_response, new_ones, old_ones>>,
             may_remove_change_' \in 0..2,
             wpc' \in {"idle", "waiting"}
      PROVE  FlowInv'
  <2>1. Linked' = Linked
    BY <1>4 DEF Linked
  <2>2. /\ whist' = whist /\ rp' = rp /\ heartbeat_count_' = heartbeat_count_
        /\ periodic_hb' = periodic_hb /\ nack_response' = nack_response
        /\ new_ones' = new_ones /\ old_ones' = old_ones
    BY <1>4
  <2>3. QueuesOK(new_ones', old_ones', whist')
    BY <1>1, <2>2
  <2>4. RestOK(rp', heartbeat_count_', periodic_hb', nack_response', may_remove_change_', wpc')
    BY <1>1, <1>4, <2>2 DEF RestOK
  <2>5. AllMoving(rp', Linked', nack_response', periodic_hb')
    BY <2>1, <2>2 DEF FlowInv
  <2> QED BY <2>3, <2>4, <2>5 DEF FlowInv
<1>5. CASE write
  <2>1. wpc = "idle" /\ lastSeq < MaxSeq /\ UNCHANGED nack_response
    BY <1>5, Zenon DEF write
  <2>2. CASE AddChange(whist, rp, new_ones, old_ones, may_remove_change_) /\ UNCHANGED wpc
    <3>1. wpc' \in {"idle", "waiting"}
      BY <1>1, <2>2
    <3> QED BY <1>0, <1>1, <1>2, <2>1, <2>2, <3>1, AddChangeMoves
  <2>3. CASE HistoryFull /\ nextAllAcked - 1 >= Min(whist) /\ ReplaceOldest /\ UNCHANGED wpc
    <3>1. whist # {}
      BY <1>0, <2>3, FS_EmptySet DEF HistoryFull
    <3>2. wpc' \in {"idle", "waiting"}
      BY <1>1, <2>3
    <3> QED BY <1>3, <2>1, <2>3, <3>1, <3>2
  <2>4. CASE /\ may_remove_change_' = 0 /\ wpc' = "waiting"
             /\ UNCHANGED <<whist, rp, heartbeat_count_, periodic_hb, new_ones, old_ones>>
    BY <1>4, <2>1, <2>4
  <2> QED BY <1>5, <2>2, <2>3, <2>4, Zenon DEF write
<1>6. CASE RoomAppears
  <2>1. /\ wpc = "waiting" /\ may_remove_change_ = 1 /\ wpc' = "idle" /\ ReplaceOldest
        /\ UNCHANGED nack_response
    BY <1>6, Zenon DEF RoomAppears
  <2>2. lastSeq < MaxSeq /\ whist # {}
    BY <2>1 DEF IInv
  <2> QED BY <1>3, <2>1, <2>2
<1>7. CASE WriteTimesOut
  <2>1. /\ wpc' = "idle"
        /\ UNCHANGED <<whist, rp, heartbeat_count_, periodic_hb, nack_response, new_ones, old_ones,
                       may_remove_change_>>
    BY <1>7 DEF WriteTimesOut
  <2> QED BY <1>1, <1>4, <2>1
<1>8. CASE SendQueued \/ SendQueuedFails
  BY <1>0, <1>8, QueuedMoves
<1>9. CASE Discovery
  BY <1>0, <1>9, DiscoveryMoves
<1>10. CASE Timers
  BY <1>0, <1>10, NackResponseMoves, PeriodicMoves, SuppressionMoves DEF Timers
<1>11. CASE UNCHANGED writerVars
  <2>1. UNCHANGED <<whist, rp, heartbeat_count_, periodic_hb, nack_response, new_ones, old_ones,
                    may_remove_change_, wpc>>
    BY <1>11 DEF writerVars
  <2> QED BY <1>1, <1>4, <2>1
<1> QED BY <1>5, <1>6, <1>7, <1>8, <1>9, <1>10, <1>11 DEF OwnStep

\* So does every step of the writer on its own.
LEMMA FlowStepKeeps == IInv /\ FlowInv /\ [WriterNext]_vars => FlowInv'
<1> SUFFICES ASSUME IInv, FlowInv, [WriterNext]_vars PROVE FlowInv'
  OBVIOUS
<1>1. CASE ReceivesAckNack
  <2>1. PICK r \in Readers, count \in 1..MaxAckNacks, base \in 0..(lastSeq + 1) :
          \E missing \in SUBSET (base..lastSeq) :
            process_acknack(AckNack(ThisWriter, r, base, missing, count, base # 0 /\ missing = {}))
    BY <1>1, Zenon DEF ReceivesAckNack
  <2>2. PICK missing \in SUBSET (base..lastSeq) :
          process_acknack(AckNack(ThisWriter, r, base, missing, count, base # 0 /\ missing = {}))
    BY <2>1
  <2> DEFINE m == AckNack(ThisWriter, r, base, missing, count, base # 0 /\ missing = {})
  <2>3. process_acknack(m)
    BY <2>2
  <2>4. m.reader = r /\ m.base = base /\ m.count = count
    BY DEF AckNack
  <2>5. m.base = 0 => ~m.final
    BY DEF AckNack
  <2> HIDE DEF m
  <2>6. m.reader \in Readers /\ m.base \in 0..(lastSeq + 1) /\ m.count \in Nat
    BY <2>4
  <2> QED BY <2>3, <2>5, <2>6, WriterAssumption, AckNackMoves
<1>2. CASE UNCHANGED vars
  BY <1>2, OwnStepMoves DEF vars
<1>3. CASE OwnStep
  BY <1>3, OwnStepMoves
<1> QED BY <1>1, <1>2, <1>3 DEF WriterNext, OwnStep

\* It holds at first.
LEMMA InitFlowInv == WriterInit => FlowInv
<1> SUFFICES ASSUME WriterInit PROVE FlowInv
  OBVIOUS
<1> USE DEF WriterInit
<1>1. QueuesOK(new_ones, old_ones, whist)
  BY DEF QueuesOK, IsInjective, Range
<1>2. \A r \in Readers : rp[r] = NoProxy
  OBVIOUS
<1>3. periodic_hb \in BOOLEAN /\ nack_response \in BOOLEAN
  BY Zenon
<1>4. RestOK(rp, heartbeat_count_, periodic_hb, nack_response, may_remove_change_, wpc)
  BY <1>2, <1>3, WriterAssumption, NoProxyMoves DEF RestOK
<1>5. AllMoving(rp, Linked, nack_response, periodic_hb)
  BY <1>2, NoProxyMoves DEF AllMoving
<1> QED BY <1>1, <1>4, <1>5 DEF FlowInv

\* Both invariants hold in every reachable state.
LEMMA Invariance == Spec => [](IInv /\ FlowInv)
<1>1. Init => IInv /\ FlowInv
  BY InitIInv, InitFlowInv DEF Init
<1>2. IInv /\ FlowInv /\ [WriterNext]_vars => IInv' /\ FlowInv'
  BY StepKeeps, FlowStepKeeps
<1> QED BY <1>1, <1>2, PTL DEF Spec

-----------------------------------------------------------------------------
\* TypeOK: the variables of the writer have their types.
THEOREM TypeCorrect == Spec => []TypeOK
<1>1. IInv /\ FlowInv => TypeOK
  <2> SUFFICES ASSUME IInv, FlowInv PROVE TypeOK
    OBVIOUS
  <2>0. MaxSeq \in Nat
    BY WriterAssumption
  <2>1. whist \subseteq Seqs /\ lastSeq \in 0..MaxSeq
    BY <2>0 DEF IInv, HistoryOK, Seqs
  <2>2. nextAllAcked \in 1..(MaxSeq + 1)
    BY <2>0 DEF IInv, MarksOK
  <2>3. \A r \in Readers : Shape(rp[r]) /\ Typed(rp[r])
    BY DEF IInv, ProxiesOK, ProxyOK, FlowInv, RestOK
  <2>4. \A r \in Readers : rp[r] \in ReaderProxyType
    <3> SUFFICES ASSUME NEW r \in Readers PROVE rp[r] \in ReaderProxyType
      OBVIOUS
    <3> DEFINE p == rp[r]
    <3>1. Shape(p) /\ Typed(p)
      BY <2>3
    <3> HIDE DEF p
    <3>2. p \in ReaderProxyType
      BY <3>1 DEF Shape, Typed, ReaderProxyType
    <3> QED BY <3>2 DEF p
  <2>5. rp = [r \in Readers |-> rp[r]]
    BY DEF IInv, ProxiesOK
  <2>6. rp \in [Readers -> ReaderProxyType]
    BY <2>4, <2>5
  <2> QED BY <2>1, <2>2, <2>6 DEF TypeOK, FlowInv, RestOK, QueuesOK
<1> QED BY <1>1, Invariance, PTL

\* ChangesMatchHistory: the proxies and the flow controller point to changes of the history only.
\* Each proxy has exactly those above its low mark, and nothing is linked twice or after it has
\* left the history (change_removed_by_history(), remove_change_impl()).
THEOREM ChangesMatchHistoryHolds == Spec => []ChangesMatchHistory
<1>1. IInv /\ FlowInv => ChangesMatchHistory
  <2> SUFFICES ASSUME IInv, FlowInv PROVE ChangesMatchHistory
    OBVIOUS
  <2>1. whist \subseteq Seqs
    BY WriterAssumption DEF IInv, HistoryOK, Seqs
  <2>2. \A r \in Readers : {s \in Seqs : rp[r].changes[s] # "none"} =
                               IF rp[r].active THEN {s \in whist : s > rp[r].low} ELSE {}
    BY <2>1 DEF IInv, ProxiesOK, ProxyOK
  <2>3. QueuesOK(new_ones, old_ones, whist)
    BY DEF FlowInv
  <2>4. /\ IsFiniteSet(Range(new_ones)) /\ Cardinality(Range(new_ones)) = Len(new_ones)
        /\ IsFiniteSet(Range(old_ones)) /\ Cardinality(Range(old_ones)) = Len(old_ones)
    BY <2>3, LengthIsCardinality DEF QueuesOK
  <2>5. Len(new_ones) + Len(old_ones) = Cardinality(Linked)
    <3> DEFINE n == Range(new_ones)
               o == Range(old_ones)
    <3>1. n \cap o = {}
      BY <2>3 DEF QueuesOK
    <3>2. Len(new_ones) \in Nat /\ Len(old_ones) \in Nat
      BY <2>3 DEF QueuesOK
    <3>3. Linked = n \cup o
      BY DEF Linked
    <3> HIDE DEF n, o
    <3>4. Cardinality(n \cup o) = Cardinality(n) + Cardinality(o) - Cardinality(n \cap o)
      BY <2>4, FS_Union DEF n, o
    <3>5. Cardinality(n \cap o) = 0
      BY <3>1, FS_EmptySet, Zenon
    <3>6. Cardinality(n) = Len(new_ones) /\ Cardinality(o) = Len(old_ones)
      BY <2>4 DEF n, o
    <3> QED BY <3>2, <3>3, <3>4, <3>5, <3>6
  <2>6. Linked \subseteq whist
    BY <2>3 DEF QueuesOK, Linked
  <2> QED BY <2>2, <2>5, <2>6 DEF ChangesMatchHistory
<1> QED BY <1>1, Invariance, PTL

\* NothingStalls: if a write() always finds a send buffer in time, a change some reader has not
\* acknowledged is linked in the flow controller or has a timer running that will move it on.
THEOREM NothingStallsHolds == ASSUME ~SendMayTimeOut PROVE Spec => []NothingStalls
<1>1. IInv /\ FlowInv => NothingStalls
  BY DEF FlowInv, AllMoving, Moving, NothingStalls
<1> QED BY <1>1, Invariance, PTL
=============================================================================
