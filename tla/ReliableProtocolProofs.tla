----------------------- MODULE ReliableProtocolProofs -----------------------
(***************************************************************************)
(* The writer and the reader over a network that loses, duplicates, delays *)
(* and reorders are a reliable FIFO channel, for every history size, every *)
(* window of an ACKNACK and every number of samples.  The writer's part of *)
(* the argument is StatefulWriterProofs, the reader's ReliableReaderProofs;*)
(* what is added is what the writer may put into the network and what it   *)
(* concludes from an ACKNACK.                                              *)
(***************************************************************************)
EXTENDS ReliableReaderProofs, StatefulWriterProofs

\* The writer takes as acknowledged, and has discarded, only what the reader has.
WriterOK ==
    /\ Rp.joined = 0 /\ Rp.acked <= Record
    /\ Rp.active \/ lastSeq = 0
    /\ FirstIn(whist, lastSeq) <= Record + 1
    /\ Cardinality(whist) <= HistorySize
    /\ wpc = "waiting" => Cardinality(whist) = HistorySize

\* The inductive invariant of the protocol.
ProtocolInv ==
    /\ IInv /\ FlowInv
    /\ ReaderOK /\ SamplesOK /\ WriterOK
    /\ \A m \in net : MessageOK(m)

-----------------------------------------------------------------------------
\* What the writer may put into the network: a change it has written, and the range it has.
Announces(m, history, last) ==
    \/ m.type = "DATA" /\ m.seq \in 1..last
    \/ /\ m.type = "HEARTBEAT" /\ m.first = FirstIn(history, last) /\ m.last = last
       /\ m.count \in Nat /\ m.final \in BOOLEAN

\* send_heartbeat_nts_() announces the range of the history.
LEMMA HeartbeatAnnounces ==
    ASSUME NEW rs, NEW history, NEW last, heartbeat_count_ \in Nat,
           NEW m \in HeartbeatTo(rs, history, last)
    PROVE  Announces(m, history, last)
<1>1. PICK r \in rs :
          m = Heartbeat(ThisWriter, r, FirstIn(history, last), last, heartbeat_count_ + 1, FALSE)
  BY DEF HeartbeatTo
<1>2. /\ m.type = "HEARTBEAT" /\ m.first = FirstIn(history, last) /\ m.last = last
      /\ m.count = heartbeat_count_ + 1
  BY <1>1 DEF Heartbeat
<1>3. m.final = FALSE
  BY <1>1 DEF Heartbeat
<1>4. m.final \in BOOLEAN
  BY <1>3, Zenon
<1>5. m.count \in Nat
  BY <1>2
<1> QED BY <1>2, <1>4, <1>5, Zenon DEF Announces

\* deliver_sample_nts() sends a change and at most a heartbeat, and no reader's past changes.
LEMMA DeliveryAnnounces ==
    ASSUME NEW proxies, NEW history, NEW last \in Nat, NEW may, NEW seq \in 1..last,
           heartbeat_count_ \in Nat, ProxiesOK(proxies, history, last),
           \/ deliver_sample(seq, proxies, history, last, may)
           \/ delivery_fails(seq, proxies, history, last, may)
    PROVE  /\ \A r \in Readers : SamePast(proxies[r], rp'[r])
           /\ \A m \in net' : m \in net \/ Announces(m, history, last)
<1>1. PICK marked \in {proxies, MarkUnderway(seq, proxies)},
           data \in {{}, {Data(ThisWriter, r, seq) : r \in Targets(seq, proxies)}},
           announced \in {{}, Matched(proxies)} :
          deliver_sample_nts(seq, proxies, marked, data, announced, history, last, may)
  BY Zenon DEF deliver_sample, delivery_fails
<1>2. rp' = marked /\ net' = net \cup data \cup HeartbeatTo(announced, history, last)
  BY <1>1, Zenon DEF deliver_sample_nts
<1>3. \A r \in Readers : SamePast(proxies[r], marked[r])
  <2>1. CASE marked = proxies
    BY <2>1 DEF SamePast
  <2>2. CASE marked = MarkUnderway(seq, proxies)
    BY <2>2, UnderwayKeeps
  <2> QED BY <1>1, <2>1, <2>2
<1>4. ASSUME NEW m \in data PROVE Announces(m, history, last)
  <2>1. PICK r \in Targets(seq, proxies) : m = Data(ThisWriter, r, seq)
    BY <1>1
  <2>2. m.type = "DATA" /\ m.seq = seq
    BY <2>1 DEF Data
  <2> QED BY <2>2 DEF Announces
<1>5. \A m \in HeartbeatTo(announced, history, last) : Announces(m, history, last)
  BY HeartbeatAnnounces
<1> QED BY <1>2, <1>3, <1>4, <1>5

\* So does the addition of a change.
LEMMA AddChangeAnnounces ==
    ASSUME NEW history, NEW proxies, NEW new_q, NEW old_q, NEW may, MaxSeq \in Nat,
           lastSeq \in Nat, lastSeq < MaxSeq, heartbeat_count_ \in Nat,
           HistoryOK(history, lastSeq), ProxiesOK(proxies, history, lastSeq),
           AddChange(history, proxies, new_q, old_q, may)
    PROVE  /\ lastSeq' = lastSeq + 1 /\ whist' = history \cup {lastSeq + 1}
           /\ \A r \in Readers : SamePast(proxies[r], rp'[r])
           /\ \A m \in net' : m \in net \/ Announces(m, whist', lastSeq')
<1> DEFINE seq == lastSeq + 1
           grown == history \cup {seq}
           added == Added(proxies, seq)
<1>1. lastSeq' = seq /\ whist' = grown
  BY Zenon DEF AddChange
<1>2. \/ deliver_sample(seq, added, grown, seq, may)
      \/ delivery_fails(seq, added, grown, seq, may)
      \/ rp' = added /\ UNCHANGED net
  BY Zenon DEF AddChange, Added
<1>3. ProxiesOK(added, grown, seq) /\ \A r \in Readers : SamePast(proxies[r], added[r])
  BY AddedKeeps
<1>4. seq \in Nat /\ seq \in 1..seq
  OBVIOUS
<1> HIDE DEF seq, grown, added
<1>5. CASE rp' = added /\ UNCHANGED net
  BY <1>1, <1>3, <1>5 DEF seq, grown
<1>6. CASE \/ deliver_sample(seq, added, grown, seq, may)
           \/ delivery_fails(seq, added, grown, seq, may)
  <2>1. /\ \A r \in Readers : SamePast(added[r], rp'[r])
        /\ \A m \in net' : m \in net \/ Announces(m, grown, seq)
    BY <1>3, <1>4, <1>6, DeliveryAnnounces
  <2>2. \A r \in Readers : SamePast(proxies[r], rp'[r])
    BY <1>3, <2>1 DEF SamePast
  <2> QED BY <1>1, <2>1, <2>2 DEF seq, grown
<1> QED BY <1>2, <1>5, <1>6

\* A history is the interval from its first number, and so many changes.
LEMMA HistoryLength ==
    ASSUME NEW history, NEW last \in Nat, HistoryOK(history, last)
    PROVE  /\ FirstIn(history, last) \in 1..(last + 1)
           /\ history = FirstIn(history, last)..last
           /\ Cardinality(history) = last + 1 - FirstIn(history, last)
<1>1. /\ FirstIn(history, last) \in 1..(last + 1)
      /\ history = FirstIn(history, last)..last
  <2>1. CASE history = {}
    <3>1. FirstIn(history, last) = last + 1
      BY <2>1 DEF FirstIn
    <3> QED BY <2>1, <3>1
  <2>2. CASE history # {}
    BY <2>2, HistoryIsInterval DEF FirstIn
  <2> QED BY <2>1, <2>2
<1> DEFINE f == FirstIn(history, last)
<1> HIDE DEF f
<1>2. Cardinality(f..last) = IF f > last THEN 0 ELSE last - f + 1
  <2>1. f \in Int /\ last \in Int
    BY <1>1 DEF f
  <2> QED BY <2>1, FS_Interval
<1>3. Cardinality(history) = last + 1 - f
  BY <1>1, <1>2 DEF f
<1> QED BY <1>1, <1>3 DEF f

\* An interval determines its first number.
LEMMA FirstOfInterval ==
    ASSUME NEW history, NEW last \in Nat, NEW lo \in 1..(last + 1), history = lo..last
    PROVE  FirstIn(history, last) = lo
<1>1. HistoryOK(history, last)
  BY DEF HistoryOK
<1>2. FirstIn(history, last) \in 1..(last + 1) /\ history = FirstIn(history, last)..last
  BY <1>1, HistoryLength
<1> DEFINE f == FirstIn(history, last)
<1> HIDE DEF f
<1>3. CASE lo = last + 1
  <2>1. history = {}
    BY <1>3
  <2> QED BY <1>3, <2>1 DEF FirstIn
<1>4. CASE lo # last + 1
  <2>1. lo \in history
    BY <1>4
  <2>2. f \in 1..(last + 1) /\ history = f..last
    BY <1>2 DEF f
  <2>3. lo >= f /\ f \in history
    BY <2>1, <2>2
  <2> QED BY <2>2, <2>3 DEF f
<1> QED BY <1>3, <1>4

\* A change is added to a history that starts where it did.
LEMMA HistoryGrows ==
    ASSUME NEW history, NEW last \in Nat, HistoryOK(history, last)
    PROVE  LET grown == history \cup {last + 1}
           IN  /\ FirstIn(grown, last + 1) = FirstIn(history, last)
               /\ Cardinality(grown) = Cardinality(history) + 1
<1> DEFINE f == FirstIn(history, last)
           grown == history \cup {last + 1}
<1>1. /\ f \in 1..(last + 1) /\ history = f..last
      /\ Cardinality(history) = last + 1 - f
  BY HistoryLength
<1> HIDE DEF f
<1>2. last + 1 \in Nat /\ f \in 1..((last + 1) + 1) /\ grown = f..(last + 1)
  BY <1>1
<1> HIDE DEF grown
<1>3. FirstIn(grown, last + 1) = f
  BY <1>2, FirstOfInterval
<1>4. HistoryOK(grown, last + 1)
  BY <1>2 DEF HistoryOK
<1>5. Cardinality(grown) = (last + 1) + 1 - f
  BY <1>2, <1>3, <1>4, HistoryLength
<1> QED BY <1>1, <1>3, <1>5 DEF f, grown

\* When the oldest change makes room for it, the history starts one number later.
LEMMA HistoryShifts ==
    ASSUME NEW history, NEW last \in Nat, HistoryOK(history, last), history # {}
    PROVE  LET shifted == (history \ {Min(history)}) \cup {last + 1}
           IN  /\ FirstIn(history, last) = Min(history)
               /\ FirstIn(shifted, last + 1) = Min(history) + 1
               /\ Cardinality(shifted) = Cardinality(history)
<1> DEFINE f == Min(history)
           shifted == (history \ {f}) \cup {last + 1}
<1>1. f \in 1..last /\ history = f..last /\ FirstIn(history, last) = f
  BY HistoryIsInterval DEF FirstIn
<1>2. Cardinality(history) = last + 1 - f
  BY <1>1, HistoryLength
<1> HIDE DEF f
<1>3. last + 1 \in Nat /\ f + 1 \in 1..((last + 1) + 1) /\ shifted = (f + 1)..(last + 1)
  BY <1>1
<1> HIDE DEF shifted
<1>4. FirstIn(shifted, last + 1) = f + 1
  BY <1>3, FirstOfInterval
<1>5. HistoryOK(shifted, last + 1)
  BY <1>3 DEF HistoryOK
<1>6. Cardinality(shifted) = (last + 1) + 1 - (f + 1)
  BY <1>3, <1>4, <1>5, HistoryLength
<1> QED BY <1>1, <1>2, <1>4, <1>6 DEF f, shifted

-----------------------------------------------------------------------------
\* What a step of the writer does: it keeps its part of the invariant, sends what every message
\* may say, discards only what the reader has, and adds a change only while the history has
\* room for what the reader does not have.
WriterStepOK ==
    /\ WriterOK'
    /\ \A m \in net' : m \in net \/ MessageOK(m)'
    /\ \A s \in whist \ whist' : s <= Record
    /\ UNCHANGED lastSeq \/ (lastSeq' = lastSeq + 1 /\ lastSeq - Record < HistorySize)

\* Announcements of a history that starts at most one after the record may be sent.
LEMMA AnnouncedIsOK ==
    ASSUME Record \in Nat, UNCHANGED Record, lastSeq' \in Nat,
           FirstIn(whist', lastSeq') \in 1..(Record + 1), NEW m, Announces(m, whist', lastSeq')
    PROVE  MessageOK(m)'
<1>1. CASE m.type = "DATA" /\ m.seq \in 1..lastSeq'
  BY <1>1 DEF MessageOK
<1>2. CASE /\ m.type = "HEARTBEAT" /\ m.first = FirstIn(whist', lastSeq') /\ m.last = lastSeq'
           /\ m.count \in Nat /\ m.final \in BOOLEAN
  <2>1. m.first \in 1..(Record' + 1) /\ m.last \in 0..lastSeq'
    BY <1>2
  <2> QED BY <1>2, <2>1 DEF MessageOK
<1> QED BY <1>1, <1>2 DEF Announces

\* The facts about the writer that every step starts from.
LEMMA WriterFacts ==
    ASSUME ProtocolInv
    PROVE  /\ MaxSeq \in Nat /\ HistorySize \in Nat \ {0}
           /\ ThisReader \in Readers /\ lastSeq \in 0..MaxSeq /\ lastSeq \in Nat
           /\ Record \in 0..lastSeq /\ Record \in Nat
           /\ HistoryOK(whist, lastSeq) /\ ProxiesOK(rp, whist, lastSeq)
           /\ QueuesOK(new_ones, old_ones, whist)
           /\ heartbeat_count_ \in Nat
           /\ Rp.joined = 0 /\ Rp.acked \in 0..Record
           /\ FirstIn(whist, lastSeq) \in 1..(Record + 1)
           /\ FirstIn(whist, lastSeq) \in 1..(lastSeq + 1)
           /\ Cardinality(whist) = lastSeq + 1 - FirstIn(whist, lastSeq)
           /\ Cardinality(whist) <= HistorySize
<1>1. MaxSeq \in Nat /\ HistorySize \in Nat \ {0} /\ ThisReader \in Readers /\ MaxHeartbeats \in Nat
  BY WriterAssumption, ProtocolAssumption
<1>2. /\ lastSeq \in 0..MaxSeq /\ HistoryOK(whist, lastSeq) /\ ProxiesOK(rp, whist, lastSeq)
      /\ QueuesOK(new_ones, old_ones, whist) /\ heartbeat_count_ \in 0..MaxHeartbeats
  BY DEF ProtocolInv, IInv, FlowInv, RestOK
<1>3. Record \in 0..lastSeq
  BY DEF ProtocolInv, ReaderOK
<1>4. lastSeq \in Nat /\ heartbeat_count_ \in Nat /\ Record \in Nat
  BY <1>1, <1>2, <1>3
<1>5. /\ FirstIn(whist, lastSeq) \in 1..(lastSeq + 1)
      /\ Cardinality(whist) = lastSeq + 1 - FirstIn(whist, lastSeq)
  BY <1>2, <1>4, HistoryLength
<1>6. /\ Rp.joined = 0 /\ Rp.acked <= Record /\ FirstIn(whist, lastSeq) <= Record + 1
      /\ Cardinality(whist) <= HistorySize
  BY DEF ProtocolInv, WriterOK
<1>7. Rp.acked \in Nat
  BY <1>1, <1>2, FieldsOfShape DEF ProxiesOK, ProxyOK, Rp
<1> QED BY <1>1, <1>2, <1>3, <1>4, <1>5, <1>6, <1>7

\* A step that leaves the history alone.
LEMMA SameHistoryOK ==
    ASSUME ProtocolInv, UNCHANGED <<whist, lastSeq>>, UNCHANGED Record,
           Rp'.joined = 0, Rp'.acked \in 0..Record, Rp'.active \/ lastSeq = 0,
           UNCHANGED wpc \/ wpc' = "idle" \/ Cardinality(whist) = HistorySize,
           \A m \in net' : m \in net \/ Announces(m, whist, lastSeq)
    PROVE  WriterStepOK
<1>1. /\ Record \in Nat /\ lastSeq \in Nat /\ FirstIn(whist, lastSeq) \in 1..(Record + 1)
      /\ Cardinality(whist) <= HistorySize
  BY WriterFacts
<1>2. WriterOK'
  <2>1. wpc' = "waiting" => Cardinality(whist) = HistorySize
    BY DEF ProtocolInv, WriterOK
  <2> QED BY <1>1, <2>1 DEF WriterOK
<1>3. ASSUME NEW m, Announces(m, whist, lastSeq) PROVE MessageOK(m)'
  BY <1>1, <1>3, AnnouncedIsOK
<1> QED BY <1>2, <1>3 DEF WriterStepOK

\* write() adds a change while there is room.
LEMMA AdditionOK ==
    ASSUME ProtocolInv, UNCHANGED Record, lastSeq < MaxSeq, Rp.active, wpc' = "idle", ~HistoryFull,
           AddChange(whist, rp, new_ones, old_ones, may_remove_change_)
    PROVE  WriterStepOK
<1> DEFINE f == FirstIn(whist, lastSeq)
<1>1. /\ MaxSeq \in Nat /\ HistorySize \in Nat /\ ThisReader \in Readers /\ lastSeq \in Nat
      /\ Record \in Nat /\ HistoryOK(whist, lastSeq) /\ ProxiesOK(rp, whist, lastSeq)
      /\ heartbeat_count_ \in Nat /\ Rp.joined = 0 /\ Rp.acked \in 0..Record
      /\ f \in 1..(Record + 1) /\ Cardinality(whist) = lastSeq + 1 - f
      /\ Cardinality(whist) <= HistorySize
  BY WriterFacts
<1>2. /\ lastSeq' = lastSeq + 1 /\ whist' = whist \cup {lastSeq + 1}
      /\ \A r \in Readers : SamePast(rp[r], rp'[r])
      /\ \A m \in net' : m \in net \/ Announces(m, whist', lastSeq')
  BY <1>1, AddChangeAnnounces
<1>3. FirstIn(whist', lastSeq') = f /\ Cardinality(whist') = Cardinality(whist) + 1
  BY <1>1, <1>2, HistoryGrows
<1> HIDE DEF f
<1>4. Cardinality(whist) # HistorySize
  BY DEF HistoryFull
<1>5. Rp'.active = Rp.active /\ Rp'.joined = Rp.joined /\ Rp'.acked = Rp.acked
  BY <1>1, <1>2 DEF SamePast, Rp
<1>6. Cardinality(whist') <= HistorySize /\ lastSeq - Record < HistorySize /\ f <= Record + 1
  BY <1>1, <1>3, <1>4
<1>7. WriterOK'
  BY <1>1, <1>3, <1>5, <1>6 DEF WriterOK
<1>8. lastSeq' \in Nat /\ FirstIn(whist', lastSeq') \in 1..(Record + 1)
  BY <1>1, <1>2, <1>3
<1>9. \A m \in net' : m \in net \/ MessageOK(m)'
  BY <1>1, <1>2, <1>8, AnnouncedIsOK
<1> QED BY <1>2, <1>6, <1>7, <1>9 DEF WriterStepOK

\* It replaces the oldest change once that is acknowledged, which the reader then has.
LEMMA ReplacementOK ==
    ASSUME ProtocolInv, UNCHANGED Record, lastSeq < MaxSeq, Rp.active, wpc' = "idle", HistoryFull,
           may_remove_change_ = 1 \/ nextAllAcked - 1 >= Min(whist), ReplaceOldest
    PROVE  WriterStepOK
<1> DEFINE f == Min(whist)
           rest == whist \ {f}
           others == [r \in Readers |-> change_has_been_removed(rp[r], f)]
<1>1. /\ MaxSeq \in Nat /\ HistorySize \in Nat \ {0} /\ ThisReader \in Readers
      /\ lastSeq \in 0..MaxSeq /\ lastSeq \in Nat /\ Record \in Nat
      /\ HistoryOK(whist, lastSeq) /\ ProxiesOK(rp, whist, lastSeq)
      /\ heartbeat_count_ \in Nat /\ Rp.joined = 0 /\ Rp.acked \in 0..Record
      /\ Cardinality(whist) = lastSeq + 1 - FirstIn(whist, lastSeq)
  BY WriterFacts
<1>2. Cardinality(whist) = HistorySize
  BY DEF HistoryFull
<1>3. whist # {}
  BY <1>1, <1>2, FS_EmptySet
<1>4. f \in 1..lastSeq /\ f <= Record
  <2>1. f \in 1..lastSeq
    BY <1>1, <1>3, HistoryIsInterval
  <2>2. \A r \in Matched(rp) : Covered(rp[r], f)
    BY <1>1, <1>3, ReplacementIsCovered DEF ProtocolInv
  <2>3. Covered(Rp, f)
    BY <1>1, <2>2 DEF Rp, Matched
  <2> HIDE DEF f
  <2> QED BY <1>1, <2>1, <2>3 DEF Covered
<1>5. /\ ProxiesOK(others, rest, lastSeq) /\ HistoryOK(rest, lastSeq)
      /\ \A r \in Readers : SamePast(rp[r], others[r])
  <2>1. \A r \in Matched(rp) : Covered(rp[r], Min(whist))
    BY <1>1, <1>3, ReplacementIsCovered DEF ProtocolInv
  <2> QED BY <1>1, <1>3, <2>1, RemovalKeeps
<1>6. AddChange(rest, others, remove_change(new_ones, f), remove_change(old_ones, f), 2)
  BY Zenon DEF ReplaceOldest
<1> HIDE DEF rest, others
<1>7. /\ lastSeq' = lastSeq + 1 /\ whist' = rest \cup {lastSeq + 1}
      /\ \A r \in Readers : SamePast(others[r], rp'[r])
      /\ \A m \in net' : m \in net \/ Announces(m, whist', lastSeq')
  BY <1>1, <1>5, <1>6, AddChangeAnnounces
<1>8. /\ FirstIn(whist, lastSeq) = f /\ FirstIn(whist', lastSeq') = f + 1
      /\ Cardinality(whist') = Cardinality(whist)
  BY <1>1, <1>3, <1>7, HistoryShifts DEF rest
<1> HIDE DEF f
<1>9. Rp'.active = Rp.active /\ Rp'.joined = Rp.joined /\ Rp'.acked = Rp.acked
  BY <1>1, <1>5, <1>7 DEF SamePast, Rp
<1>10. lastSeq - Record < HistorySize /\ f + 1 \in 1..(Record + 1) /\ lastSeq' \in Nat
  BY <1>1, <1>2, <1>4, <1>7, <1>8
<1>11. WriterOK'
  BY <1>1, <1>2, <1>8, <1>9, <1>10 DEF WriterOK
<1>12. \A m \in net' : m \in net \/ MessageOK(m)'
  BY <1>1, <1>7, <1>8, <1>10, AnnouncedIsOK
<1>13. \A s \in whist \ whist' : s <= Record
  <2>1. \A s \in whist \ whist' : s = f
    BY <1>7 DEF rest
  <2> QED BY <1>4, <2>1
<1> QED BY <1>7, <1>10, <1>11, <1>12, <1>13 DEF WriterStepOK

\* The flow controller's thread sends what is linked, a change of the history.
LEMMA QueuedOK ==
    ASSUME ProtocolInv, UNCHANGED Record, SendQueued \/ SendQueuedFails
    PROVE  WriterStepOK
<1> DEFINE s == get_next_change
<1>1. /\ ThisReader \in Readers /\ lastSeq \in Nat
      /\ HistoryOK(whist, lastSeq) /\ ProxiesOK(rp, whist, lastSeq)
      /\ QueuesOK(new_ones, old_ones, whist)
      /\ heartbeat_count_ \in Nat /\ Rp.joined = 0 /\ Rp.acked \in 0..Record
  BY WriterFacts
<1>2. /\ Linked # {} /\ UNCHANGED <<whist, lastSeq, wpc>>
      /\ \/ deliver_sample(s, rp, whist, lastSeq, may_remove_change_)
         \/ delivery_fails(s, rp, whist, lastSeq, may_remove_change_)
  BY Zenon DEF SendQueued, SendQueuedFails
<1>3. s \in Linked
  BY <1>1, <1>2, NextIsLinked
<1> HIDE DEF s
<1>4. s \in whist
  BY <1>1, <1>3 DEF Linked, QueuesOK
<1>5. s \in 1..lastSeq
  BY <1>1, <1>4 DEF HistoryOK
<1>6. /\ \A r \in Readers : SamePast(rp[r], rp'[r])
      /\ \A m \in net' : m \in net \/ Announces(m, whist, lastSeq)
  BY <1>1, <1>2, <1>5, DeliveryAnnounces
<1>7. Rp'.active = Rp.active /\ Rp'.joined = Rp.joined /\ Rp'.acked = Rp.acked
  BY <1>1, <1>6 DEF SamePast, Rp
<1>8. Rp.active \/ lastSeq = 0
  BY DEF ProtocolInv, WriterOK
<1>9. Rp'.joined = 0 /\ Rp'.acked \in 0..Record /\ (Rp'.active \/ lastSeq = 0)
  BY <1>1, <1>7, <1>8
<1> QED BY <1>2, <1>6, <1>9, SameHistoryOK

\* The reader is matched before the first change is written.
LEMMA JoinOK ==
    ASSUME ProtocolInv, UNCHANGED Record, matched_reader_add(ThisReader)
    PROVE  WriterStepOK
<1>1. /\ ThisReader \in Readers /\ lastSeq \in Nat /\ HistoryOK(whist, lastSeq)
      /\ Record \in Nat /\ heartbeat_count_ \in Nat /\ ProxiesOK(rp, whist, lastSeq)
  BY WriterFacts
<1>2. /\ ~Rp.active /\ rp' = [rp EXCEPT ![ThisReader] = Joined(whist, lastSeq)]
      /\ net' = net \cup HeartbeatTo({ThisReader}, whist, lastSeq)
      /\ UNCHANGED <<whist, lastSeq, wpc>>
  BY Zenon DEF matched_reader_add, Joined, Rp
<1>3. lastSeq = 0 /\ whist = {}
  <2>1. lastSeq = 0
    BY <1>2 DEF ProtocolInv, WriterOK
  <2> QED BY <1>1, <2>1 DEF HistoryOK
<1>4. Joined(whist, lastSeq).joined = 0 /\ Joined(whist, lastSeq).acked = 0
  BY <1>3 DEF Joined, start, Rewind, NoProxy
<1>5. Rp' = Joined(whist, lastSeq)
  BY <1>1, <1>2 DEF ProxiesOK, Rp
<1>6. Rp'.joined = 0 /\ Rp'.acked \in 0..Record
  BY <1>1, <1>4, <1>5
<1>7. \A m \in net' : m \in net \/ Announces(m, whist, lastSeq)
  BY <1>1, <1>2, HeartbeatAnnounces
<1> QED BY <1>2, <1>3, <1>6, <1>7, SameHistoryOK

\* The timers of the writer resend nothing themselves, and announce the history.
LEMMA WriterTimersOK ==
    ASSUME ProtocolInv, UNCHANGED Record, Timers
    PROVE  WriterStepOK
<1>1. /\ ThisReader \in Readers /\ heartbeat_count_ \in Nat /\ ProxiesOK(rp, whist, lastSeq)
      /\ Rp.joined = 0 /\ Rp.acked \in 0..Record
  BY WriterFacts
<1>2. Rp.active \/ lastSeq = 0
  BY DEF ProtocolInv, WriterOK
<1>3. ASSUME UNCHANGED <<whist, lastSeq, wpc>>, SamePast(Rp, Rp'),
             \A m \in net' : m \in net \/ Announces(m, whist, lastSeq)
      PROVE  WriterStepOK
  <2>1. Rp'.joined = 0 /\ Rp'.acked \in 0..Record /\ (Rp'.active \/ lastSeq = 0)
    BY <1>1, <1>2, <1>3 DEF SamePast
  <2> QED BY <1>3, <2>1, SameHistoryOK
<1>4. ASSUME NEW r \in Readers,
             NEW previous \in ChangeStatus \ {"none"}, NEW next \in ChangeStatus \ {"none"}
      PROVE  /\ Shape(convert_status_on_all_changes(rp[r], previous, next))
             /\ SamePast(rp[r], convert_status_on_all_changes(rp[r], previous, next))
  <2>1. ProxyOK(rp[r], whist, lastSeq)
    BY <1>1 DEF ProxiesOK
  <2> DEFINE q == convert_status_on_all_changes(rp[r], previous, next)
  <2>2. ProxyOK(q, whist, lastSeq) /\ SamePast(rp[r], q)
    BY <2>1, ConvertKeeps
  <2> QED BY <2>2 DEF ProxyOK
<1>5. {"REQUESTED", "UNSENT", "UNDERWAY", "UNACKNOWLEDGED"} \subseteq ChangeStatus \ {"none"}
  BY DEF ChangeStatus
<1>6. CASE perform_nack_response
  <2>1. /\ rp' = [r \in Readers |-> convert_status_on_all_changes(rp[r], "REQUESTED", "UNSENT")]
        /\ UNCHANGED <<whist, lastSeq, wpc, net>>
    BY <1>6, Zenon DEF perform_nack_response
  <2>2. Rp' = convert_status_on_all_changes(Rp, "REQUESTED", "UNSENT")
    BY <1>1, <2>1 DEF Rp
  <2>3. SamePast(Rp, Rp')
    BY <1>1, <1>4, <1>5, <2>2 DEF Rp
  <2> QED BY <1>3, <2>1, <2>3
<1>7. ASSUME NEW r \in Readers, perform_nack_supression(r) PROVE WriterStepOK
  <2> DEFINE p == convert_status_on_all_changes(rp[r], "UNDERWAY", "UNACKNOWLEDGED")
             q == [p EXCEPT !.suppression = FALSE]
  <2>1. rp' = [rp EXCEPT ![r] = q] /\ UNCHANGED <<whist, lastSeq, wpc, net>>
    BY <1>7, Zenon DEF perform_nack_supression
  <2>2. r = ThisReader
    BY ProtocolAssumption
  <2>3. Shape(p) /\ SamePast(Rp, p)
    BY <1>4, <1>5, <2>2 DEF Rp
  <2> HIDE DEF p
  <2>4. SamePast(p, q)
    BY <2>3, SuppressionReplaced
  <2> HIDE DEF q
  <2>5. Rp' = q
    BY <1>1, <2>1, <2>2 DEF ProxiesOK, Rp
  <2>6. SamePast(Rp, Rp')
    BY <2>3, <2>4, <2>5 DEF SamePast
  <2> QED BY <1>3, <2>1, <2>6
<1>8. CASE send_periodic_heartbeat
  <2>1. /\ UNCHANGED <<whist, lastSeq, rp, wpc>>
        /\ \E rs : net' = net \cup HeartbeatTo(rs, whist, lastSeq)
    BY <1>8, Zenon DEF send_periodic_heartbeat
  <2>2. \A m \in net' : m \in net \/ Announces(m, whist, lastSeq)
    BY <1>1, <2>1, HeartbeatAnnounces
  <2>3. SamePast(Rp, Rp')
    BY <2>1 DEF Rp, SamePast
  <2> QED BY <1>3, <2>1, <2>2, <2>3
<1> QED BY <1>6, <1>7, <1>8 DEF Timers

\* Every step of the writer.
LEMMA WriterStepIsOK ==
    ASSUME ProtocolInv, WriterStep
    PROVE  IInv' /\ FlowInv' /\ WriterStepOK
<1>1. UNCHANGED Record
  BY DEF WriterStep, readerVars, Record
<1>2. /\ IInv /\ FlowInv /\ (wpc = "waiting" => lastSeq < MaxSeq /\ whist # {})
      /\ (wpc = "waiting" => Cardinality(whist) = HistorySize) /\ (Rp.active \/ lastSeq = 0)
  BY DEF ProtocolInv, IInv, WriterOK
<1>3. OwnStep /\ WriterNext
  BY ProtocolAssumption, Zenon DEF WriterStep, Publish, OwnStep, Discovery, WriterNext
<1>4. IInv' /\ FlowInv'
  BY <1>2, <1>3, StepKeeps, OwnStepMoves
<1> SUFFICES WriterStepOK
  BY <1>4
<1>5. CASE Publish
  <2>1. wpc = "idle" /\ lastSeq < MaxSeq /\ Rp.active
    BY <1>5, Zenon DEF Publish, write, Rp
  <2>2. CASE ~HistoryFull /\ AddChange(whist, rp, new_ones, old_ones, may_remove_change_) /\ UNCHANGED wpc
    BY <1>1, <2>1, <2>2, AdditionOK
  <2>3. CASE HistoryFull /\ nextAllAcked - 1 >= Min(whist) /\ ReplaceOldest /\ UNCHANGED wpc
    BY <1>1, <2>1, <2>3, ReplacementOK
  <2>4. CASE HistoryFull /\ UNCHANGED <<whist, lastSeq, rp, net>>
    <3>1. Rp'.joined = 0 /\ Rp'.acked \in 0..Record /\ Rp'.active
      BY <2>1, <2>4, WriterFacts DEF Rp
    <3> QED BY <1>1, <2>4, <3>1, SameHistoryOK DEF HistoryFull
  <2> QED BY <1>5, <2>2, <2>3, <2>4, Zenon DEF Publish, write
<1>6. CASE RoomAppears
  <2>1. wpc = "waiting" /\ may_remove_change_ = 1 /\ wpc' = "idle" /\ ReplaceOldest
    BY <1>6 DEF RoomAppears
  <2>2. HistoryFull /\ lastSeq < MaxSeq
    BY <1>2, <2>1 DEF HistoryFull
  <2>3. Rp.active
    <3>1. lastSeq # 0
      BY <1>2, <2>1 DEF IInv, HistoryOK
    <3> QED BY <1>2, <3>1
  <2> QED BY <1>1, <2>1, <2>2, <2>3, ReplacementOK
<1>7. CASE WriteTimesOut
  <2>1. wpc' = "idle" /\ UNCHANGED <<whist, lastSeq, rp, net>>
    BY <1>7 DEF WriteTimesOut
  <2>2. Rp'.joined = 0 /\ Rp'.acked \in 0..Record /\ (Rp'.active \/ lastSeq = 0)
    BY <1>2, <2>1, WriterFacts DEF Rp
  <2> QED BY <1>1, <2>1, <2>2, SameHistoryOK
<1> QED BY <1>1, <1>5, <1>6, <1>7, QueuedOK, JoinOK, WriterTimersOK DEF WriterStep

-----------------------------------------------------------------------------
\* What the channel does in a step: nothing, a sample more is written, or the next is taken; and
\* what the writer discards the reader has.
ChannelStep ==
    /\ \A s \in whist \ whist' : s <= Record
    /\ \/ UNCHANGED <<lastSeq, taken>>
       \/ lastSeq' = lastSeq + 1 /\ lastSeq - Record < HistorySize /\ UNCHANGED taken
       \/ /\ UNCHANGED lastSeq
          /\ \E k \in 0..(Record - 1) : /\ taken = {ThisWriter} \X (1..k)
                                        /\ taken' = {ThisWriter} \X (1..(k + 1))

\* A message that is right stays so, however late it arrives.
LEMMA MessagesStayOK ==
    ASSUME Record \in Nat, Record' \in Nat, Record <= Record', lastSeq \in Nat, lastSeq' \in Nat,
           lastSeq <= lastSeq', NEW m, MessageOK(m)
    PROVE  MessageOK(m)'
<1>1. \A a, b \in Nat : a <= b => 1..a \subseteq 1..b /\ 0..a \subseteq 0..b
  OBVIOUS
<1>2. \A a, b \in Nat : a <= b => 1..(a + 1) \subseteq 1..(b + 1) /\ 0..(a + 1) \subseteq 0..(b + 1)
  OBVIOUS
<1>3. /\ 1..lastSeq \subseteq 1..lastSeq' /\ 0..lastSeq \subseteq 0..lastSeq'
      /\ 1..(Record + 1) \subseteq 1..(Record' + 1) /\ 0..(Record + 1) \subseteq 0..(Record' + 1)
  BY <1>1, <1>2, Zenon
<1> QED BY <1>3, Zenon DEF MessageOK

\* The reader's part holds while only the last number grows.
LEMMA ReaderUntouched ==
    ASSUME ReaderOK, SamplesOK, UNCHANGED readerVars, lastSeq \in Nat, lastSeq' \in Nat,
           lastSeq <= lastSeq'
    PROVE  ReaderOK' /\ SamplesOK' /\ UNCHANGED <<Record, taken>>
<1>1. /\ UNCHANGED <<wp, history_record, hist, acknack_count_, taken, irrelevant, lost>>
      /\ Wp' = Wp /\ Record' = Record
  BY DEF readerVars, Wp, Record
<1>2. Wp.max \in Nat /\ Record \in 0..lastSeq /\ (Wp.alive => Wp.max <= lastSeq)
  BY DEF ReaderOK, Marks, R!WriterProxyType
<1>3. Record' \in 0..lastSeq' /\ (Wp.alive => Wp.max <= lastSeq')
  BY <1>1, <1>2
<1>4. Marks(Wp')
  BY <1>1 DEF ReaderOK
<1>5. ReaderOK'
  BY <1>1, <1>3, <1>4 DEF ReaderOK
<1>6. SamplesOK'
  <2>1. \A k : Delivered(k) => Delivered(k)'
    BY <1>1 DEF Delivered
  <2> QED BY <1>1, <2>1 DEF SamplesOK
<1> QED BY <1>1, <1>5, <1>6

\* A step of the writer keeps the invariant of the protocol.
LEMMA WriterSide ==
    ASSUME ProtocolInv, UNCHANGED readerVars, IInv', FlowInv', WriterStepOK
    PROVE  ProtocolInv' /\ ChannelStep
<1>1. ReaderOK /\ SamplesOK /\ \A m \in net : MessageOK(m)
  BY DEF ProtocolInv
<1>2. /\ WriterOK' /\ \A m \in net' : m \in net \/ MessageOK(m)'
      /\ \A s \in whist \ whist' : s <= Record
      /\ UNCHANGED lastSeq \/ (lastSeq' = lastSeq + 1 /\ lastSeq - Record < HistorySize)
  BY DEF WriterStepOK
<1>3. lastSeq \in Nat /\ Record \in Nat
  BY WriterFacts
<1>4. lastSeq' \in Nat /\ lastSeq <= lastSeq'
  BY <1>2, <1>3
<1>5. ReaderOK' /\ SamplesOK' /\ UNCHANGED <<Record, taken>>
  BY <1>1, <1>3, <1>4, ReaderUntouched
<1>6. Record' \in Nat /\ Record <= Record'
  BY <1>3, <1>5
<1>7. \A m \in net' : MessageOK(m)'
  BY <1>1, <1>2, <1>3, <1>4, <1>6, MessagesStayOK
<1>8. ChannelStep
  BY <1>2, <1>5 DEF ChannelStep
<1> QED BY <1>2, <1>5, <1>7, <1>8 DEF ProtocolInv

\* So does a step of the reader.
LEMMA ReaderSide ==
    ASSUME ProtocolInv, UNCHANGED writerVars, ReaderStepOK
    PROVE  ProtocolInv' /\ ChannelStep
<1>1. /\ IInv /\ FlowInv /\ WriterOK /\ \A m \in net : MessageOK(m)
  BY DEF ProtocolInv
<1>2. /\ ReaderOK' /\ SamplesOK' /\ Record <= Record'
      /\ \A m \in net' : m \in net \/ MessageOK(m)'
      /\ \/ UNCHANGED taken
         \/ \E k \in 0..(Record - 1) : /\ taken = {ThisWriter} \X (1..k)
                                       /\ taken' = {ThisWriter} \X (1..(k + 1))
  BY DEF ReaderStepOK
<1>3. UNCHANGED <<whist, lastSeq, rp, nextAllAcked, may_remove_change_, wpc>>
  BY DEF writerVars
<1>4. IInv' /\ FlowInv'
  BY <1>1, <1>3, OwnStepMoves DEF IInv
<1>5. /\ lastSeq \in Nat /\ lastSeq' \in Nat /\ lastSeq <= lastSeq'
      /\ Record \in Nat /\ Record' \in Nat /\ Rp.acked \in Nat
      /\ FirstIn(whist, lastSeq) \in Nat
  BY <1>2, <1>3, WriterFacts, SMTT(30) DEF ReaderOK
<1>6. WriterOK'
  <2>1. Rp' = Rp
    BY <1>3 DEF Rp
  <2>2. Rp.acked <= Record' /\ FirstIn(whist, lastSeq) <= Record' + 1
    BY <1>1, <1>2, <1>5 DEF WriterOK
  <2> QED BY <1>1, <1>3, <2>1, <2>2 DEF WriterOK
<1>7. \A m \in net' : MessageOK(m)'
  BY <1>1, <1>2, <1>5, MessagesStayOK
<1>8. ChannelStep
  BY <1>2, <1>3 DEF ChannelStep
<1> QED BY <1>2, <1>4, <1>6, <1>7, <1>8 DEF ProtocolInv

\* The writer receives an ACKNACK, however old: it acknowledges only what the reader has.
LEMMA AckNackOK ==
    ASSUME ProtocolInv, NEW m \in net, WriterReceives(m), net' = net \cup AckNackReply(m)
    PROVE  IInv' /\ FlowInv' /\ WriterStepOK
<1>1. m.type = "ACKNACK" /\ process_acknack(m) /\ UNCHANGED Record
  BY DEF WriterReceives, readerVars, Record
<1>2. /\ m.reader = ThisReader /\ m.base \in 0..(Record + 1) /\ m.count \in Nat
      /\ (m.base = 0 => ~m.final)
  BY <1>1 DEF ProtocolInv, MessageOK
<1>3. /\ MaxSeq \in Nat /\ ThisReader \in Readers /\ Record \in 0..lastSeq /\ lastSeq \in Nat
      /\ heartbeat_count_ \in Nat /\ Rp.joined = 0 /\ Rp.acked \in 0..Record
  BY WriterFacts
<1>4. MaxHeartbeats \in Nat /\ IInv /\ FlowInv /\ (Rp.active \/ lastSeq = 0)
  BY WriterAssumption DEF ProtocolInv, WriterOK
<1>5. m.reader \in Readers /\ m.base \in 0..(lastSeq + 1)
  BY <1>2, <1>3
<1>6. /\ ProxiesOK(rp', whist, lastSeq)
      /\ MarksOK(rp', whist, lastSeq, nextAllAcked', may_remove_change_')
      /\ UNCHANGED <<whist, lastSeq, wpc>>
      /\ Rp'.active = Rp.active /\ Rp'.joined = Rp.joined
      /\ Rp'.acked = Max({Rp.acked, m.base - 1})
  BY <1>1, <1>2, <1>3, <1>4, <1>5, AckNackKeeps DEF Rp
<1>7. IInv' /\ FlowInv'
  <2>1. IInv'
    BY <1>4, <1>6 DEF IInv
  <2>2. FlowInv'
    BY <1>1, <1>2, <1>3, <1>4, <1>5, AckNackMoves
  <2> QED BY <2>1, <2>2
<1>8. Rp'.acked \in 0..Record
  <2> DEFINE a == Rp.acked
             b == m.base - 1
  <2>1. a \in Int /\ b \in Int /\ a \in 0..Record /\ b <= Record /\ Rp'.acked = Max({a, b})
    BY <1>2, <1>3, <1>6
  <2> HIDE DEF a, b
  <2>2. Max({a, b}) \in {a, b} /\ Max({a, b}) >= a
    BY <2>1, MaxOfTwo
  <2> QED BY <1>3, <2>1, <2>2
<1>9. \A x \in net' : x \in net \/ Announces(x, whist, lastSeq)
  <2>1. \A x \in AckNackReply(m) : x \in HeartbeatTo({m.reader}, whist, lastSeq)
    BY Zenon DEF AckNackReply
  <2> QED BY <1>3, <2>1, HeartbeatAnnounces
<1> QED BY <1>1, <1>3, <1>4, <1>6, <1>7, <1>8, <1>9, SameHistoryOK

-----------------------------------------------------------------------------
\* The invariant holds at first.
LEMMA ProtocolStarts == ProtocolInit => ProtocolInv
<1> SUFFICES ASSUME ProtocolInit PROVE ProtocolInv
  OBVIOUS
<1>1. WriterInit /\ R!ReaderInit /\ net = {}
  BY DEF ProtocolInit
<1>2. IInv /\ FlowInv
  BY <1>1, InitIInv, InitFlowInv DEF Init
<1>3. /\ wp = [w \in {ThisWriter} |-> R!stop] /\ history_record = [w \in {ThisWriter} |-> 0]
      /\ hist = {} /\ acknack_count_ = 0 /\ taken = {} /\ irrelevant = {} /\ lost = {}
  BY <1>1 DEF R!ReaderInit
<1>4. Wp = R!stop /\ Record = 0
  BY <1>3 DEF Wp, Record
<1>5. /\ R!stop \in R!WriterProxyType /\ ~R!stop.alive /\ R!stop.low = 0 /\ R!stop.max = 0
      /\ R!stop.received = {}
  BY DEF R!stop, R!WriterProxyType
<1>6. lastSeq = 0 /\ whist = {} /\ wpc = "idle" /\ rp = [r \in Readers |-> NoProxy]
  BY <1>1 DEF WriterInit
<1>7. ReaderOK
  BY <1>3, <1>4, <1>5, <1>6 DEF ReaderOK, Marks
<1>8. SamplesOK
  <2>1. Delivered(0)
    BY <1>3, <1>4, <1>5 DEF Delivered
  <2>2. IsFiniteSet(hist) /\ Cardinality(hist) = 0
    BY <1>3, FS_EmptySet
  <2> QED BY <1>4, <2>1, <2>2, ProtocolAssumption DEF SamplesOK
<1>9. WriterOK
  <2>1. Rp.joined = 0 /\ Rp.acked = 0
    BY <1>6, ProtocolAssumption DEF Rp, NoProxy
  <2>2. Cardinality(whist) = 0 /\ FirstIn(whist, lastSeq) = 1
    BY <1>6, FS_EmptySet DEF FirstIn
  <2> QED BY <1>4, <1>6, <2>1, <2>2, WriterAssumption DEF WriterOK
<1> QED BY <1>1, <1>2, <1>7, <1>8, <1>9 DEF ProtocolInv

\* Every step keeps it, and is a step of the channel.
LEMMA ProtocolStepKeeps ==
    ASSUME ProtocolInv, [ProtocolNext]_protocolVars
    PROVE  ProtocolInv' /\ ChannelStep
<1>1. /\ ReaderOK /\ SamplesOK /\ \A m \in net : MessageOK(m)
  BY DEF ProtocolInv
<1>2. lastSeq \in 0..MaxSeq /\ lastSeq \in Nat /\ MaxSeq \in Nat
  BY WriterFacts
<1>3. CASE WriterStep
  <2>1. UNCHANGED readerVars
    BY <1>3 DEF WriterStep
  <2> QED BY <1>3, <2>1, WriterStepIsOK, WriterSide
<1>4. ASSUME UNCHANGED writerVars PROVE UNCHANGED lastSeq
  BY <1>4 DEF writerVars
<1>5. CASE ReaderStep
  <2>1. UNCHANGED writerVars /\ UNCHANGED lastSeq
    BY <1>4, <1>5 DEF ReaderStep
  <2>2. ReaderStepOK
    BY <1>1, <1>2, <1>5, <2>1, MatchedOK, UnmatchedOK, TakeOK, TimersOK DEF ReaderStep
  <2> QED BY <2>1, <2>2, ReaderSide
<1>6. ASSUME NEW m \in net, ReaderReceives(m), UNCHANGED net PROVE ProtocolInv' /\ ChannelStep
  <2>1. UNCHANGED writerVars /\ UNCHANGED <<lastSeq, net>> /\ MessageOK(m)
    BY <1>1, <1>4, <1>6 DEF ReaderReceives
  <2>2. CASE m.type = "DATA" /\ R!process_data_msg(ThisWriter, m.seq)
    <3>1. m.seq \in 1..lastSeq
      BY <2>1, <2>2 DEF MessageOK
    <3>2. ReaderStepOK
      BY <1>1, <1>2, <2>1, <2>2, <3>1, DataOK
    <3> QED BY <2>1, <3>2, ReaderSide
  <2>3. CASE m.type = "HEARTBEAT" /\ R!process_heartbeat_msg(ThisWriter, m)
    <3>1. /\ m.first \in 1..(Record + 1) /\ m.last \in 0..lastSeq
          /\ m.count \in Nat /\ m.final \in BOOLEAN
      BY <2>1, <2>3 DEF MessageOK
    <3>2. ReaderStepOK
      BY <1>1, <1>2, <2>1, <2>3, <3>1, HeartbeatOK
    <3> QED BY <2>1, <3>2, ReaderSide
  <2> QED BY <1>6, <2>2, <2>3 DEF ReaderReceives
<1>7. ASSUME NEW m \in net, WriterReceives(m), net' = net \cup AckNackReply(m)
      PROVE  ProtocolInv' /\ ChannelStep
  <2>1. UNCHANGED readerVars
    BY <1>7 DEF WriterReceives
  <2> QED BY <1>7, <2>1, AckNackOK, WriterSide
<1>8. CASE UNCHANGED protocolVars
  <2>1. UNCHANGED writerVars /\ UNCHANGED readerVars /\ UNCHANGED net
    BY <1>8 DEF protocolVars
  <2>2. ReaderOK' /\ SamplesOK' /\ UNCHANGED <<Record, taken>>
    BY <1>1, <1>2, <1>4, <2>1, ReaderUntouched
  <2>3. Record \in Nat
    BY WriterFacts
  <2>4. ReaderStepOK
    BY <2>1, <2>2, <2>3 DEF ReaderStepOK
  <2> QED BY <2>1, <2>4, ReaderSide
<1> QED BY <1>3, <1>5, <1>6, <1>7, <1>8 DEF ProtocolNext, Arrives

\* The invariant holds throughout.
LEMMA ProtocolInvariance == ProtocolSpec => []ProtocolInv
<1>1. ProtocolInv /\ [ProtocolNext]_protocolVars => ProtocolInv'
  BY ProtocolStepKeeps
<1> QED BY <1>1, ProtocolStarts, PTL DEF ProtocolSpec

\* NothingSkipped: whatever the network does to DATA, HEARTBEAT and ACKNACK, the application
\* takes every sample written, none before an earlier one, and the reader never gives one up as
\* lost (lost_changes_update()) or irrelevant.
THEOREM NothingSkippedHolds == ProtocolSpec => []NothingSkipped
<1>1. ASSUME ProtocolInv PROVE NothingSkipped
  <2>1. PICK k \in 0..Record : Delivered(k)
    BY <1>1 DEF ProtocolInv, SamplesOK
  <2>2. taken = {ThisWriter} \X (1..k) /\ k \in Nat
    BY <1>1, <2>1, WriterFacts, SMTT(30) DEF Delivered
  <2>3. ASSUME NEW t \in taken, NEW s \in 1..MaxSeq, s < t[2] PROVE <<ThisWriter, s>> \in taken
    <3>1. t[2] \in 1..k
      BY <2>2
    <3>2. s \in 1..k
      BY <1>1, <2>2, <2>3, <3>1, WriterFacts
    <3> QED BY <2>2, <3>2
  <2>4. lost = {} /\ irrelevant = {}
    BY <1>1 DEF ProtocolInv, ReaderOK
  <2> QED BY <2>3, <2>4 DEF NothingSkipped
<1> QED BY <1>1, ProtocolInvariance, PTL

\* WriterNeverStalls: as for the writer on its own, with the ACKNACKs a reader really sends.
THEOREM WriterNeverStallsHolds ==
    ASSUME ~SendMayTimeOut PROVE ProtocolSpec => []WriterNeverStalls
<1>1. ProtocolInv => WriterNeverStalls
  BY DEF ProtocolInv, FlowInv, AllMoving, Moving, NothingStalls, WriterNeverStalls
<1> QED BY <1>1, ProtocolInvariance, PTL

\* DiscardedIsDelivered: the writer's history lets a sample go only once the reader has it, for
\* its application or taken by it, even when a stale or duplicate ACKNACK decides.
THEOREM DiscardedIsDeliveredHolds == ProtocolSpec => DiscardedIsDelivered
<1>1. ASSUME ProtocolInv, ChannelStep, NEW s \in whist \ whist'
      PROVE  Has(s) /\ s <= history_record[ThisWriter]
  <2>1. s <= Record
    BY <1>1 DEF ChannelStep
  <2>2. lastSeq \in Nat /\ Record \in Nat /\ HistoryOK(whist, lastSeq)
    BY <1>1, WriterFacts
  <2>3. s \in Nat \ {0}
    BY <1>1, <2>2 DEF HistoryOK
  <2>4. PICK k \in 0..Record : Delivered(k)
    BY <1>1 DEF ProtocolInv, SamplesOK
  <2>5. s \in 1..k \/ s \in (k + 1)..Record
    BY <2>1, <2>2, <2>3
  <2>6. Has(s)
    BY <2>4, <2>5 DEF Has, Delivered
  <2> QED BY <2>1, <2>6 DEF Record
<1>2. ASSUME ProtocolInv, [ProtocolNext]_protocolVars
      PROVE  [\A s \in whist \ whist' : Has(s) /\ s <= history_record[ThisWriter]]_protocolVars
  BY <1>1, <1>2, ProtocolStepKeeps
<1> QED BY <1>2, ProtocolInvariance, PTL DEF ProtocolSpec, DiscardedIsDelivered

-----------------------------------------------------------------------------
\* When the first k samples are taken, the channel has received k.
LEMMA TakenIsReceived ==
    ASSUME NEW k \in Nat, NEW samples, samples = {ThisWriter} \X (1..k)
    PROVE  Max({0} \cup {t[2] : t \in samples}) = k
<1> DEFINE T == {0} \cup {t[2] : t \in samples}
<1>1. T = 0..k
  <2>1. \A n \in 1..k : <<ThisWriter, n>> \in samples /\ <<ThisWriter, n>>[2] = n
    OBVIOUS
  <2>2. \A t \in samples : t[2] \in 1..k
    OBVIOUS
  <2>3. \A n \in T : n \in 0..k
    BY <2>2
  <2>4. \A n \in 0..k : n \in T
    <3>1. \A n \in 1..k : n \in {t[2] : t \in samples}
      BY <2>1, Zenon
    <3>2. \A n \in 0..k : n = 0 \/ n \in 1..k
      OBVIOUS
    <3> QED BY <3>1, <3>2, Zenon
  <2> QED BY <2>3, <2>4, Zenon
<1>2. Max(T) = Max(0..k)
  BY <1>1
<1>3. k \in 0..k /\ \A y \in 0..k : k >= y
  OBVIOUS
<1>4. \A x \in 0..k : (\A y \in 0..k : x >= y) => x = k
  OBVIOUS
<1>5. Max(0..k) = k
  BY <1>3, <1>4 DEF Max
<1> QED BY <1>2, <1>5

\* Between the record and what is taken lies at most what the reader's history holds.
LEMMA ReaderHoldsRest ==
    ASSUME NEW k \in 0..Record, Record \in Nat, Delivered(k), IsFiniteSet(hist),
           Cardinality(hist) <= MaxSamples, MaxSamples \in Nat
    PROVE  Record - k <= MaxSamples
<1> DEFINE unread == (k + 1)..Record
           held == {ThisWriter} \X unread
<1>1. held \subseteq hist
  BY DEF Delivered
<1>2. IsFiniteSet(unread) /\ Cardinality(unread) = Record - k
  <2>1. k + 1 \in Int /\ Record \in Int
    OBVIOUS
  <2>2. IsFiniteSet(unread) /\ Cardinality(unread) = IF k + 1 > Record THEN 0 ELSE Record - (k + 1) + 1
    BY <2>1, FS_Interval
  <2> QED BY <2>2
<1>3. IsFiniteSet({ThisWriter}) /\ Cardinality({ThisWriter}) = 1
  BY FS_Singleton
<1> HIDE DEF unread
<1>4. Cardinality(held) = Cardinality({ThisWriter}) * Cardinality(unread)
  BY <1>2, <1>3, FS_Product
<1> HIDE DEF held
<1>5. Cardinality(held) <= Cardinality(hist)
  BY <1>1, FS_Subset
<1>6. Cardinality(held) = Record - k
  BY <1>2, <1>3, <1>4
<1>7. Cardinality(hist) \in Nat
  BY FS_CardinalityType
<1> QED BY <1>5, <1>6, <1>7

\* ImplementsChannel: the writer, the reader and the network implement a FIFO channel from
\* write() to take_next_sample() that loses, repeats and reorders nothing and holds at most
\* what fits in the two histories.
THEOREM ImplementsChannelHolds == ProtocolSpec => ImplementsChannel
<1>1. ProtocolInit => Channel!Init
  <2> SUFFICES ASSUME ProtocolInit PROVE Channel!Init
    OBVIOUS
  <2>1. lastSeq = 0 /\ taken = {}
    BY DEF ProtocolInit, WriterInit, R!ReaderInit
  <2>2. taken = {ThisWriter} \X (1..0)
    BY <2>1
  <2>3. LastTaken = 0
    BY <2>2, TakenIsReceived DEF LastTaken
  <2> QED BY <2>1, <2>3 DEF Channel!Init
<1>2. ASSUME ProtocolInv, [ProtocolNext]_protocolVars
      PROVE  [Channel!Send \/ Channel!Receive]_Channel!vars
  <2>1. ChannelStep
    BY <1>2, ProtocolStepKeeps
  <2>2. Record \in Nat /\ lastSeq \in Nat /\ Record <= lastSeq /\ HistorySize \in Nat
    BY <1>2, WriterFacts
  <2>3. CASE UNCHANGED <<lastSeq, taken>>
    BY <2>3 DEF Channel!vars, LastTaken
  <2>4. CASE lastSeq' = lastSeq + 1 /\ lastSeq - Record < HistorySize /\ UNCHANGED taken
    <3>1. PICK k \in 0..Record : Delivered(k)
      BY <1>2 DEF ProtocolInv, SamplesOK
    <3>2. LastTaken = k
      BY <2>2, <3>1, TakenIsReceived DEF Delivered, LastTaken
    <3>3. MaxSamples \in Nat
      BY ProtocolAssumption
    <3>4. Record - k <= MaxSamples
      BY <1>2, <2>2, <3>1, <3>3, ReaderHoldsRest DEF ProtocolInv, SamplesOK
    <3>5. lastSeq - LastTaken < HistorySize + MaxSamples
      BY <2>2, <2>4, <3>1, <3>2, <3>3, <3>4
    <3>6. UNCHANGED LastTaken
      BY <2>4 DEF LastTaken
    <3> QED BY <2>4, <3>5, <3>6 DEF Channel!Send
  <2>5. ASSUME UNCHANGED lastSeq, NEW k \in 0..(Record - 1),
               taken = {ThisWriter} \X (1..k), taken' = {ThisWriter} \X (1..(k + 1))
        PROVE  Channel!Receive
    <3>1. k \in Nat /\ k + 1 \in Nat /\ k < lastSeq
      BY <2>2
    <3>2. LastTaken = k
      BY <2>5, <3>1, TakenIsReceived DEF LastTaken
    <3>3. LastTaken' = k + 1
      BY <2>5, <3>1, TakenIsReceived DEF LastTaken
    <3> QED BY <2>5, <3>1, <3>2, <3>3 DEF Channel!Receive
  <2> QED BY <2>1, <2>3, <2>4, <2>5 DEF ChannelStep
<1> QED BY <1>1, <1>2, ProtocolInvariance, PTL DEF ProtocolSpec, ImplementsChannel, Channel!Spec
=============================================================================
