------------------------ MODULE ReliableReaderProofs ------------------------
(***************************************************************************)
(* The reader of ReliableProtocol: what its proxy of the writer, its       *)
(* history and the messages in the network have to do with each other, and *)
(* that everything the reader does keeps it that way, for every history    *)
(* size, every window of an ACKNACK and every number of samples.           *)
(***************************************************************************)
EXTENDS ReliableProtocol, ReaderProxyProofs, FiniteSetTheorems

\* The proxy either side keeps of the other, and the last number the reader has notified.
Wp == wp[ThisWriter]
Rp == rp[ThisReader]
Record == history_record[ThisWriter]

\* The marks of a writer proxy between two calls, and inside one before cleanup().
Marks(p) == p \in R!WriterProxyType /\ p.low <= p.max /\ p.received \subseteq (p.low + 2)..p.max
LooseMarks(p) == p \in R!WriterProxyType /\ p.low <= p.max /\ p.received \subseteq (p.low + 1)..p.max

\* The numbers a proxy counts as settled.
Settled(p) == {s \in Nat : s <= p.low \/ s \in p.received}

\* The reader knows of nothing that was not written, and has given nothing up.
ReaderOK ==
    /\ wp = [w \in {ThisWriter} |-> Wp]
    /\ history_record = [w \in {ThisWriter} |-> Record]
    /\ Record \in 0..lastSeq
    /\ Marks(Wp)
    /\ Wp.alive => Wp.low = Record /\ Wp.max <= lastSeq
    /\ ~Wp.alive => Wp.received = {}
    /\ acknack_count_ \in Nat
    /\ lost = {} /\ irrelevant = {}

\* The application has taken the first k samples, and the reader has exactly the others up to
\* the last one notified and those received out of order.
Delivered(k) ==
    /\ taken = {ThisWriter} \X (1..k)
    /\ hist = {ThisWriter} \X (((k + 1)..Record) \cup Wp.received)

SamplesOK ==
    /\ \E k \in 0..Record : Delivered(k)
    /\ IsFiniteSet(hist) /\ Cardinality(hist) <= MaxSamples

\* Whenever it arrives, a message announces what was written, gives up what the reader has, and
\* acknowledges what the reader has.
MessageOK(m) ==
    \/ m.type = "DATA" /\ m.seq \in 1..lastSeq
    \/ /\ m.type = "HEARTBEAT"
       /\ m.first \in 1..(Record + 1) /\ m.last \in 0..lastSeq
       /\ m.count \in Nat /\ m.final \in BOOLEAN
    \/ /\ m.type = "ACKNACK"
       /\ m.reader = ThisReader /\ m.base \in 0..(Record + 1)
       /\ m.count \in Nat /\ (m.base = 0 => ~m.final)

-----------------------------------------------------------------------------
\* cleanup() puts the marks in order and settles nothing.
LEMMA CleanupSettles ==
    ASSUME NEW p, LooseMarks(p)
    PROVE  LET q == R!cleanup(p)
           IN  /\ Marks(q) /\ q.alive = p.alive /\ q.max = p.max /\ p.low <= q.low
               /\ Settled(q) = Settled(p)
<1> DEFINE f == R!FirstUnsettled(p)
           q == R!cleanup(p)
           T == ((p.low + 1)..(p.max + 1)) \ p.received
<1>1. /\ p \in R!WriterProxyType /\ p.low \in Nat /\ p.max \in Nat /\ p.low <= p.max
      /\ p.received \subseteq (p.low + 1)..p.max
  BY DEF LooseMarks, R!WriterProxyType
<1>2. /\ f \in (p.low + 1)..(p.max + 1) /\ f \notin p.received
      /\ \A s \in (p.low + 1)..(f - 1) : s \in p.received
  <2>1. T \subseteq Nat /\ p.max + 1 \in T
    BY <1>1
  <2>2. f = Min(T)
    BY DEF R!FirstUnsettled, R!Min, Min
  <2>3. Min(T) \in T /\ \A y \in T : Min(T) <= y
    BY <2>1, MinIsLeast
  <2> HIDE DEF T, f
  <2>4. f \in (p.low + 1)..(p.max + 1) /\ f \notin p.received
    BY <2>2, <2>3 DEF T
  <2>5. ASSUME NEW s \in (p.low + 1)..(f - 1) PROVE s \in p.received
    <3>1. s \in (p.low + 1)..(p.max + 1) /\ ~(f <= s)
      BY <1>1, <2>4
    <3>2. s \notin T
      BY <2>2, <2>3, <3>1
    <3> QED BY <3>1, <3>2 DEF T
  <2> QED BY <2>4, <2>5
<1> HIDE DEF f
<1>3. f - 1 \in Nat /\ {s \in p.received : s > f} \in SUBSET Nat
  BY <1>1, <1>2
<1>4. /\ q.low = f - 1 /\ q.received = {s \in p.received : s > f}
      /\ q.max = p.max /\ q.alive = p.alive
  BY <1>1 DEF R!cleanup, R!WriterProxyType, f
<1>5. q \in R!WriterProxyType
  BY <1>1, <1>3 DEF R!cleanup, R!WriterProxyType, f
<1> HIDE DEF q
<1>6. Marks(q)
  BY <1>1, <1>2, <1>4, <1>5 DEF Marks
<1>7. Settled(q) = Settled(p)
  BY <1>1, <1>2, <1>4 DEF Settled
<1> QED BY <1>1, <1>2, <1>4, <1>6, <1>7 DEF q

\* received_change_set() settles the number received.
LEMMA ReceivedSettles ==
    ASSUME NEW p, Marks(p), NEW s \in Nat, s > p.low, s \notin p.received
    PROVE  LET q == R!received_change_set(p, s)
           IN  /\ Marks(q) /\ q.alive = p.alive /\ p.low <= q.low
               /\ q.max \in {s, p.max}
               /\ Settled(q) = Settled(p) \cup {s}
<1> DEFINE q == R!received_change_set(p, s)
           g == [p EXCEPT !.max = R!LargerOf(s, p.max), !.low = s]
<1>1. /\ p \in R!WriterProxyType /\ p.low \in Nat /\ p.max \in Nat /\ p.low <= p.max
      /\ p.received \subseteq (p.low + 2)..p.max
  BY DEF Marks, R!WriterProxyType
<1>2. /\ R!LargerOf(s, p.max) \in Nat /\ R!LargerOf(s, p.max) >= s /\ R!LargerOf(s, p.max) >= p.max
      /\ R!LargerOf(s, p.max) \in {s, p.max}
  BY <1>1 DEF R!LargerOf
<1>3. CASE s = p.low + 1
  <2>1. /\ g \in R!WriterProxyType /\ g.low = s /\ g.max = R!LargerOf(s, p.max)
        /\ g.received = p.received /\ g.alive = p.alive
    BY <1>1, <1>2 DEF R!WriterProxyType
  <2>2. s > p.max => q = g
    BY <1>1, <1>3 DEF R!received_change_set
  <2>3. s <= p.max => q = R!cleanup(g)
    BY <1>1, <1>3 DEF R!received_change_set
  <2> HIDE DEF g, q
  <2>4. LooseMarks(g)
    BY <1>1, <1>2, <1>3, <2>1 DEF LooseMarks
  <2>5. Settled(g) = Settled(p) \cup {s}
    BY <1>1, <1>3, <2>1 DEF Settled
  <2>6. CASE s > p.max
    <3>1. p.received = {}
      BY <1>1, <1>3, <2>6
    <3>2. Marks(g)
      BY <2>1, <2>4, <3>1 DEF Marks, LooseMarks
    <3>3. q = g /\ g.max \in {s, p.max} /\ p.low <= g.low
      BY <1>1, <1>2, <1>3, <2>1, <2>2, <2>6
    <3> QED BY <2>1, <2>5, <3>2, <3>3 DEF q
  <2>7. CASE s <= p.max
    <3>1. q = R!cleanup(g)
      BY <2>3, <2>7
    <3>2. /\ Marks(q) /\ q.alive = g.alive /\ q.max = g.max /\ g.low <= q.low
          /\ Settled(q) = Settled(g)
      BY <2>4, <3>1, CleanupSettles
    <3>3. q.low \in Nat
      BY <3>2 DEF Marks, R!WriterProxyType
    <3>4. p.low <= q.low
      BY <1>1, <1>3, <2>1, <3>2, <3>3
    <3> QED BY <1>2, <2>1, <2>5, <3>2, <3>4 DEF q
  <2> QED BY <1>1, <2>6, <2>7
<1>4. CASE s # p.low + 1
  <2>1. q = [p EXCEPT !.max = R!LargerOf(s, p.max), !.received = p.received \cup {s}]
    BY <1>1, <1>4 DEF R!received_change_set
  <2>2. p.received \cup {s} \in SUBSET Nat
    BY <1>1
  <2>3. /\ q \in R!WriterProxyType /\ q.low = p.low /\ q.max = R!LargerOf(s, p.max)
        /\ q.received = p.received \cup {s} /\ q.alive = p.alive
    BY <1>1, <1>2, <2>1, <2>2 DEF R!WriterProxyType
  <2> HIDE DEF q
  <2>4. s >= p.low + 2
    BY <1>1, <1>4
  <2>5. Marks(q)
    BY <1>1, <1>2, <2>3, <2>4 DEF Marks
  <2>6. Settled(q) = Settled(p) \cup {s}
    BY <1>1, <1>4, <2>3 DEF Settled
  <2> QED BY <1>1, <1>2, <2>3, <2>5, <2>6 DEF q
<1> QED BY <1>3, <1>4

-----------------------------------------------------------------------------
\* What a step of the reader may do: the record only grows, what is sent is right, and the
\* application takes the sample after the last one it took.
ReaderStepOK ==
    /\ ReaderOK' /\ SamplesOK' /\ Record <= Record'
    /\ \A m \in net' : m \in net \/ MessageOK(m)'
    /\ \/ UNCHANGED taken
       \/ \E k \in 0..(Record - 1) : /\ taken = {ThisWriter} \X (1..k)
                                     /\ taken' = {ThisWriter} \X (1..(k + 1))

\* The instance of StatefulReader counts as the writer's module does.
LEMMA SameCardinality == \A S : R!Cardinality(S) = Cardinality(S)
BY DEF R!Cardinality, Cardinality

\* The numbers after k that the proxy counts as settled.
LEMMA SettledAfter ==
    ASSUME NEW p, Marks(p), NEW k \in 0..p.low
    PROVE  ((k + 1)..p.low) \cup p.received = {s \in Settled(p) : s > k}
<1>1. p.low \in Nat /\ p.max \in Nat /\ p.received \subseteq (p.low + 2)..p.max
  BY DEF Marks, R!WriterProxyType
<1> QED BY <1>1 DEF Settled

\* A proxy that has other settings and the same marks.
LEMMA SameMarks ==
    ASSUME NEW p, Marks(p), NEW q, q \in R!WriterProxyType,
           q.low = p.low, q.max = p.max, q.received = p.received
    PROVE  Marks(q)
BY DEF Marks

\* matched_writer_add(): the proxy starts from the record.
LEMMA MatchedOK ==
    ASSUME ReaderOK, SamplesOK, lastSeq \in Nat, UNCHANGED lastSeq, R!matched_writer_add(ThisWriter)
    PROVE  ReaderStepOK
<1>1. /\ ~Wp.alive /\ wp' = [wp EXCEPT ![ThisWriter] = R!start(Record)]
      /\ UNCHANGED <<history_record, hist, acknack_count_, taken, irrelevant, lost, net>>
  BY Zenon DEF R!matched_writer_add, Wp, Record
<1>2. Record' = Record /\ Wp' = R!start(Record) /\ wp' = [w \in {ThisWriter} |-> Wp']
  BY <1>1 DEF ReaderOK, Wp, Record
<1>3. Record \in Nat
  BY DEF ReaderOK
<1>4. /\ Wp' \in R!WriterProxyType /\ Wp'.alive /\ Wp'.low = Record /\ Wp'.max = Record
      /\ Wp'.received = {}
  BY <1>2, <1>3 DEF R!start, R!stop, R!WriterProxyType
<1>5. Marks(Wp')
  BY <1>3, <1>4 DEF Marks
<1>6. ReaderOK'
  BY <1>1, <1>2, <1>4, <1>5 DEF ReaderOK
<1>7. SamplesOK'
  <2>1. Wp.received = {}
    BY <1>1 DEF ReaderOK
  <2>2. \A k : Delivered(k) => Delivered(k)'
    BY <1>1, <1>2, <1>4, <2>1 DEF Delivered
  <2> QED BY <1>1, <1>2, <2>2 DEF SamplesOK
<1> QED BY <1>1, <1>2, <1>3, <1>6, <1>7 DEF ReaderStepOK

\* matched_writer_remove() when the lease is over: what was notified stays.
LEMMA UnmatchedOK ==
    ASSUME ReaderOK, SamplesOK, lastSeq \in Nat, UNCHANGED lastSeq,
           R!matched_writer_remove(ThisWriter, TRUE)
    PROVE  ReaderStepOK
<1>1. /\ Wp.alive /\ wp' = [wp EXCEPT ![ThisWriter] = R!stop]
      /\ hist' = {x \in hist : x[1] = ThisWriter => x[2] <= Record}
      /\ UNCHANGED <<history_record, acknack_count_, taken, irrelevant, lost, net>>
  BY Zenon DEF R!matched_writer_remove, Wp, Record
<1>2. Record' = Record /\ Wp' = R!stop /\ wp' = [w \in {ThisWriter} |-> Wp']
  BY <1>1 DEF ReaderOK, Wp, Record
<1>3. Record \in Nat
  BY DEF ReaderOK
<1>4. Wp' \in R!WriterProxyType /\ Wp'.low = 0 /\ Wp'.max = 0 /\ Wp'.received = {}
  BY <1>2 DEF R!stop, R!WriterProxyType
<1>5. ~Wp'.alive
  BY <1>2 DEF R!stop
<1>6. Marks(Wp')
  BY <1>4 DEF Marks
<1>7. ReaderOK'
  BY <1>1, <1>2, <1>4, <1>5, <1>6 DEF ReaderOK
<1>8. SamplesOK'
  <2>1. PICK k \in 0..Record : Delivered(k)
    BY DEF SamplesOK
  <2>2. Wp.received \subseteq (Record + 2)..Wp.max /\ Wp.max \in Nat
    BY <1>1 DEF ReaderOK, Marks, R!WriterProxyType
  <2>3. hist' = {ThisWriter} \X ((k + 1)..Record)
    BY <1>1, <1>3, <2>1, <2>2 DEF Delivered
  <2>4. Delivered(k)'
    BY <1>1, <1>2, <1>4, <2>1, <2>3 DEF Delivered
  <2>5. IsFiniteSet(hist) /\ hist' \subseteq hist /\ Cardinality(hist) <= MaxSamples
    BY <1>1 DEF SamplesOK
  <2>6. IsFiniteSet(hist') /\ Cardinality(hist') <= MaxSamples
    <3>1. /\ IsFiniteSet(hist') /\ Cardinality(hist') <= Cardinality(hist)
      BY <2>5, FS_Subset
    <3>2. Cardinality(hist') \in Nat /\ Cardinality(hist) \in Nat
      BY <2>5, <3>1, FS_CardinalityType
    <3> QED BY <2>5, <3>1, <3>2, ProtocolAssumption
  <2> QED BY <1>2, <2>4, <2>6 DEF SamplesOK
<1> QED BY <1>1, <1>2, <1>3, <1>7, <1>8 DEF ReaderStepOK

\* take_next_sample() takes the sample after the last one taken.
LEMMA TakeOK ==
    ASSUME ReaderOK, SamplesOK, lastSeq \in 0..MaxSeq, MaxSeq \in Nat, UNCHANGED lastSeq,
           R!take_next_sample
    PROVE  ReaderStepOK
<1> DEFINE ready == {s \in 1..MaxSeq : <<ThisWriter, s>> \in hist /\ R!Available(<<ThisWriter, s>>)}
<1>1. /\ ready # {}
      /\ hist' = hist \ {<<ThisWriter, R!Min(ready)>>}
      /\ taken' = taken \cup {<<ThisWriter, R!Min(ready)>>}
      /\ UNCHANGED <<wp, history_record, acknack_count_, irrelevant, lost, net>>
  BY Zenon DEF R!take_next_sample
<1>2. R!Min(ready) = Min(ready)
  BY DEF R!Min, Min
<1>3. PICK k \in 0..Record : Delivered(k)
  BY DEF SamplesOK
<1>4. /\ Record \in 0..lastSeq /\ Wp.received \subseteq Nat
      /\ Wp.alive => Wp.low = Record /\ Wp.received \subseteq (Record + 2)..Wp.max /\ Wp.max \in Nat
      /\ ~Wp.alive => Wp.received = {}
  BY DEF ReaderOK, Marks, R!WriterProxyType
<1>5. ready = (k + 1)..Record
  <2>1. \A s \in 1..MaxSeq : R!Available(<<ThisWriter, s>>) <=> (Wp.alive => s <= Record)
    BY <1>4 DEF R!Available, Wp
  <2>2. \A s \in 1..MaxSeq : <<ThisWriter, s>> \in hist <=> s \in ((k + 1)..Record) \cup Wp.received
    BY <1>3 DEF Delivered
  <2>3. \A s \in (k + 1)..Record : s \in 1..MaxSeq /\ s <= Record
    BY <1>4
  <2>4. \A s \in 1..MaxSeq : s \in Wp.received => Wp.alive /\ ~(s <= Record)
    BY <1>4
  <2>5. \A s \in ready : s \in (k + 1)..Record
    BY <2>1, <2>2, <2>4, Zenon
  <2>6. \A s \in (k + 1)..Record : s \in ready
    BY <2>1, <2>2, <2>3, Zenon
  <2> QED BY <2>5, <2>6, Zenon
<1>6. Min(ready) = k + 1 /\ k < Record
  <2> HIDE DEF ready
  <2>1. ready \subseteq Nat /\ ready # {} /\ Record \in Nat /\ k \in Nat
    BY <1>1, <1>4, <1>5
  <2>2. Min(ready) \in ready /\ \A y \in ready : Min(ready) <= y
    BY <2>1, MinIsLeast
  <2> QED BY <1>5, <2>1, <2>2
<1> HIDE DEF ready
<1>7. Record' = Record /\ Wp' = Wp
  BY <1>1 DEF Record, Wp
<1>8. ReaderOK'
  BY <1>1, <1>7 DEF ReaderOK
<1>9. Delivered(k + 1)' /\ k + 1 \in 0..Record
  <2>1. taken' = {ThisWriter} \X (1..(k + 1))
    <3>1. 1..(k + 1) = (1..k) \cup {k + 1}
      BY <1>3, <1>4
    <3>2. taken = {ThisWriter} \X (1..k) /\ taken' = taken \cup {<<ThisWriter, k + 1>>}
      BY <1>1, <1>2, <1>3, <1>6 DEF Delivered
    <3> QED BY <3>1, <3>2
  <2>2. hist' = {ThisWriter} \X (((k + 2)..Record) \cup Wp.received)
    <3>1. ((k + 2)..Record) \cup Wp.received = (((k + 1)..Record) \cup Wp.received) \ {k + 1}
      BY <1>4, <1>6
    <3>2. /\ hist = {ThisWriter} \X (((k + 1)..Record) \cup Wp.received)
          /\ hist' = hist \ {<<ThisWriter, k + 1>>}
      BY <1>1, <1>2, <1>3, <1>6 DEF Delivered
    <3> QED BY <3>1, <3>2
  <2>3. (k + 1) + 1 = k + 2 /\ k + 1 \in 0..Record
    BY <1>4, <1>6
  <2> QED BY <1>7, <2>1, <2>2, <2>3 DEF Delivered
<1>10. IsFiniteSet(hist') /\ Cardinality(hist') <= MaxSamples
  <2>1. IsFiniteSet(hist) /\ hist' \subseteq hist /\ Cardinality(hist) <= MaxSamples
    BY <1>1 DEF SamplesOK
  <2>2. IsFiniteSet(hist') /\ Cardinality(hist') <= Cardinality(hist)
    BY <2>1, FS_Subset
  <2>3. Cardinality(hist') \in Nat /\ Cardinality(hist) \in Nat
    BY <2>1, <2>2, FS_CardinalityType
  <2> QED BY <2>1, <2>2, <2>3, ProtocolAssumption
<1>11. SamplesOK'
  BY <1>7, <1>9, <1>10 DEF SamplesOK
<1>12. \E j \in 0..(Record - 1) : /\ taken = {ThisWriter} \X (1..j)
                                  /\ taken' = {ThisWriter} \X (1..(j + 1))
  <2>1. k \in 0..(Record - 1)
    BY <1>4, <1>6
  <2> QED BY <1>3, <1>9, <2>1 DEF Delivered
<1> QED BY <1>1, <1>4, <1>7, <1>8, <1>11, <1>12 DEF ReaderStepOK

\* process_data_msg(): the sample is stored, and the low mark passes what is then complete.
LEMMA DataOK ==
    ASSUME ReaderOK, SamplesOK, lastSeq \in Nat, UNCHANGED <<lastSeq, net>>, NEW s \in 1..lastSeq,
           R!process_data_msg(ThisWriter, s)
    PROVE  ReaderStepOK
<1> DEFINE q == R!received_change_set(Wp, s)
           n == [q EXCEPT !.notified = q.low]
<1>1. /\ R!DataAccepted(ThisWriter, s)
      /\ hist' = hist \cup {<<ThisWriter, s>>}
      /\ wp' = [wp EXCEPT ![ThisWriter] = n]
      /\ history_record' = [history_record EXCEPT ![ThisWriter] = R!LargerOf(q.low, Record)]
      /\ UNCHANGED <<acknack_count_, taken, irrelevant, lost>>
  BY Zenon DEF R!process_data_msg, R!NotifyChanges, Wp, Record
<1>2. /\ Wp.alive /\ ~(s <= Wp.low) /\ s \notin Wp.received
      /\ R!CanBeAdded(R!unknown_missing_changes_up_to(Wp, s))
  BY <1>1, Zenon DEF R!DataAccepted, R!change_was_received, Wp
<1>3. /\ Marks(Wp) /\ Wp.low = Record /\ Wp.max <= lastSeq /\ Record \in 0..lastSeq
      /\ Wp.low \in Nat /\ Wp.max \in Nat
  BY <1>2 DEF ReaderOK, Marks, R!WriterProxyType
<1>4. /\ Marks(q) /\ q.alive = Wp.alive /\ Wp.low <= q.low /\ q.max \in {s, Wp.max}
      /\ Settled(q) = Settled(Wp) \cup {s}
  <2>1. s \in Nat /\ s > Wp.low
    BY <1>2, <1>3
  <2> QED BY <1>2, <1>3, <2>1, ReceivedSettles
<1> HIDE DEF q
<1>5. q \in R!WriterProxyType /\ q.low \in Nat /\ q.max \in Nat /\ q.low <= q.max
  BY <1>4 DEF Marks, R!WriterProxyType
<1>6. /\ n \in R!WriterProxyType /\ n.low = q.low /\ n.max = q.max /\ n.received = q.received
      /\ n.alive = q.alive
  BY <1>5 DEF R!WriterProxyType
<1>7. Marks(n) /\ Settled(n) = Settled(q)
  BY <1>4, <1>6, SameMarks DEF Settled
<1> HIDE DEF n
<1>8. R!LargerOf(q.low, Record) = q.low
  BY <1>3, <1>4, <1>5 DEF R!LargerOf
<1>9. /\ Wp' = n /\ Record' = q.low /\ wp' = [w \in {ThisWriter} |-> Wp']
      /\ history_record' = [w \in {ThisWriter} |-> Record']
  BY <1>1, <1>8 DEF ReaderOK, Wp, Record
<1>10. Record <= Record' /\ Record' \in 0..lastSeq /\ n.max <= lastSeq
  BY <1>3, <1>4, <1>5, <1>6, <1>9
<1>11. ReaderOK'
  BY <1>1, <1>2, <1>4, <1>6, <1>7, <1>9, <1>10 DEF ReaderOK
<1>12. PICK k \in 0..Record : Delivered(k)
  BY DEF SamplesOK
<1>13. k \in 0..n.low /\ k \in 0..Wp.low /\ k \in 0..Record' /\ s > k
  BY <1>2, <1>3, <1>6, <1>9, <1>10
<1>14. Delivered(k)'
  <2>1. ((k + 1)..n.low) \cup n.received = {i \in Settled(n) : i > k}
    BY <1>7, <1>13, SettledAfter
  <2>2. ((k + 1)..Wp.low) \cup Wp.received = {i \in Settled(Wp) : i > k}
    BY <1>3, <1>13, SettledAfter
  <2>3. ((k + 1)..n.low) \cup n.received = (((k + 1)..Wp.low) \cup Wp.received) \cup {s}
    BY <1>4, <1>7, <1>13, <2>1, <2>2
  <2>4. hist' = {ThisWriter} \X ((((k + 1)..Record) \cup Wp.received) \cup {s})
    BY <1>1, <1>12 DEF Delivered
  <2>5. hist' = {ThisWriter} \X (((k + 1)..Record') \cup n.received)
    BY <1>3, <1>6, <1>9, <2>3, <2>4
  <2> QED BY <1>1, <1>9, <1>12, <2>5 DEF Delivered
<1>15. IsFiniteSet(hist') /\ Cardinality(hist') <= MaxSamples
  <2> DEFINE U == ((Wp.low + 1)..(s - 1)) \ Wp.received
  <2>1. IsFiniteSet(U)
    <3>1. IsFiniteSet((Wp.low + 1)..(s - 1))
      BY <1>3, FS_Interval
    <3> QED BY <3>1, FS_Subset
  <2>2. Cardinality(U) \in Nat
    BY <2>1, FS_CardinalityType
  <2>3. Cardinality(hist) + Cardinality(U) < MaxSamples
    BY <1>2, SameCardinality DEF R!CanBeAdded, R!unknown_missing_changes_up_to
  <2> HIDE DEF U
  <2>4. IsFiniteSet(hist) /\ Cardinality(hist) \in Nat
    BY FS_CardinalityType DEF SamplesOK
  <2>5. /\ IsFiniteSet(hist')
        /\ Cardinality(hist') = Cardinality(hist) \/ Cardinality(hist') = Cardinality(hist) + 1
    BY <1>1, <2>4, FS_AddElement
  <2> QED BY <2>2, <2>3, <2>4, <2>5, ProtocolAssumption
<1>16. SamplesOK'
  BY <1>13, <1>14, <1>15 DEF SamplesOK
<1> QED BY <1>1, <1>10, <1>11, <1>16 DEF ReaderStepOK

\* process_heartbeat_msg(): nothing is given up, because what the writer no longer has the
\* reader has; only the largest known number may grow.
LEMMA HeartbeatOK ==
    ASSUME ReaderOK, SamplesOK, lastSeq \in Nat, UNCHANGED <<lastSeq, net>>, NEW m,
           m.first \in 1..(Record + 1), m.last \in 0..lastSeq, m.count \in Nat, m.final \in BOOLEAN,
           R!process_heartbeat_msg(ThisWriter, m)
    PROVE  ReaderStepOK
<1> DEFINE u == R!missing_changes_update(Wp, m.last)
           q == [u EXCEPT !.hbCount = m.count, !.hbFinal = m.final, !.hbSeen = TRUE,
                          !.response = Wp.response \/ ~m.final \/ R!are_there_missing_changes(u)]
           n == [q EXCEPT !.notified = q.low]
<1>1. Wp.alive
  BY DEF R!process_heartbeat_msg, R!HeartbeatAccepted, Wp
<1>2. /\ Marks(Wp) /\ Wp.low = Record /\ Wp.max <= lastSeq /\ Record \in 0..lastSeq
      /\ Wp.low \in Nat /\ Wp.max \in Nat /\ Wp \in R!WriterProxyType /\ Wp.low <= Wp.max
  BY <1>1 DEF ReaderOK, Marks, R!WriterProxyType
<1>3. R!lost_changes_update(Wp, m.first) = Wp /\ R!Of(ThisWriter, R!LostBelow(Wp, m.first)) = {}
  <2>1. ~(m.first > Wp.low + 1)
    BY <1>2
  <2>2. R!lost_changes_update(Wp, m.first) = Wp
    BY <2>1 DEF R!lost_changes_update
  <2>3. R!LostBelow(Wp, m.first) = {}
    BY <1>2, <2>1 DEF R!LostBelow
  <2> QED BY <2>2, <2>3 DEF R!Of
<1>4. R!process_heartbeat(Wp, m) = q
  BY <1>3, Zenon DEF R!process_heartbeat
<1>5. /\ wp' = [wp EXCEPT ![ThisWriter] = n]
      /\ history_record' = [history_record EXCEPT ![ThisWriter] = R!LargerOf(q.low, Record)]
      /\ UNCHANGED <<hist, acknack_count_, taken>>
  <2>1. R!NotifyChanges(ThisWriter, q, hist) /\ UNCHANGED <<hist, acknack_count_, taken>>
    BY <1>4, Zenon DEF R!process_heartbeat_msg, Wp
  <2> HIDE DEF q
  <2> QED BY <2>1, Zenon DEF R!NotifyChanges, Record
<1>6. lost' = {} /\ irrelevant' = {}
  <2>1. /\ lost' = lost \cup {} \/ lost' = lost
        /\ irrelevant' = irrelevant \cup {} \/ irrelevant' = irrelevant
    BY <1>3, Zenon DEF R!process_heartbeat_msg, Wp
  <2> QED BY <2>1 DEF ReaderOK
<1>7. /\ u \in R!WriterProxyType /\ u.low = Wp.low /\ u.received = Wp.received /\ u.alive = Wp.alive
      /\ u.max \in Nat /\ u.max >= Wp.max /\ u.max <= lastSeq
  <2>1. CASE m.last > Wp.low
    <3>1. R!LargerOf(m.last, Wp.max) \in Wp.max..lastSeq
      BY <1>2 DEF R!LargerOf
    <3>2. u = [Wp EXCEPT !.max = R!LargerOf(m.last, Wp.max)]
      BY <2>1 DEF R!missing_changes_update
    <3> HIDE DEF u
    <3> QED BY <1>2, <3>1, <3>2 DEF R!WriterProxyType
  <2>2. CASE ~(m.last > Wp.low)
    <3>1. u = Wp
      BY <2>2 DEF R!missing_changes_update
    <3> HIDE DEF u
    <3> QED BY <1>2, <3>1
  <2> QED BY <2>1, <2>2
<1> HIDE DEF u
<1> DEFINE response == Wp.response \/ ~m.final \/ R!are_there_missing_changes(u)
<1>8. response \in BOOLEAN
  OBVIOUS
<1> HIDE DEF response
<1>9. /\ q \in R!WriterProxyType /\ q.low = u.low /\ q.max = u.max /\ q.received = u.received
      /\ q.alive = u.alive
  <2>1. q = [u EXCEPT !.hbCount = m.count, !.hbFinal = m.final, !.hbSeen = TRUE,
                      !.response = response]
    BY Zenon DEF response
  <2> HIDE DEF q
  <2> QED BY <1>7, <1>8, <2>1 DEF R!WriterProxyType
<1> HIDE DEF q
<1>10. /\ n \in R!WriterProxyType /\ n.low = q.low /\ n.max = q.max /\ n.received = q.received
       /\ n.alive = q.alive
  BY <1>9 DEF R!WriterProxyType
<1> HIDE DEF n
<1>11. Marks(n)
  BY <1>2, <1>7, <1>9, <1>10 DEF Marks
<1>12. R!LargerOf(q.low, Record) = Record
  BY <1>2, <1>7, <1>9 DEF R!LargerOf
<1>13. /\ Wp' = n /\ Record' = Record /\ wp' = [w \in {ThisWriter} |-> Wp']
       /\ history_record' = [w \in {ThisWriter} |-> Record']
  BY <1>5, <1>12 DEF ReaderOK, Wp, Record
<1>14. ReaderOK'
  BY <1>1, <1>2, <1>5, <1>6, <1>7, <1>9, <1>10, <1>11, <1>13 DEF ReaderOK
<1>15. n.received = Wp.received
  BY <1>7, <1>9, <1>10
<1>16. \A k : Delivered(k) => Delivered(k)'
  BY <1>5, <1>13, <1>15 DEF Delivered
<1>17. SamplesOK'
  BY <1>5, <1>13, <1>16 DEF SamplesOK
<1> QED BY <1>2, <1>5, <1>13, <1>14, <1>17 DEF ReaderStepOK

\* The reader's timers: an ACKNACK acknowledges what has been notified, or nothing.
LEMMA TimersOK ==
    ASSUME ReaderOK, SamplesOK, lastSeq \in Nat, UNCHANGED lastSeq, R!Timers
    PROVE  ReaderStepOK
<1>1. R!perform_heartbeat_response(ThisWriter) \/ R!perform_initial_ack_nack(ThisWriter)
  BY DEF R!Timers
<1>2. /\ Wp.alive
      /\ \/ \E b \in BOOLEAN : wp' = [wp EXCEPT ![ThisWriter].response = b]
         \/ \E b \in BOOLEAN : wp' = [wp EXCEPT ![ThisWriter].initial = b]
      /\ UNCHANGED <<history_record, hist, taken, irrelevant, lost>>
  BY <1>1, Zenon DEF R!perform_heartbeat_response, R!perform_initial_ack_nack, Wp
<1>3. \/ UNCHANGED <<acknack_count_, net>>
      \/ \E missing : R!send_acknack(ThisWriter, Wp.low + 1, missing, missing = {})
      \/ R!send_acknack(ThisWriter, 0, {}, FALSE)
  BY <1>1, Zenon DEF R!perform_heartbeat_response, R!perform_initial_ack_nack, Wp
<1>4. /\ Marks(Wp) /\ Wp.low = Record /\ Record \in Nat /\ Wp \in R!WriterProxyType
      /\ wp = [w \in {ThisWriter} |-> Wp] /\ acknack_count_ \in Nat
  BY <1>2 DEF ReaderOK, Marks
<1>5. /\ Wp' \in R!WriterProxyType /\ Wp'.low = Wp.low /\ Wp'.max = Wp.max
      /\ Wp'.received = Wp.received /\ Wp'.alive = Wp.alive
      /\ wp' = [w \in {ThisWriter} |-> Wp'] /\ Record' = Record
  <2>1. CASE \E b \in BOOLEAN : wp' = [wp EXCEPT ![ThisWriter].response = b]
    <3>1. PICK b \in BOOLEAN : wp' = [wp EXCEPT ![ThisWriter].response = b]
      BY <2>1
    <3>2. Wp' = [Wp EXCEPT !.response = b] /\ wp' = [w \in {ThisWriter} |-> Wp']
      BY <1>4, <3>1 DEF Wp
    <3> QED BY <1>2, <1>4, <3>2 DEF R!WriterProxyType, Record
  <2>2. CASE \E b \in BOOLEAN : wp' = [wp EXCEPT ![ThisWriter].initial = b]
    <3>1. PICK b \in BOOLEAN : wp' = [wp EXCEPT ![ThisWriter].initial = b]
      BY <2>2
    <3>2. Wp' = [Wp EXCEPT !.initial = b] /\ wp' = [w \in {ThisWriter} |-> Wp']
      BY <1>4, <3>1 DEF Wp
    <3> QED BY <1>2, <1>4, <3>2 DEF R!WriterProxyType, Record
  <2> QED BY <1>2, <2>1, <2>2
<1>6. Marks(Wp')
  BY <1>4, <1>5, SameMarks
<1>7. /\ acknack_count_' \in Nat
      /\ \A m \in net' : m \in net \/ MessageOK(m)'
  <2>1. CASE UNCHANGED <<acknack_count_, net>>
    BY <1>4, <2>1
  <2>2. ASSUME NEW base \in 0..(Record + 1), NEW missing, NEW final, base = 0 => ~final,
               R!send_acknack(ThisWriter, base, missing, final)
        PROVE  acknack_count_' \in Nat /\ \A m \in net' : m \in net \/ MessageOK(m)'
    <3> DEFINE a == R!AckNack(ThisWriter, ThisReader, base, missing, acknack_count_ + 1, final)
    <3>1. acknack_count_' = acknack_count_ + 1 /\ net' = net \cup {a}
      BY <2>2 DEF R!send_acknack
    <3>2. /\ a.type = "ACKNACK" /\ a.reader = ThisReader /\ a.base = base
          /\ a.count = acknack_count_ + 1 /\ a.final = final
      BY DEF R!AckNack
    <3> HIDE DEF a
    <3>3. a.count \in Nat /\ a.base \in 0..(Record' + 1)
      BY <1>4, <1>5, <3>2
    <3>4. a.base = 0 => ~a.final
      BY <2>2, <3>2
    <3>5. ASSUME NEW m, m = a PROVE MessageOK(m)'
      BY <3>2, <3>3, <3>4, <3>5, Zenon DEF MessageOK
    <3> QED BY <1>4, <3>1, <3>5
  <2>3. ASSUME NEW missing, R!send_acknack(ThisWriter, Wp.low + 1, missing, missing = {})
        PROVE  acknack_count_' \in Nat /\ \A m \in net' : m \in net \/ MessageOK(m)'
    <3>1. Wp.low + 1 \in 0..(Record + 1) /\ Wp.low + 1 # 0
      BY <1>4
    <3> QED BY <2>2, <2>3, <3>1
  <2>4. CASE R!send_acknack(ThisWriter, 0, {}, FALSE)
    <3>1. 0 \in 0..(Record + 1)
      BY <1>4
    <3> QED BY <2>2, <2>4, <3>1
  <2> QED BY <1>3, <2>1, <2>3, <2>4
<1>8. ReaderOK'
  BY <1>2, <1>4, <1>5, <1>6, <1>7 DEF ReaderOK, Record
<1>9. \A k : Delivered(k) => Delivered(k)'
  BY <1>2, <1>5 DEF Delivered
<1>10. SamplesOK'
  BY <1>2, <1>5, <1>9 DEF SamplesOK
<1> QED BY <1>2, <1>4, <1>5, <1>7, <1>8, <1>10 DEF ReaderStepOK
=============================================================================
