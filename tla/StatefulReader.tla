--------------------------- MODULE StatefulReader ---------------------------
(***************************************************************************)
(* One reliable, KEEP_ALL, unkeyed DataReader: StatefulReader.cpp with its *)
(* DataReaderHistory.  The threads that receive messages, run the proxies' *)
(* timers, run discovery and take samples all hold the reader's mutex, so  *)
(* each handler is one action.  The messages themselves are parameters of  *)
(* the handlers: here any well-formed message may arrive at any time, and  *)
(* ReliableProtocol feeds the handlers with what a real writer has sent.   *)
(***************************************************************************)
EXTENDS WriterProxy, RtpsMessages

CONSTANTS
    Writers,        \* remote writers that discovery may match
    ThisReader,     \* this reader
    MaxSamples,     \* resource_limits().max_samples
    MaxSeq,         \* model bound: the last sequence number
    MaxHeartbeats,  \* model bound: heartbeat counts
    MaxAckNacks     \* model bound: acknack_count_

ASSUME ReaderAssumption ==
    /\ IsFiniteSet(Writers)
    /\ MaxSamples \in Nat \ {0}
    /\ MaxSeq \in Nat
    /\ MaxHeartbeats \in Nat
    /\ MaxAckNacks \in Nat

VARIABLES
    wp,             \* the proxy of each writer; not alive when the writer is not matched
    gone,           \* writers that were deleted, and will not be matched again
    history_record, \* per writer, the last notified number, kept while it may come back
    hist,           \* the samples in the history, each <<writer, sequence number>>
    total_unread_,
    acknack_count_,
    taken,          \* history variable: the samples the application has taken
    irrelevant,     \* history variable: the samples a writer has said it will not send
    lost            \* the samples on_sample_lost() was told of

readerVars == <<wp, gone, history_record, hist, total_unread_, acknack_count_, taken, irrelevant, lost>>

Samples == Writers \X (1..MaxSeq)

\* The samples of a writer with the given sequence numbers.
Of(w, S) == {w} \X S

ReaderInit ==
    /\ wp = [w \in Writers |-> stop]
    /\ gone = {}
    /\ history_record = [w \in Writers |-> 0]
    /\ hist = {}
    /\ total_unread_ = 0
    /\ acknack_count_ = 0
    /\ taken = {}
    /\ irrelevant = {}
    /\ lost = {}

\* Faulty variant, which the properties must reject: samples ahead of a hole can be taken.
Available_Anything(x) == x \in hist

\* A sample the application may take: not ahead of a hole in a matched writer's numbers.
Available(x) == wp[x[1]].alive => x[2] <= wp[x[1]].low

-----------------------------------------------------------------------------
\* NotifyChanges(): everything in history up to the low mark of the updated proxy p becomes
\* unread data of the application.
NotifyChanges(w, p, h) ==
    /\ wp' = [wp EXCEPT ![w] = [p EXCEPT !.notified = p.low]]
    /\ history_record' = [history_record EXCEPT ![w] = LargerOf(p.low, history_record[w])]
    /\ total_unread_' = total_unread_ +
                        Cardinality({x \in h : x[1] = w /\ x[2] > p.notified /\ x[2] <= p.low})

\* Faulty variant, which the properties must reject: no room is kept for the samples missing before it.
CanBeAdded_KeepsNoRoom(unknown_missing) == Cardinality(hist) < MaxSamples

\* received_change(): a sample is stored only if those missing before it still have room.
CanBeAdded(unknown_missing) == Cardinality(hist) + unknown_missing < MaxSamples

DataAccepted(w, s) ==
    /\ wp[w].alive
    /\ ~change_was_received(wp[w], s)
    /\ CanBeAdded(unknown_missing_changes_up_to(wp[w], s))

\* Faulty variant, which the properties must reject: a sample the history rejects is marked as received.
process_data_msg_MarksRejected(w, s) ==
    /\ wp[w].alive
    /\ ~change_was_received(wp[w], s)
    /\ hist' = IF DataAccepted(w, s) THEN hist \cup {<<w, s>>} ELSE hist
    /\ NotifyChanges(w, received_change_set(wp[w], s), hist')
    /\ UNCHANGED <<gone, acknack_count_, taken, irrelevant, lost>>

process_data_msg(w, s) ==
    /\ DataAccepted(w, s)
    /\ hist' = hist \cup {<<w, s>>}
    /\ NotifyChanges(w, received_change_set(wp[w], s), hist')
    /\ UNCHANGED <<gone, acknack_count_, taken, irrelevant, lost>>

HeartbeatAccepted(w, hb) == wp[w].alive /\ wp[w].hbCount < hb.count

\* Numbers given up at the first heartbeat belong to the past and are not reported as lost.
process_heartbeat_msg(w, hb) ==
    /\ HeartbeatAccepted(w, hb)
    /\ NotifyChanges(w, process_heartbeat(wp[w], hb), hist)
    /\ IF wp[w].hbSeen
       THEN lost' = lost \cup Of(w, LostBelow(wp[w], hb.first)) /\ UNCHANGED irrelevant
       ELSE irrelevant' = irrelevant \cup Of(w, LostBelow(wp[w], hb.first)) /\ UNCHANGED lost
    /\ UNCHANGED <<gone, hist, acknack_count_, taken>>

process_gap_msg(w, gap) ==
    LET S == (gap.start..(gap.base - 1)) \cup gap.list
    IN  /\ gap.start >= 1 /\ gap.base > gap.start
        /\ wp[w].alive
        /\ irrelevant' = irrelevant \cup Of(w, {s \in S : ~change_was_received(wp[w], s)})
        /\ NotifyChanges(w, irrelevant_changes_set(wp[w], S), hist)
        /\ UNCHANGED <<gone, hist, acknack_count_, taken, lost>>

matched_writer_add(w) ==
    /\ ~wp[w].alive
    /\ w \notin gone
    /\ wp' = [wp EXCEPT ![w] = start(history_record[w])]
    /\ UNCHANGED <<gone, history_record, hist, total_unread_, acknack_count_, taken, irrelevant,
                   lost, net>>

\* Faulty variant, which the properties must reject: the samples ahead of a hole stay in the history.
matched_writer_remove_KeepsFuture(w, removed_by_lease) ==
    /\ wp[w].alive
    /\ wp' = [wp EXCEPT ![w] = stop]
    /\ UNCHANGED <<gone, history_record, hist, total_unread_, acknack_count_, taken, irrelevant,
                   lost, net>>

\* Faulty variant, which the properties must reject: the record of a dropped writer is erased.
matched_writer_remove_ForgetsDropped(w, removed_by_lease) ==
    /\ wp[w].alive
    /\ hist' = {x \in hist : x[1] = w => x[2] <= history_record[w]}
    /\ wp' = [wp EXCEPT ![w] = stop]
    /\ history_record' = [history_record EXCEPT ![w] = 0]
    /\ UNCHANGED <<gone, total_unread_, acknack_count_, taken, irrelevant, lost, net>>

\* The samples ahead of a hole go; those notified stay for the application.  The record of a
\* writer whose participant was dropped is kept for its return.
matched_writer_remove(w, removed_by_lease) ==
    /\ wp[w].alive
    /\ hist' = {x \in hist : x[1] = w => x[2] <= history_record[w]}
    /\ wp' = [wp EXCEPT ![w] = stop]
    /\ IF removed_by_lease
       THEN UNCHANGED <<gone, history_record>>
       ELSE /\ gone' = gone \cup {w}
            /\ history_record' = [history_record EXCEPT ![w] = 0]
    /\ UNCHANGED <<total_unread_, acknack_count_, taken, irrelevant, lost, net>>

\* take_next_sample(): the first sample in history that is not in the future.  Samples of one
\* writer are in the order of their numbers; the order between writers is by timestamp.
take_next_sample ==
    \E w \in Writers :
        LET ready == {s \in 1..MaxSeq : <<w, s>> \in hist /\ Available(<<w, s>>)}
        IN  /\ ready # {}
            /\ hist' = hist \ {<<w, Min(ready)>>}
            /\ taken' = taken \cup {<<w, Min(ready)>>}
            /\ total_unread_' = IF total_unread_ > 0 THEN total_unread_ - 1 ELSE 0
            /\ UNCHANGED <<wp, gone, history_record, acknack_count_, irrelevant, lost, net>>

send_acknack(w, base, missing, final) ==
    /\ acknack_count_' = acknack_count_ + 1
    /\ net' = net \cup {AckNack(w, ThisReader, base, missing, acknack_count_ + 1, final)}

\* Faulty variant, which the properties must reject: everything known to exist is acknowledged.
perform_heartbeat_response_AcksKnown(w) ==
    /\ wp[w].alive /\ wp[w].response
    /\ acknack_count_ < MaxAckNacks
    /\ wp' = [wp EXCEPT ![w].response = FALSE]
    /\ send_acknack(w, wp[w].max + 1, {}, TRUE)
    /\ UNCHANGED <<gone, history_record, hist, total_unread_, taken, irrelevant, lost>>

\* The heartbeat response timer of a proxy fires.
perform_heartbeat_response(w) ==
    LET missing == missing_changes(wp[w])
    IN  /\ wp[w].alive /\ wp[w].response
        /\ acknack_count_ < MaxAckNacks
        /\ wp' = [wp EXCEPT ![w].response = FALSE]
        /\ IF missing # {} \/ ~wp[w].hbFinal
           THEN send_acknack(w, wp[w].low + 1, missing, missing = {})
           ELSE UNCHANGED <<acknack_count_, net>>
        /\ UNCHANGED <<gone, history_record, hist, total_unread_, taken, irrelevant, lost>>

\* The initial ACKNACK timer fires: it repeats, at growing intervals, until a heartbeat comes
\* or the interval passes an hour.
perform_initial_ack_nack(w) ==
    /\ wp[w].alive /\ wp[w].initial
    /\ acknack_count_ < MaxAckNacks
    /\ IF wp[w].hbCount = 0
       THEN /\ send_acknack(w, 0, {}, FALSE)
            /\ \E again \in BOOLEAN : wp' = [wp EXCEPT ![w].initial = again]
       ELSE /\ wp' = [wp EXCEPT ![w].initial = FALSE]
            /\ UNCHANGED <<acknack_count_, net>>
    /\ UNCHANGED <<gone, history_record, hist, total_unread_, taken, irrelevant, lost>>

-----------------------------------------------------------------------------
\* The reader on its own: any well-formed message of any writer may arrive.
ReceivesData == \E w \in Writers, s \in 1..MaxSeq : process_data_msg(w, s)

ReceivesHeartbeat ==
    \E w \in Writers, first \in 1..(MaxSeq + 1), last \in 0..MaxSeq, count \in 1..MaxHeartbeats,
       final \in BOOLEAN :
        /\ first <= last + 1
        /\ process_heartbeat_msg(w, Heartbeat(w, ThisReader, first, last, count, final))

ReceivesGap ==
    \E w \in Writers, first \in 1..MaxSeq, base \in 2..(MaxSeq + 1) :
        \E list \in SUBSET (base..MaxSeq) :
            process_gap_msg(w, Gap(w, ThisReader, first, base, list))

Discovery ==
    \E w \in Writers :
        \/ matched_writer_add(w)
        \/ \E removed_by_lease \in BOOLEAN : matched_writer_remove(w, removed_by_lease)

Timers ==
    \E w \in Writers : perform_heartbeat_response(w) \/ perform_initial_ack_nack(w)

ReaderNext ==
    \/ ReceivesData /\ UNCHANGED net
    \/ ReceivesHeartbeat /\ UNCHANGED net
    \/ ReceivesGap /\ UNCHANGED net
    \/ Discovery
    \/ take_next_sample
    \/ Timers

vars == <<readerVars, net>>

Init == ReaderInit /\ net = {}

Spec == Init /\ [][ReaderNext]_vars

-----------------------------------------------------------------------------
\* The variables have their types, and the counts stay within the model's bounds.
TypeOK ==
    /\ wp \in [Writers -> WriterProxyType]
    /\ gone \subseteq Writers
    /\ history_record \in [Writers -> Nat]
    /\ hist \subseteq Samples
    /\ total_unread_ \in Nat
    /\ acknack_count_ \in 0..MaxAckNacks
    /\ taken \subseteq Samples
    /\ irrelevant \subseteq Samples
    /\ lost \subseteq Samples

\* A proxy's marks agree: nothing settled is beyond the largest known number, the number after
\* the low mark is not settled (cleanup() leaves no received number next to it), and everything
\* up to the low mark has been notified when a handler returns.
MarksAgree ==
    \A w \in Writers : wp[w].alive =>
        /\ wp[w].low <= wp[w].max
        /\ wp[w].received \subseteq (wp[w].low + 2)..wp[w].max
        /\ wp[w].notified = wp[w].low
        /\ history_record[w] = wp[w].low

\* Nothing is dropped silently: a number below the low mark, which the reader acknowledges and
\* the writer may then discard, is in history, was taken, was declared irrelevant by the
\* writer or was reported as lost; and what is received above the mark is too.
SettledIsAccounted ==
    \A w \in Writers : wp[w].alive =>
        Of(w, (1..wp[w].low) \cup wp[w].received) \subseteq hist \cup taken \cup irrelevant \cup lost

\* Each writer's samples reach the application in order and at most once: what is in history is
\* later than anything taken from that writer, also when the writer was dropped and came back.
TakenInOrder ==
    \A x \in hist, t \in taken : x[1] = t[1] => t[2] < x[2]

\* A full history always holds a sample the application can take, so that taking makes room for
\* the missing samples: samples ahead of a hole can never fill it.
FullHistoryCanBeTaken ==
    Cardinality(hist) >= MaxSamples => \E x \in hist : Available(x)

\* total_unread_, which wait_for_unread_message() tests, counts the samples that can be taken.
UnreadIsAvailable ==
    total_unread_ = Cardinality({x \in hist : Available(x)})

\* Acknowledgements never go back: of two heartbeat responses to a writer, the later one
\* acknowledges at least as much, also across a drop and return of the writer.
AcksNeverRegress ==
    \A m, n \in net :
        /\ m.writer = n.writer /\ m.count < n.count
        /\ n.base # 0
        => m.base <= n.base
=============================================================================
