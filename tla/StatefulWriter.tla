--------------------------- MODULE StatefulWriter ---------------------------
(***************************************************************************)
(* One reliable, push-mode, KEEP_ALL, TRANSIENT_LOCAL, unkeyed DataWriter  *)
(* with remote readers: StatefulWriter.cpp, its ReaderProxy objects, the   *)
(* DataWriterHistory and the default (synchronous) flow controller.        *)
(*                                                                         *)
(* The writer's mutex is held by every handler, so each is one action; the *)
(* one place where it is released is the wait of a write() that finds the  *)
(* history full.  With this QoS samples leave the history only from its    *)
(* front, so there are no holes and no GAP is ever sent.                   *)
(***************************************************************************)
EXTENDS ReaderProxy, RtpsMessages, Sequences

CONSTANTS
    Readers,            \* remote readers that discovery may match
    ThisWriter,         \* this writer
    HistorySize,        \* resource_limits().max_samples
    MaxHeartbeats,      \* model bound: heartbeat_count_
    MaxAckNacks,        \* model bound: the counts of ACKNACK messages
    SendMayTimeOut      \* whether a write() may find no send buffer before max_blocking_time

ASSUME WriterAssumption ==
    /\ HistorySize \in Nat \ {0}
    /\ MaxSeq \in Nat
    /\ MaxHeartbeats \in Nat
    /\ MaxAckNacks \in Nat
    /\ SendMayTimeOut \in BOOLEAN

VARIABLES
    whist,              \* the sequence numbers in the history
    lastSeq,            \* m_lastCacheChangeSeqNum
    rp,                 \* the proxy of each reader
    heartbeat_count_,
    periodic_hb,        \* periodic_hb_event_ is armed
    nack_response,      \* nack_response_event_ is armed
    new_ones,           \* the flow controller's queue of changes not sent before,
    old_ones,           \* and that of changes to be sent again
    nextAllAcked,       \* next_all_acked_notify_sequence_
    may_remove_change_,
    wpc                 \* the thread in write(): "idle", or "waiting" for a change to be removed

writerVars == <<whist, lastSeq, rp, heartbeat_count_, periodic_hb, nack_response, new_ones,
                old_ones, nextAllAcked, may_remove_change_, wpc>>

WriterInit ==
    /\ whist = {}
    /\ lastSeq = 0
    /\ rp = [r \in Readers |-> NoProxy]
    /\ heartbeat_count_ = 0
    /\ periodic_hb = FALSE
    /\ nack_response = FALSE
    /\ new_ones = <<>> /\ old_ones = <<>>
    /\ nextAllAcked = 1
    /\ may_remove_change_ = 0
    /\ wpc = "idle"

Matched(proxies) == {r \in Readers : proxies[r].active}

\* get_seq_num_min() and get_seq_num_max(), or the empty range after the last number.
FirstIn(history, last) == IF history = {} THEN last + 1 ELSE Min(history)

-----------------------------------------------------------------------------
\* Faulty variant, which the properties must reject: one reader's acknowledgement is enough.
LowestMark_AnyReader(proxies, last) ==
    IF Matched(proxies) = {} THEN last ELSE Max({proxies[r].low : r \in Matched(proxies)})

\* check_acked_status(): recompute what all matched readers have acknowledged.  Without readers
\* everything is.  The mark only moves forward, except that no pending change means everything.
LowestMark(proxies, last) ==
    IF Matched(proxies) = {} THEN last ELSE Min({proxies[r].low : r \in Matched(proxies)})

check_acked_status(proxies, history, last, may_remove) ==
    /\ nextAllAcked' =
         IF \A r \in Matched(proxies) : ~HasChanges(proxies[r]) THEN last + 1
         ELSE IF history # {} /\ nextAllAcked <= LowestMark(proxies, last)
              THEN LowestMark(proxies, last) + 1
              ELSE nextAllAcked
    /\ may_remove_change_' =
         IF history # {} /\ LowestMark(proxies, last) >= Min(history) THEN 1 ELSE may_remove

\* send_heartbeat_nts_(): one HEARTBEAT to the readers rs, if there is something to announce.
Sends(rs, history) == rs # {} /\ (history # {} \/ Cardinality(rs) = 1)

HeartbeatTo(rs, history, last) ==
    IF Sends(rs, history)
    THEN {Heartbeat(ThisWriter, r, FirstIn(history, last), last, heartbeat_count_ + 1, FALSE) : r \in rs}
    ELSE {}

CountHeartbeat(rs, history) ==
    IF Sends(rs, history)
    THEN heartbeat_count_ < MaxHeartbeats /\ heartbeat_count_' = heartbeat_count_ + 1
    ELSE UNCHANGED heartbeat_count_

\* send_heartbeat_piggyback_nts_(): must a HEARTBEAT follow the data?  Otherwise it follows
\* when enough bytes have been sent, which is left open.
MustPiggyback(history) == Cardinality(history) = HistorySize \/ nextAllAcked < Min(history)

\* deliver_sample_nts(): a change goes to the readers for which it is unsent.  What is left of
\* the proxies, what is sent and who gets a HEARTBEAT differ with the outcome.
Targets(seq, proxies) == {r \in Matched(proxies) : proxies[r].changes[seq] = "UNSENT"}

MarkUnderway(seq, proxies) ==
    [r \in Readers |->
        IF r \in Targets(seq, proxies)
        THEN from_unsent_to_status(proxies[r], seq) ELSE proxies[r]]

deliver_sample_nts(seq, proxies, marked, data, announced, history, last, may_remove) ==
    /\ net' = net \cup data \cup HeartbeatTo(announced, history, last)
    /\ CountHeartbeat(announced, history)
    /\ rp' = marked
    /\ periodic_hb' = (periodic_hb \/ \E r \in Targets(seq, proxies) : seq \notin proxies[r].delivered)
    /\ check_acked_status(marked, history, last, may_remove)

deliver_sample(seq, proxies, history, last, may_remove) ==
    LET targets == Targets(seq, proxies)
    IN  \E announced \in {{}, Matched(proxies)} :
            /\ announced # {} => targets # {}
            /\ targets # {} /\ MustPiggyback(history) => announced # {}
            /\ deliver_sample_nts(seq, proxies, MarkUnderway(seq, proxies),
                                  {Data(ThisWriter, r, seq) : r \in targets},
                                  announced, history, last, may_remove)

\* NOT_DELIVERED: sending timed out, before the change was put in the message or after.  (A
\* change too large for a message, the other reason, is cut in fragments before.)
delivery_fails(seq, proxies, history, last, may_remove) ==
    /\ Targets(seq, proxies) # {}
    /\ \E marked \in {proxies, MarkUnderway(seq, proxies)} :
          deliver_sample_nts(seq, proxies, marked, {}, {}, history, last, may_remove)

\* add_change_() and unsent_change_added_to_history(), with the history, proxies and queues left
\* by a removal.  The change is sent at once; if that fails it is queued for the asynchronous
\* thread; and if no send buffer comes free in time neither happens.
AddChange(history, proxies, new_q, old_q, may_remove) ==
    LET seq == lastSeq + 1
        grown == history \cup {seq}
        added == [r \in Readers |->
                     IF proxies[r].active THEN add_change(proxies[r], seq) ELSE proxies[r]]
    IN  /\ lastSeq' = seq
        /\ whist' = grown
        /\ old_ones' = old_q
        /\ \/ /\ deliver_sample(seq, added, grown, seq, may_remove)
              /\ new_ones' = new_q
           \/ /\ Matched(added) # {}
              /\ new_ones' = Append(new_q, seq)
              /\ delivery_fails(seq, added, grown, seq, may_remove)
           \/ /\ Matched(added) # {} /\ SendMayTimeOut
              /\ new_ones' = new_q
              /\ rp' = added
              /\ may_remove_change_' = may_remove
              /\ UNCHANGED <<nextAllAcked, periodic_hb, heartbeat_count_, net>>

\* remove_change_impl() of the flow controller: a change that is linked, which it is at most
\* once, is taken out of its list.
remove_change(list, seq) ==
    IF seq \in Range(list)
    THEN LET i == CHOOSE j \in DOMAIN list : list[j] = seq
         IN  SubSeq(list, 1, i - 1) \o SubSeq(list, i + 1, Len(list))
    ELSE list

\* Faulty variant, which the properties must reject: the removed change stays in the flow controller.
ReplaceOldest_LeavesLinked ==
    LET seq == Min(whist)
    IN  AddChange(whist \ {seq}, [r \in Readers |-> change_has_been_removed(rp[r], seq)],
                  new_ones, old_ones, 2)

\* remove_min_change() and change_removed_by_history(), then the new change.
ReplaceOldest ==
    LET seq == Min(whist)
    IN  AddChange(whist \ {seq}, [r \in Readers |-> change_has_been_removed(rp[r], seq)],
                  remove_change(new_ones, seq), remove_change(old_ones, seq), 2)

HistoryFull == Cardinality(whist) = HistorySize

\* write(): add the change, making room as try_remove_change() does, or wait for room.
write ==
    /\ wpc = "idle"
    /\ lastSeq < MaxSeq
    /\ \/ /\ ~HistoryFull
          /\ AddChange(whist, rp, new_ones, old_ones, may_remove_change_)
          /\ UNCHANGED wpc
       \/ /\ HistoryFull /\ nextAllAcked - 1 >= Min(whist)
          /\ ReplaceOldest
          /\ UNCHANGED wpc
       \/ /\ HistoryFull /\ nextAllAcked - 1 < Min(whist)
          /\ may_remove_change_' = 0
          /\ wpc' = "waiting"
          /\ UNCHANGED <<whist, lastSeq, rp, heartbeat_count_, periodic_hb, new_ones, old_ones,
                         nextAllAcked, net>>
    /\ UNCHANGED nack_response

\* The wait in try_remove_change() ends: a change may be removed, or the blocking time is over.
RoomAppears ==
    /\ wpc = "waiting" /\ may_remove_change_ = 1
    /\ wpc' = "idle"
    /\ ReplaceOldest
    /\ UNCHANGED nack_response

WriteTimesOut ==
    /\ wpc = "waiting" /\ may_remove_change_ = 0
    /\ wpc' = "idle"
    /\ UNCHANGED <<whist, lastSeq, rp, heartbeat_count_, periodic_hb, nack_response, new_ones,
                   old_ones, nextAllAcked, may_remove_change_, net>>

\* The asynchronous thread of the flow controller unlinks the next change and sends it, or puts
\* it back in its place.
get_next_change == IF new_ones # <<>> THEN Head(new_ones) ELSE Head(old_ones)

Linked == Range(new_ones) \cup Range(old_ones)

SendQueued ==
    /\ Linked # {}
    /\ new_ones' = remove_change(new_ones, get_next_change)
    /\ old_ones' = remove_change(old_ones, get_next_change)
    /\ deliver_sample(get_next_change, rp, whist, lastSeq, may_remove_change_)
    /\ UNCHANGED <<whist, lastSeq, nack_response, wpc>>

SendQueuedFails ==
    /\ Linked # {}
    /\ delivery_fails(get_next_change, rp, whist, lastSeq, may_remove_change_)
    /\ UNCHANGED <<whist, lastSeq, nack_response, new_ones, old_ones, wpc>>

matched_reader_add(r) ==
    /\ ~rp[r].active
    /\ rp' = [rp EXCEPT ![r] =
                [start(whist, lastSeq) EXCEPT
                    !.changes = [s \in Seqs |-> IF s \in whist THEN "UNACKNOWLEDGED" ELSE "none"]]]
    /\ periodic_hb' = (periodic_hb \/ whist # {})
    /\ net' = net \cup HeartbeatTo({r}, whist, lastSeq)
    /\ CountHeartbeat({r}, whist)
    /\ UNCHANGED <<whist, lastSeq, nack_response, new_ones, old_ones, nextAllAcked,
                   may_remove_change_, wpc>>

matched_reader_remove(r) ==
    /\ rp[r].active
    /\ rp' = [rp EXCEPT ![r] = NoProxy]
    /\ periodic_hb' = (periodic_hb /\ Matched(rp) # {r})
    /\ check_acked_status(rp', whist, lastSeq, may_remove_change_)
    /\ UNCHANGED <<whist, lastSeq, heartbeat_count_, nack_response, new_ones, old_ones, wpc, net>>

\* process_acknack(): counts below the expected one are stale and ignored, as is a request for
\* a number that was never written.  A base of zero asks for everything again.
AckNackAccepted(m) ==
    /\ rp[m.reader].active
    /\ m.count >= rp[m.reader].nextAck
    /\ (IF m.missing = {} THEN m.base ELSE Max(m.missing)) <= lastSeq + 1

IsPreemptive(m) == m.base = 0 /\ m.missing = {} /\ ~m.final

\* What an accepted ACKNACK makes the writer send at once.
AckNackReply(m) == IF IsPreemptive(m) THEN HeartbeatTo({m.reader}, whist, lastSeq) ELSE {}

process_acknack(m) ==
    LET r == m.reader
        acked == acked_changes_set([rp[r] EXCEPT !.nextAck = m.count + 1,
                                                 !.acked = Max({rp[r].acked, m.base - 1})],
                                   m.base, whist, lastSeq)
        requested == IF m.base > 0 THEN requested_changes_set(acked, m.missing) ELSE acked
    IN  /\ AckNackAccepted(m)
        /\ rp' = [rp EXCEPT ![r] = requested]
        /\ nack_response' = (nack_response \/ requested # acked)
        /\ periodic_hb' = (periodic_hb \/ (requested = acked /\ ~m.final))
        /\ IF IsPreemptive(m) THEN CountHeartbeat({r}, whist) ELSE UNCHANGED heartbeat_count_
        /\ check_acked_status(rp', whist, lastSeq, may_remove_change_)
        /\ UNCHANGED <<whist, lastSeq, new_ones, old_ones, wpc>>

\* The nack response timer fires: reader by reader, in some order of the readers, requested
\* changes go to the flow controller unless they are in its queues already.
Requested(r) == {s \in Seqs : rp[r].changes[s] = "REQUESTED"}

FirstAsking(readers, s) == Min({i \in DOMAIN readers : s \in Requested(readers[i])})

Orders(S) == Bijection(1..Cardinality(S), S)

QueuedBefore(readers, s, t) ==
    \/ FirstAsking(readers, s) < FirstAsking(readers, t)
    \/ FirstAsking(readers, s) = FirstAsking(readers, t) /\ s < t

\* Faulty variant, which the properties must reject: nothing is handed to the flow controller.
perform_nack_response_QueuesNothing ==
    /\ nack_response
    /\ nack_response' = FALSE
    /\ rp' = [r \in Readers |-> convert_status_on_all_changes(rp[r], "REQUESTED", "UNSENT")]
    /\ UNCHANGED <<whist, lastSeq, heartbeat_count_, periodic_hb, new_ones, old_ones, nextAllAcked,
                   may_remove_change_, wpc, net>>

perform_nack_response ==
    /\ nack_response
    /\ nack_response' = FALSE
    /\ rp' = [r \in Readers |-> convert_status_on_all_changes(rp[r], "REQUESTED", "UNSENT")]
    /\ \E readers \in Orders(Matched(rp)),
          added \in Orders((UNION {Requested(r) : r \in Matched(rp)}) \ Linked) :
             /\ \A i, j \in DOMAIN added : i < j => QueuedBefore(readers, added[i], added[j])
             /\ old_ones' = old_ones \o added
    /\ UNCHANGED <<whist, lastSeq, heartbeat_count_, periodic_hb, new_ones, nextAllAcked,
                   may_remove_change_, wpc, net>>

\* Faulty variant, which the properties must reject: the periodic heartbeat is not started.
perform_nack_supression_NoHeartbeat(r) ==
    /\ rp[r].suppression
    /\ rp' = [rp EXCEPT ![r] =
                [convert_status_on_all_changes(rp[r], "UNDERWAY", "UNACKNOWLEDGED")
                    EXCEPT !.suppression = FALSE]]
    /\ UNCHANGED <<whist, lastSeq, heartbeat_count_, periodic_hb, nack_response, new_ones, old_ones,
                   nextAllAcked, may_remove_change_, wpc, net>>

\* The suppression timer of a proxy fires: a change sent is now one to be acknowledged.
perform_nack_supression(r) ==
    /\ rp[r].suppression
    /\ rp' = [rp EXCEPT ![r] =
                [convert_status_on_all_changes(rp[r], "UNDERWAY", "UNACKNOWLEDGED")
                    EXCEPT !.suppression = FALSE]]
    /\ periodic_hb' = TRUE
    /\ UNCHANGED <<whist, lastSeq, heartbeat_count_, nack_response, new_ones, old_ones,
                   nextAllAcked, may_remove_change_, wpc, net>>

\* The periodic heartbeat timer fires, and stays armed while something is unacknowledged.
send_periodic_heartbeat ==
    LET first == IF whist = {} THEN lastSeq ELSE Min(whist)
        unacked == \E r \in Matched(rp) : has_unacknowledged(rp[r], first)
        announced == IF unacked THEN Matched(rp) ELSE {}
    IN  /\ periodic_hb
        /\ periodic_hb' = unacked
        /\ net' = net \cup HeartbeatTo(announced, whist, lastSeq)
        /\ CountHeartbeat(announced, whist)
        /\ UNCHANGED <<whist, lastSeq, rp, nack_response, new_ones, old_ones,
                   nextAllAcked, may_remove_change_, wpc>>

-----------------------------------------------------------------------------
\* The writer on its own.  A reader may send any ACKNACK that agrees with what it can have been
\* told: it acknowledges nothing that was never sent to it, asks for written numbers only, and
\* sets the final flag when it asks for none (except in the ACKNACK sent before any heartbeat).
NeverSent(r, s) == rp[r].changes[s] = "UNSENT" /\ s \notin rp[r].delivered /\ s > rp[r].joined

PossibleAckNack(m) ==
    \A s \in Seqs : s < m.base => ~NeverSent(m.reader, s)

ReceivesAckNack ==
    \E r \in Readers, count \in 1..MaxAckNacks, base \in 0..(lastSeq + 1) :
        \E missing \in SUBSET (base..lastSeq) :
            LET m == AckNack(ThisWriter, r, base, missing, count, base # 0 /\ missing = {})
            IN  /\ base = 0 => missing = {}
                /\ PossibleAckNack(m)
                /\ process_acknack(m)
                /\ net' = net \cup AckNackReply(m)

Discovery == \E r \in Readers : matched_reader_add(r) \/ matched_reader_remove(r)

Timers ==
    \/ perform_nack_response
    \/ send_periodic_heartbeat
    \/ \E r \in Readers : perform_nack_supression(r)

WriterNext ==
    \/ write
    \/ RoomAppears
    \/ WriteTimesOut
    \/ SendQueued
    \/ SendQueuedFails
    \/ Discovery
    \/ ReceivesAckNack
    \/ Timers

vars == <<writerVars, net>>

Init == WriterInit /\ net = {}

Spec == Init /\ [][WriterNext]_vars

-----------------------------------------------------------------------------
\* The variables have their types.
TypeOK ==
    /\ whist \subseteq Seqs
    /\ lastSeq \in 0..MaxSeq
    /\ rp \in [Readers -> ReaderProxyType]
    /\ heartbeat_count_ \in 0..MaxHeartbeats
    /\ periodic_hb \in BOOLEAN
    /\ nack_response \in BOOLEAN
    /\ new_ones \in Seq(Seqs) /\ old_ones \in Seq(Seqs)
    /\ nextAllAcked \in 1..(MaxSeq + 1)
    /\ may_remove_change_ \in 0..2
    /\ wpc \in {"idle", "waiting"}

\* The proxies and the flow controller hold raw pointers to the history's changes.  Each proxy
\* of a matched reader has exactly the changes of the history above its low mark, and nothing
\* is queued twice or after it has left the history.
ChangesMatchHistory ==
    /\ \A r \in Readers :
          {s \in Seqs : rp[r].changes[s] # "none"} =
              IF rp[r].active THEN {s \in whist : s > rp[r].low} ELSE {}
    /\ Linked \subseteq whist
    /\ Len(new_ones) + Len(old_ones) = Cardinality(Linked)

\* A change some reader has not acknowledged always has something that will move it on: an
\* unsent one is queued, a requested one waits for the nack response timer, one underway for
\* the suppression timer, and an unacknowledged one for the periodic heartbeat.
NothingStalls ==
    \A r \in Readers, s \in Seqs :
        /\ rp[r].changes[s] = "UNSENT" => s \in Linked
        /\ rp[r].changes[s] = "REQUESTED" => nack_response
        /\ rp[r].changes[s] = "UNDERWAY" => rp[r].suppression
        /\ rp[r].changes[s] = "UNACKNOWLEDGED" => periodic_hb

\* A change leaves the history only when every matched reader that was there when it was
\* written has acknowledged it.
LeavesAcknowledged ==
    [][\A s \in whist \ whist', r \in Matched(rp) :
          s > rp[r].joined => s <= rp[r].acked]_vars
=============================================================================
