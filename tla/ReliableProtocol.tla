-------------------------- MODULE ReliableProtocol --------------------------
(***************************************************************************)
(* A publisher's writer and a subscriber's reader, connected by a network  *)
(* that loses, duplicates, delays and reorders: a message that has been    *)
(* sent may be received at any later time, any number of times, or never.  *)
(*                                                                         *)
(* The publisher writes only while its listener has a reader (PublisherApp *)
(* shows that), so the reader is matched before the first sample.  The     *)
(* reader may drop the writer when its lease expires and match it again.   *)
(***************************************************************************)
EXTENDS StatefulWriter

CONSTANTS ThisReader,   \* the only reader
          MaxSamples,   \* resource_limits().max_samples of the reader
          AckWindow     \* how many numbers one ACKNACK can ask for

ASSUME ProtocolAssumption ==
    /\ Readers = {ThisReader}
    /\ {MaxSamples, AckWindow} \subseteq Nat \ {0}

\* The state of the reader; that of the writer is StatefulWriter's.
VARIABLES wp, gone, history_record, hist, total_unread_, acknack_count_, taken, irrelevant, lost

R == INSTANCE StatefulReader WITH Writers <- {ThisWriter}

readerVars == <<wp, gone, history_record, hist, total_unread_, acknack_count_, taken, irrelevant, lost>>
protocolVars == <<writerVars, readerVars, net>>

ProtocolInit == WriterInit /\ R!ReaderInit /\ net = {}

\* The publisher's write(), once a reader is matched.
Publish == rp[ThisReader].active /\ write

WriterStep ==
    /\ \/ Publish
       \/ RoomAppears
       \/ WriteTimesOut
       \/ SendQueued
       \/ SendQueuedFails
       \/ matched_reader_add(ThisReader)
       \/ Timers
    /\ UNCHANGED readerVars

ReaderStep ==
    /\ \/ R!matched_writer_add(ThisWriter)
       \/ R!matched_writer_remove(ThisWriter, TRUE)
       \/ R!take_next_sample
       \/ R!Timers
    /\ UNCHANGED writerVars

\* The reader's threads receive a submessage of the writer.
ReaderReceives(m) ==
    /\ \/ m.type = "DATA" /\ R!process_data_msg(ThisWriter, m.seq)
       \/ m.type = "HEARTBEAT" /\ R!process_heartbeat_msg(ThisWriter, m)
    /\ UNCHANGED writerVars

\* The writer's threads receive an ACKNACK.
WriterReceives(m) ==
    /\ m.type = "ACKNACK"
    /\ process_acknack(m)
    /\ UNCHANGED readerVars

Arrives ==
    \E m \in net :
        \/ ReaderReceives(m) /\ UNCHANGED net
        \/ WriterReceives(m) /\ net' = net \cup AckNackReply(m)

ProtocolNext == WriterStep \/ ReaderStep \/ Arrives

ProtocolSpec == ProtocolInit /\ [][ProtocolNext]_protocolVars

-----------------------------------------------------------------------------
Has(s) == <<ThisWriter, s>> \in hist \cup taken

\* The writer discards a sample only once the reader has it for its application: what the
\* reader's ACKNACKs claim and what the writer makes of them, stale ones included, agree.
DiscardedIsDelivered ==
    [][\A s \in whist \ whist' : Has(s) /\ s <= history_record[ThisWriter]]_protocolVars

\* The application gets every sample: none is taken before an earlier one, and none is reported
\* as lost or skipped.
NothingSkipped ==
    /\ \A t \in taken, s \in 1..MaxSeq : s < t[2] => <<ThisWriter, s>> \in taken
    /\ lost = {} /\ irrelevant = {}

\* A change the reader has not acknowledged always has a timer or the flow controller to move
\* it on.
WriterNeverStalls == NothingStalls

\* The protocol is a reliable FIFO channel from write() to take_next_sample(), which holds at
\* most what fits in both histories.
LastTaken == Max({0} \cup {t[2] : t \in taken})
Channel == INSTANCE FifoChannel WITH sent <- lastSeq, received <- LastTaken,
                                     Capacity <- HistorySize + MaxSamples
ImplementsChannel == Channel!Spec
=============================================================================
