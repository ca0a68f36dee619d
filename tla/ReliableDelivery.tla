-------------------------- MODULE ReliableDelivery --------------------------
(***************************************************************************)
(* ReliableProtocol with the assumptions under which samples arrive in the *)
(* end.  A message is received once, in any order.  Neither side drops the *)
(* other.  Only finitely often does something go wrong: a message is lost, *)
(* a change fails to be sent again, or a timer that makes messages fires   *)
(* before the ones already sent have settled.  That is, the heartbeat      *)
(* response (5 ms) while messages are underway; the periodic heartbeat     *)
(* (3 s) and the initial ACKNACK while there are, or the other timers have *)
(* work.  The nack response and nack suppression timers fire whenever they *)
(* are armed.                                                              *)
(***************************************************************************)
EXTENDS ReliableProtocol

CONSTANTS
    MaxFaults,          \* model bound: how many things go wrong
    MaxEvents           \* model bound: writes begun and faults, together

ASSUME DeliveryAssumption == {MaxFaults, MaxEvents} \subseteq Nat

VARIABLE faults

deliveryVars == <<protocolVars, faults>>

Begun == IF wpc = "waiting" THEN lastSeq + 1 ELSE lastSeq

WithinBound == Begun + faults < MaxEvents

Fault == WithinBound /\ faults < MaxFaults /\ faults' = faults + 1

-----------------------------------------------------------------------------
\* Messages

Ignored(m) ==
    CASE m.type = "DATA" -> ~R!DataAccepted(ThisWriter, m.seq)
      [] m.type = "HEARTBEAT" -> ~R!HeartbeatAccepted(ThisWriter, m)
      [] m.type = "ACKNACK" -> ~AckNackAccepted(m)

\* A message that is ignored whenever it arrives: its count has been passed, or its sample was
\* received.  Receiving it would change nothing, so it is taken off the network early.
Overtaken(m) ==
    \/ m.type = "DATA" /\ wp[ThisWriter].alive /\ R!change_was_received(wp[ThisWriter], m.seq)
    \/ m.type = "HEARTBEAT" /\ wp[ThisWriter].alive /\ m.count <= wp[ThisWriter].hbCount
    \/ m.type = "ACKNACK" /\ rp[ThisReader].active /\ m.count < rp[ThisReader].nextAck

\* NotifyChanges() calls the listener with the reader's mutex held, and the listener takes what
\* there is: until it has, no other handler of the reader runs.
ListenerReturned == total_unread_ = 0

Receive(m) ==
    LET replies == IF m.type = "ACKNACK" /\ AckNackAccepted(m) THEN AckNackReply(m) ELSE {}
    IN  /\ \/ ListenerReturned /\ ReaderReceives(m)
           \/ WriterReceives(m)
           \/ Ignored(m) /\ UNCHANGED <<writerVars, readerVars>>
        /\ net' = {n \in net \ {m} : ~Overtaken(n)'} \cup replies
        /\ UNCHANGED faults

Lose(m) ==
    /\ Fault
    /\ net' = net \ {m}
    /\ UNCHANGED <<writerVars, readerVars>>

\* A queued change whose sending times out may be lost as well.
SendFails == Fault /\ SendQueuedFails /\ UNCHANGED readerVars

-----------------------------------------------------------------------------
\* Timers

WriterTimers ==
    /\ perform_nack_response \/ perform_nack_supression(ThisReader)
    /\ UNCHANGED <<readerVars, faults>>

HeartbeatResponse ==
    /\ ListenerReturned
    /\ R!perform_heartbeat_response(ThisWriter)
    /\ UNCHANGED writerVars

SlowTimers ==
    \/ send_periodic_heartbeat /\ UNCHANGED readerVars
    \/ R!perform_initial_ack_nack(ThisWriter) /\ UNCHANGED writerVars

AtRest ==
    /\ net = {} /\ ListenerReturned
    /\ Linked = {} /\ ~nack_response
    /\ rp[ThisReader].active /\ ~rp[ThisReader].suppression
    /\ wp[ThisWriter].alive /\ ~wp[ThisWriter].response

TimelyTimers ==
    /\ \/ net = {} /\ HeartbeatResponse
       \/ AtRest /\ SlowTimers
    /\ UNCHANGED faults

UntimelyTimers ==
    /\ Fault
    /\ \/ net # {} /\ HeartbeatResponse
       \/ ~AtRest /\ SlowTimers

-----------------------------------------------------------------------------
Match ==
    /\ \/ matched_reader_add(ThisReader) /\ UNCHANGED readerVars
       \/ R!matched_writer_add(ThisWriter) /\ UNCHANGED writerVars
    /\ UNCHANGED faults

Writes ==
    /\ \/ WithinBound /\ Publish
       \/ WriteTimesOut
    /\ UNCHANGED <<readerVars, faults>>

SendsWhatWaited == (RoomAppears \/ SendQueued) /\ UNCHANGED <<readerVars, faults>>

Takes == R!take_next_sample /\ UNCHANGED <<writerVars, faults>>

\* What the two processes do by themselves.
SystemStep ==
    \/ Takes \/ Match
    \/ TimelyTimers \/ WriterTimers
    \/ SendsWhatWaited
    \/ \E m \in net : Receive(m)

DeliveryNext ==
    \/ SystemStep
    \/ Writes
    \/ UntimelyTimers
    \/ SendFails
    \/ \E m \in net : Lose(m)

\* The processes do not stop while one of their threads can make a step; which one does is left
\* open.  Writing is not required.
DeliverySpec ==
    ProtocolInit /\ faults = 0 /\ [][DeliveryNext]_deliveryVars /\ WF_deliveryVars(SystemStep)

-----------------------------------------------------------------------------
\* Every sample written is taken in the end, in order, whatever is lost on the way (DATA,
\* HEARTBEAT or ACKNACK) or overtaken by a timer.
ImplementsFairChannel == Channel!FairSpec
=============================================================================
