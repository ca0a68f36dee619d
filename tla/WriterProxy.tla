---------------------------- MODULE WriterProxy ----------------------------
(***************************************************************************)
(* The record a reliable reader keeps of one matched writer                *)
(* (rtps/reader/WriterProxy.cpp).  Sequence numbers up to the low mark are *)
(* settled: received, or known never to come.  Above it, received holds    *)
(* the numbers settled out of order, and max the largest number known to   *)
(* exist.  The methods are operators from a proxy to a proxy; the reader's *)
(* mutex is held around each of them.                                      *)
(*                                                                         *)
(* 64-bit sequence numbers are natural numbers, fragments, data sharing    *)
(* and same-process delivery are left out: easydds uses none of them.      *)
(***************************************************************************)
EXTENDS FiniteSetsExt

CONSTANT AckWindow      \* how many numbers one ACKNACK can ask for: 256 in the code

ASSUME AckWindowAssumption == AckWindow \in Nat \ {0}

WriterProxyType == [
    alive    : BOOLEAN,         \* is_alive_, and not STOPPED
    low      : Nat,             \* changes_from_writer_low_mark_
    max      : Nat,             \* max_sequence_number_
    received : SUBSET Nat,      \* changes_received_
    notified : Nat,             \* last_notified_
    hbCount  : Nat,             \* last_heartbeat_count_
    hbFinal  : BOOLEAN,         \* heartbeat_final_flag_
    hbSeen   : BOOLEAN,         \* received_at_least_one_heartbeat_
    response : BOOLEAN,         \* heartbeat_response_ is armed
    initial  : BOOLEAN]         \* initial_acknack_ is armed

\* A proxy in the pool: stop() has cancelled its timers and cleared it.
stop == [alive |-> FALSE, low |-> 0, max |-> 0, received |-> {}, notified |-> 0, hbCount |-> 0,
         hbFinal |-> FALSE, hbSeen |-> FALSE, response |-> FALSE, initial |-> FALSE]

\* Faulty variant, which the properties must reject: a writer that returns is started from zero.
start_FromZero(initial_sequence) == [stop EXCEPT !.alive = TRUE, !.initial = TRUE]

\* start(): everything up to the initial sequence counts as settled and notified.
start(initial_sequence) ==
    [stop EXCEPT !.alive = TRUE, !.initial = TRUE, !.low = initial_sequence,
                 !.max = initial_sequence, !.notified = initial_sequence]

LargerOf(a, b) == IF a > b THEN a ELSE b

\* The first number above the low mark that is not settled.
FirstUnsettled(p) == Min(((p.low + 1)..(p.max + 1)) \ p.received)

\* Faulty variant, which the properties must reject: the low mark stays where it is.
cleanup_DoesNothing(p) == p

\* cleanup(): move the low mark over the consecutive received numbers above it.
cleanup(p) ==
    [p EXCEPT !.low = FirstUnsettled(p) - 1,
              !.received = {s \in p.received : s > FirstUnsettled(p)}]

\* Faulty variant, which the properties must reject: the low mark itself counts as lost.
LostBelow_FromLowMark(p, first) == (p.low..(first - 1)) \ p.received

\* The numbers the writer no longer has when its first one is first.
LostBelow(p, first) == ((p.low + 1)..(first - 1)) \ p.received

\* lost_changes_update(): give up on every number below first.
lost_changes_update(p, first) ==
    IF first > p.low + 1
    THEN cleanup([p EXCEPT !.received = {s \in p.received : s >= first},
                           !.low = first - 1,
                           !.max = LargerOf(first - 1, p.max)])
    ELSE p

\* missing_changes_update(): the writer has numbers up to last.
missing_changes_update(p, last) ==
    IF last > p.low THEN [p EXCEPT !.max = LargerOf(last, p.max)] ELSE p

\* received_change_set(), and irrelevant_change_set() which is the same.
received_change_set(p, s) ==
    LET grown == [p EXCEPT !.max = LargerOf(s, p.max)]
    IN  CASE s <= p.low \/ s \in p.received -> p
          [] s = p.low + 1 /\ s > p.max -> [grown EXCEPT !.low = s]
          [] s = p.low + 1 /\ s <= p.max -> cleanup([grown EXCEPT !.low = s])
          [] OTHER -> [grown EXCEPT !.received = p.received \cup {s}]

\* irrelevant_change_set() for each number of a set, whatever the order.
irrelevant_changes_set(p, S) ==
    cleanup([p EXCEPT !.received = p.received \cup {s \in S : s > p.low},
                      !.max = Max(S \cup {p.max})])

change_was_received(p, s) == s <= p.low \/ s \in p.received

\* missing_changes(): what one ACKNACK asks for, limited to the window above the low mark.
missing_changes(p) ==
    {s \in (p.low + 1)..p.max : s <= p.low + AckWindow /\ s \notin p.received}

are_there_missing_changes(p) == p.low < p.max

\* unknown_missing_changes_up_to(): how many unsettled numbers are below s.
unknown_missing_changes_up_to(p, s) == Cardinality(((p.low + 1)..(s - 1)) \ p.received)

\* process_heartbeat() of a HEARTBEAT that is accepted: its count is the largest so far.
process_heartbeat(p, hb) ==
    LET q == missing_changes_update(lost_changes_update(p, hb.first), hb.last)
    IN  [q EXCEPT !.hbCount = hb.count,
                  !.hbFinal = hb.final,
                  !.hbSeen = TRUE,
                  !.response = \/ p.response
                               \/ ~hb.final
                               \/ are_there_missing_changes(q)]
=============================================================================
