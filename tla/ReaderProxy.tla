---------------------------- MODULE ReaderProxy ----------------------------
(***************************************************************************)
(* The record a reliable writer keeps of one matched reader                *)
(* (rtps/writer/ReaderProxy.cpp): the changes of the history the reader    *)
(* has still to acknowledge, each with its status, above a low mark below  *)
(* which everything is done with.  The methods are operators from a proxy  *)
(* to a proxy; the writer's mutex is held around each of them.  Fragments, *)
(* content filters and readers in the same process are left out: easydds   *)
(* uses none of them.                                                      *)
(***************************************************************************)
EXTENDS FiniteSetsExt

CONSTANT MaxSeq         \* model bound: the last sequence number

Seqs == 1..MaxSeq

\* ChangeForReaderStatus_t, and "none" for a number that is not in changes_for_reader_.
ChangeStatus == {"none", "UNSENT", "REQUESTED", "UNACKNOWLEDGED", "UNDERWAY"}

ReaderProxyType == [
    active      : BOOLEAN,
    low         : Nat,                      \* changes_low_mark_
    changes     : [Seqs -> ChangeStatus],   \* changes_for_reader_
    delivered   : SUBSET Seqs,              \* changes sent to this reader at least once
    nextAck     : Nat,                      \* next_expected_acknack_count_
    suppression : BOOLEAN,                  \* nack_supression_event_ is armed
    joined      : Nat,                      \* history: the last number written when it matched
    acked       : Nat]                      \* history: the most its ACKNACKs have acknowledged

\* A proxy in the pool, after ReaderProxy::stop().
NoProxy == [active |-> FALSE, low |-> 0, changes |-> [s \in Seqs |-> "none"], delivered |-> {},
            nextAck |-> 0, suppression |-> FALSE, joined |-> 0, acked |-> 0]

HasChanges(p) == \E s \in Seqs : p.changes[s] # "none"

\* Faulty variant, which the properties must reject: the number asked for next is acknowledged too.
AckBelow_Inclusive(p, seq) ==
    [p EXCEPT !.low = seq,
              !.changes = [s \in Seqs |-> IF s <= seq THEN "none" ELSE p.changes[s]],
              !.delivered = {s \in p.delivered : s > seq}]

\* acked_changes_set(seq) for seq above the low mark: everything below seq is done with.
AckBelow(p, seq) ==
    [p EXCEPT !.low = seq - 1,
              !.changes = [s \in Seqs |-> IF s < seq THEN "none" ELSE p.changes[s]],
              !.delivered = {s \in p.delivered : s >= seq}]

\* Faulty variant, which the properties must reject: the low mark for an empty history is not set.
Rewind_ForgetsEmpty(p, history, last) ==
    [p EXCEPT !.low = (IF history = {} THEN 0 ELSE Min(history)) - 1]

\* acked_changes_set(0), sent when a reader (re)starts: the low mark goes back to just before
\* the history, and the changes that were done with count as unacknowledged again.
Rewind(p, history, last) ==
    IF history = {}
    THEN [p EXCEPT !.low = last]
    ELSE [p EXCEPT !.low = Min(history) - 1,
                   !.changes = [s \in Seqs |-> IF s \in history /\ s <= p.low
                                               THEN "UNACKNOWLEDGED" ELSE p.changes[s]]]

acked_changes_set(p, seq, history, last) ==
    IF seq > p.low THEN AckBelow(p, seq)
    ELSE IF seq = 0 THEN Rewind(p, history, last)
    ELSE p

\* start(): a late joiner is owed the whole history, so its low mark is set as if it had asked
\* for everything.
start(history, last) ==
    [Rewind(NoProxy, history, last) EXCEPT !.active = TRUE, !.joined = last]

\* add_change(): the newest change, still to be sent.
add_change(p, seq) == [p EXCEPT !.changes[seq] = "UNSENT"]

\* from_unsent_to_status(): the change has been put in a message, and the suppression timer runs.
from_unsent_to_status(p, seq) ==
    [p EXCEPT !.changes[seq] = "UNDERWAY", !.suppression = TRUE,
              !.delivered = p.delivered \cup {seq}]

\* requested_changes_set(): only an unacknowledged change becomes requested.
requested_changes_set(p, missing) ==
    [p EXCEPT !.changes = [s \in Seqs |-> IF s \in missing /\ p.changes[s] = "UNACKNOWLEDGED"
                                          THEN "REQUESTED" ELSE p.changes[s]]]

convert_status_on_all_changes(p, previous, next) ==
    [p EXCEPT !.changes = [s \in Seqs |-> IF p.changes[s] = previous THEN next ELSE p.changes[s]]]

\* change_has_been_removed(): removing the next to be acknowledged acknowledges it.
change_has_been_removed(p, seq) ==
    IF p.changes[seq] = "none" THEN p
    ELSE IF p.low + 1 = seq THEN AckBelow(p, seq + 1)
    ELSE [p EXCEPT !.changes[seq] = "none", !.delivered = p.delivered \ {seq}]

has_unacknowledged(p, first) ==
    first > p.low \/ \E s \in Seqs : p.changes[s] = "UNACKNOWLEDGED"
============================================================================
