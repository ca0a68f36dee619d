----------------------------- MODULE ShmSegment -----------------------------
(***************************************************************************)
(* The shared-memory segment a participant sends from: its buffer nodes,   *)
(* their reference counts and the recovery of buffers                      *)
(* (rtps/transport/shared_mem/SharedMemManager.hpp, BufferNode and         *)
(* Segment).  A status is one 64-bit atomic of the code, so each operator  *)
(* on it is one compare-and-swap.                                          *)
(***************************************************************************)
EXTENDS Integers, Sequences

LOCAL INSTANCE SequencesExt

CONSTANTS Nodes,        \* the buffer nodes: max_allocations of them
          SegmentSize   \* the bytes of payload they share

ASSUME SegmentAssumption == SegmentSize \in Nat

Freed == 0              \* the content of memory nobody has allocated

ValidityIds == 2 ^ 24   \* validity_id is a field of 24 bits,
Counts == 2 ^ 20        \* the two counts are fields of 20

NewStatus == [validity_id |-> 0, enqueued_count |-> 0, processing_count |-> 0]

is_valid(s, id) == s.validity_id = id

\* Faulty variant of invalidate_buffer, which the properties must reject: the buffer keeps
\* its validity id.
invalidate_buffer_SameId(s) == [s EXCEPT !.enqueued_count = 0, !.processing_count = 0]

invalidate_buffer(s) ==
    [validity_id      |-> (s.validity_id + 1) % ValidityIds,
     enqueued_count   |-> 0,
     processing_count |-> 0]

is_not_referenced(s) == s.enqueued_count = 0 /\ s.processing_count = 0
is_processing(s) == s.processing_count # 0

\* The counts of a buffer that is no longer valid for the caller are left alone.
AddCounts(s, id, enqueued, processing) ==
    IF is_valid(s, id)
    THEN [s EXCEPT !.enqueued_count = (@ + enqueued) % Counts,
                   !.processing_count = (@ + processing) % Counts]
    ELSE s

inc_enqueued_count(s, id) == AddCounts(s, id, 1, 0)
dec_enqueued_count(s, id) == AddCounts(s, id, -1, 0)
inc_processing_count(s, id) == AddCounts(s, id, 0, 1)
dec_processing_count(s, id) == AddCounts(s, id, 0, -1)

\* Faulty variant of dec_enqueued_inc_processing_counts, which the properties must reject:
\* the enqueued count is dropped and the processing count forgotten.
dec_enqueued_inc_processing_counts_OnlyDec(s, id) == AddCounts(s, id, -1, 0)

dec_enqueued_inc_processing_counts(s, id) == AddCounts(s, id, -1, 1)

\* Segment(): all nodes free.
NewSegment ==
    [status     |-> [n \in Nodes |-> NewStatus],
     data_size  |-> [n \in Nodes |-> 0],
     memory     |-> [n \in Nodes |-> Freed],
     free       |-> SetToSeq(Nodes),
     allocated  |-> <<>>,
     free_bytes |-> SegmentSize]

\* release_buffer() and the move of the i-th allocated node to the free ones, by
\* recover_buffers(), once the node is invalidated.
recover_buffer(seg, i) ==
    LET n == seg.allocated[i]
    IN  [seg EXCEPT !.status[n] = invalidate_buffer(@),
                    !.memory[n] = Freed,
                    !.free_bytes = @ + seg.data_size[n],
                    !.free = Append(@, n),
                    !.allocated = RemoveAt(@, i)]

\* alloc_buffer(): the node taken, and the segment once the message is in it.
pop_free_node(seg) == Last(seg.free)

alloc_buffer(seg, size, message) ==
    LET n == pop_free_node(seg)
    IN  [seg EXCEPT !.free = Front(@),
                    !.free_bytes = @ - size,
                    !.data_size[n] = size,
                    !.status[n] = inc_processing_count(@, @.validity_id),
                    !.memory[n] = message,
                    !.allocated = Append(@, n)]

\* SharedMemTransport::init() allocates the whole segment once, clears it and lets it go.
init_segment ==
    LET seg == alloc_buffer(NewSegment, SegmentSize, Freed)
        n   == pop_free_node(NewSegment)
    IN  [seg EXCEPT !.status[n] = dec_processing_count(@, @.validity_id)]
=============================================================================
