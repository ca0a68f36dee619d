---------------------------- MODULE ShmTransport ----------------------------
(***************************************************************************)
(* The shared-memory transport between participants of one host            *)
(* (rtps/transport/shared_mem): threads of one participant send messages   *)
(* through its segment to ports, and the listening thread of each input    *)
(* channel takes them from its port.  Senders and listeners meet in        *)
(* atomics read without a lock and under the mutex of the port, so a step  *)
(* here is one atomic access or one critical section of the code, except   *)
(* that push() and unregister_listener() take several steps inside theirs. *)
(*                                                                         *)
(* Left out: the detection of dead processes (healthy_check, the watchdog, *)
(* is_processing and recover_blocked_processing, regenerate_port), the     *)
(* creation and removal of the files behind ports and segments, and the    *)
(* wrap of a validity id after 2^24 uses of one node.                      *)
(***************************************************************************)
EXTENDS ShmRing, ShmSegment, FiniteSets

CONSTANTS Ports, Listeners, Senders, None,
          PortOf(_),        \* the port an input channel listens to
          Deletable,        \* bound: the input channels a behaviour may delete
          Sizes(_),         \* the sizes message m may have
          MaxMessages       \* bound: messages sent in a behaviour

VARIABLES exclusive,    \* the ports opened ReadExclusive: the unicast ones
          ring,         \* the ring buffer of each port
          mutex,        \* the holder of each port's empty_cv_mutex
          segment,      \* the segment of the sending participant
          alloc_mutex,  \* the sender inside alloc_buffer()
          sender,       \* the sending threads
          listener,     \* the listening threads
          closing,      \* how far delete_input_channel() of each channel is
          sent          \* messages given to send() so far

segmentVars == <<segment, alloc_mutex>>
portVars == <<exclusive, ring, mutex>>
vars == <<exclusive, ring, mutex, segment, alloc_mutex, sender, listener, closing, sent>>

Messages == 1 .. MaxMessages
NoDescriptor == [node |-> None, validity_id |-> 0, message |-> Freed]

\* message is there for the properties: the code finds it through the node.
Descriptors ==
    [node : Nodes, validity_id : 0 .. ValidityIds - 1, message : Messages]
        \union {NoDescriptor}

IdleSender ==
    [pc |-> "idle", size |-> 0, message |-> Freed, it |-> 1, buffer |-> NoDescriptor,
     todo |-> {}, port |-> None, cell |-> 0, wake |-> "none"]

NewListener ==
    [pc |-> "none", read_p |-> [value |-> 0, loop |-> 0], descriptor |-> NoDescriptor,
     last |-> FALSE]

Init ==
    /\ exclusive \in SUBSET Ports
    /\ ring = [p \in Ports |-> init_node(NoDescriptor)]
    /\ mutex = [p \in Ports |-> None]
    /\ segment = init_segment
    /\ alloc_mutex = None
    /\ sender = [s \in Senders |-> IdleSender]
    /\ listener = [l \in Listeners |-> NewListener]
    /\ closing = [l \in Listeners |-> "no"]
    /\ sent = 0

alive(l) == closing[l] = "no"
is_closed(l) == closing[l] \in {"flagged", "notified"}
head(l) == has_head(ring[PortOf(l)], listener[l].read_p)
Waiting(p) == {l \in Listeners : PortOf(l) = p /\ listener[l].pc \in {"parked", "woken"}}
Parked(p) == {l \in Listeners : PortOf(l) = p /\ listener[l].pc = "parked"}
registered(l) == listener[l].pc \notin {"none", "gone"}

\* notify_one() and notify_all() on the port's empty_cv wake the listeners in W.
Woken(W) == [l \in Listeners |-> IF l \in W THEN [listener[l] EXCEPT !.pc = "woken"]
                                            ELSE listener[l]]

-----------------------------------------------------------------------------
\* SharedMemTransport::send(), Segment::alloc_buffer() and recover_buffers().

send(s, size) ==
    /\ sender[s].pc = "idle"
    /\ alloc_mutex = None
    /\ sent < MaxMessages
    /\ sent' = sent + 1
    /\ alloc_mutex' = s
    /\ sender' = [sender EXCEPT ![s] = [IdleSender EXCEPT !.pc = "recover", !.size = size,
                                                          !.message = sent']]
    /\ UNCHANGED <<portVars, segment, listener, closing>>

AtBuffer(s) == sender[s].it <= Len(segment.allocated)
StatusAt(s) == segment.status[segment.allocated[sender[s].it]]
EnoughBytes(s) == segment.free_bytes >= sender[s].size

\* A buffer to keep: go on to the next one.
recover_skip(s) ==
    /\ AtBuffer(s)
    /\ \/ sender[s].pc = "recover" /\ EnoughBytes(s) /\ ~is_not_referenced(StatusAt(s))
       \/ sender[s].pc = "recover" /\ ~EnoughBytes(s) /\ is_processing(StatusAt(s))
       \/ sender[s].pc = "nodes" /\ segment.free = <<>> /\ is_processing(StatusAt(s))
    /\ sender' = [sender EXCEPT ![s].it = @ + 1]
    /\ UNCHANGED <<portVars, segmentVars, listener, closing, sent>>

\* is_not_referenced() holds: the buffer is invalidated by a step of its own.
recover_unreferenced(s) ==
    /\ sender[s].pc = "recover"
    /\ AtBuffer(s) /\ EnoughBytes(s)
    /\ is_not_referenced(StatusAt(s))
    /\ sender' = [sender EXCEPT ![s].pc = "invalidate"]
    /\ UNCHANGED <<portVars, segmentVars, listener, closing, sent>>

recover_invalidate(s) ==
    /\ sender[s].pc = "invalidate"
    /\ segment' = recover_buffer(segment, sender[s].it)
    /\ sender' = [sender EXCEPT ![s].pc = "recover"]
    /\ UNCHANGED <<portVars, alloc_mutex, listener, closing, sent>>

\* Faulty variant of recover_forced, which the properties must reject: buffers being
\* processed are recovered too.
recover_forced_Processing(s) ==
    /\ AtBuffer(s)
    /\ \/ sender[s].pc = "recover" /\ ~EnoughBytes(s)
       \/ sender[s].pc = "nodes" /\ segment.free = <<>>
    /\ segment' = recover_buffer(segment, sender[s].it)
    /\ UNCHANGED <<portVars, alloc_mutex, sender, listener, closing, sent>>

\* invalidate_if_not_processing() succeeds, for want of bytes or of nodes.
recover_forced(s) ==
    /\ AtBuffer(s)
    /\ \/ sender[s].pc = "recover" /\ ~EnoughBytes(s)
       \/ sender[s].pc = "nodes" /\ segment.free = <<>>
    /\ ~is_processing(StatusAt(s))
    /\ segment' = recover_buffer(segment, sender[s].it)
    /\ UNCHANGED <<portVars, alloc_mutex, sender, listener, closing, sent>>

\* The end of the first loop; the second one starts over.
recover_end(s) ==
    /\ sender[s].pc = "recover"
    /\ ~AtBuffer(s)
    /\ sender' = [sender EXCEPT ![s].pc = "nodes", ![s].it = 1]
    /\ UNCHANGED <<portVars, segmentVars, listener, closing, sent>>

RecoveryEnds(s) ==
    /\ sender[s].pc = "nodes"
    /\ segment.free # <<>> \/ ~AtBuffer(s)

alloc(s) ==
    LET n == pop_free_node(segment)
    IN  /\ RecoveryEnds(s)
        /\ EnoughBytes(s) /\ segment.free # <<>>
        /\ segment' = alloc_buffer(segment, sender[s].size, sender[s].message)
        /\ alloc_mutex' = None
        /\ sender' = [sender EXCEPT
             ![s].pc = "ports", ![s].todo = Ports, ![s].it = 1,
             ![s].buffer = [node        |-> n,
                            validity_id |-> segment.status[n].validity_id,
                            message     |-> sender[s].message]]
        /\ UNCHANGED <<portVars, listener, closing, sent>>

\* alloc_buffer() throws, for want of bytes or of nodes, and send() drops the message.
alloc_overflow(s) ==
    /\ RecoveryEnds(s)
    /\ ~EnoughBytes(s) \/ segment.free = <<>>
    /\ alloc_mutex' = None
    /\ sender' = [sender EXCEPT ![s] = IdleSender]
    /\ UNCHANGED <<portVars, segment, listener, closing, sent>>

-----------------------------------------------------------------------------
\* SharedMemTransport::push_discard() and Port::try_push(), of the manager and of the
\* global segment, for each destination in turn.

\* The status of the buffer being sent, and its compare-and-swap.
BufferStatus(s) == segment.status[sender[s].buffer.node]
SetStatus(s, status) == segment' = [segment EXCEPT !.status[sender[s].buffer.node] = status]

try_push(s, p) ==
    /\ sender[s].pc = "ports"
    /\ p \in sender[s].todo
    /\ SetStatus(s, inc_enqueued_count(BufferStatus(s), sender[s].buffer.validity_id))
    /\ sender' = [sender EXCEPT ![s].pc = "push", ![s].port = p, ![s].todo = @ \ {p}]
    /\ UNCHANGED <<portVars, alloc_mutex, listener, closing, sent>>

\* The wake-up a push to port p owes, as read under the mutex.
Owed(p) ==
    IF Waiting(p) = {} THEN "none"
    ELSE IF p \notin exclusive THEN "all"
    ELSE IF is_buffer_empty(ring[p]) THEN "one" ELSE "none"

\* The buffer is enqueued nowhere: no listener, or the ring is full.
push_refused(s) ==
    LET p == sender[s].port
    IN  /\ sender[s].pc = "push"
        /\ mutex[p] = None
        /\ ring[p].registered = 0 \/ is_buffer_full(ring[p])
        /\ sender' = [sender EXCEPT ![s].pc = "unpushed"]
        /\ UNCHANGED <<portVars, segmentVars, listener, closing, sent>>

push_claim(s) ==
    LET p == sender[s].port
    IN  /\ sender[s].pc = "push"
        /\ mutex[p] = None
        /\ ring[p].registered # 0 /\ ~is_buffer_full(ring[p])
        /\ mutex' = [mutex EXCEPT ![p] = s]
        /\ ring' = [ring EXCEPT ![p] = claim_cell(@)]
        /\ sender' = [sender EXCEPT ![s].pc = "store", ![s].wake = Owed(p),
                                    ![s].cell = ring[p].write_p.value]
        /\ UNCHANGED <<exclusive, segmentVars, listener, closing, sent>>

push_store(s) ==
    LET p == sender[s].port
    IN  /\ sender[s].pc = "store"
        /\ ring' = [ring EXCEPT ![p] = store_cell(@, sender[s].cell, sender[s].buffer)]
        /\ mutex' = [mutex EXCEPT ![p] = None]
        /\ sender' = [sender EXCEPT ![s].pc = "notify"]
        /\ UNCHANGED <<exclusive, segmentVars, listener, closing, sent>>

\* Faulty variant of notify, which the properties must reject: one listener is woken, of
\* a shared port too.
notify_One(s) ==
    LET p == sender[s].port
    IN  /\ sender[s].pc = "notify"
        /\ \/ (sender[s].wake = "none" \/ Parked(p) = {}) /\ UNCHANGED listener
           \/ sender[s].wake # "none" /\ \E l \in Parked(p) : listener' = Woken({l})
        /\ sender' = [sender EXCEPT ![s].pc = "ports", ![s].cell = 0, ![s].wake = "none"]
        /\ UNCHANGED <<portVars, segmentVars, closing, sent>>

\* notify_unicast() or notify_multicast(), after the mutex is released.
notify(s) ==
    LET p == sender[s].port
    IN  /\ sender[s].pc = "notify"
        /\ \/ sender[s].wake = "all" /\ listener' = Woken(Parked(p))
           \/ sender[s].wake = "one" /\ \E l \in Parked(p) : listener' = Woken({l})
           \/ sender[s].wake = "one" /\ Parked(p) = {} /\ UNCHANGED listener
           \/ sender[s].wake = "none" /\ UNCHANGED listener
        /\ sender' = [sender EXCEPT ![s].pc = "ports", ![s].cell = 0, ![s].wake = "none"]
        /\ UNCHANGED <<portVars, segmentVars, closing, sent>>

\* No listener was active: the enqueued count is taken back.
undo_enqueued(s) ==
    /\ sender[s].pc = "unpushed"
    /\ SetStatus(s, dec_enqueued_count(BufferStatus(s), sender[s].buffer.validity_id))
    /\ sender' = [sender EXCEPT ![s].pc = "ports"]
    /\ UNCHANGED <<portVars, alloc_mutex, listener, closing, sent>>

\* send() returns and drops its reference to the buffer.
send_end(s) ==
    /\ sender[s].pc = "ports"
    /\ sender[s].todo = {}
    /\ SetStatus(s, dec_processing_count(BufferStatus(s), sender[s].buffer.validity_id))
    /\ sender' = [sender EXCEPT ![s] = IdleSender]
    /\ UNCHANGED <<portVars, alloc_mutex, listener, closing, sent>>

-----------------------------------------------------------------------------
\* The listening thread: SharedMemChannelResource::perform_listen_operation(),
\* Listener::pop() of the manager and Port::wait_pop().

Goto(l, pc) == listener' = [listener EXCEPT ![l].pc = pc]

\* CreateInputChannelResource(): ReadExclusive admits one listener.
create_listener(l) ==
    LET p == PortOf(l)
    IN  /\ listener[l].pc = "none"
        /\ mutex[p] = None
        /\ p \in exclusive => ring[p].registered = 0
        /\ ring' = [ring EXCEPT ![p] = register_listener(@)]
        /\ listener' = [listener EXCEPT ![l].pc = "check", ![l].read_p = ring[p].write_p]
        /\ UNCHANGED <<exclusive, mutex, segmentVars, sender, closing, sent>>

\* is_closed_ is read first; pop() of a closed listener returns nothing, and the thread
\* ends, since disable() came before close().
pop_check_closed(l) ==
    /\ listener[l].pc = "check"
    /\ Goto(l, IF is_closed(l) THEN "end" ELSE "head")
    /\ UNCHANGED <<portVars, segmentVars, sender, closing, sent>>

\* head(): the descriptor is read, or the listener is to wait.
pop_head(l) ==
    /\ listener[l].pc = "head"
    /\ IF head(l)
       THEN listener' = [listener EXCEPT
                ![l].pc = "fetch",
                ![l].descriptor = ring[PortOf(l)].data[listener[l].read_p.value]]
       ELSE Goto(l, "wait")
    /\ UNCHANGED <<portVars, segmentVars, sender, closing, sent>>

\* Faulty variant of wait_pop, which the properties must reject: it waits without looking
\* at the queue again under the mutex.
wait_pop_Blind(l) ==
    /\ \/ listener[l].pc = "wait" /\ Goto(l, "parked")
       \/ listener[l].pc = "woken" /\ Goto(l, IF is_closed(l) \/ head(l) THEN "check"
                                                                         ELSE "parked")
    /\ mutex[PortOf(l)] = None
    /\ UNCHANGED <<portVars, segmentVars, sender, closing, sent>>

\* wait_pop() under the mutex: on entry, and whenever the listener is woken.
wait_pop(l) ==
    /\ listener[l].pc \in {"wait", "woken"}
    /\ mutex[PortOf(l)] = None
    /\ Goto(l, IF is_closed(l) \/ head(l) THEN "check" ELSE "parked")
    /\ UNCHANGED <<portVars, segmentVars, sender, closing, sent>>

\* timed_wait() times out, or returns without a cause: the predicate is tried again.
wait_timeout(l) ==
    /\ listener[l].pc = "parked"
    /\ Goto(l, "woken")
    /\ UNCHANGED <<portVars, segmentVars, sender, closing, sent>>

\* Listener::pop() of the ring, in pop() and in unregister_listener(): the read pointer
\* moves on at once, or when the cell is freed.
FetchSub(l, next) ==
    LET p    == PortOf(l)
        last == is_last_reader(ring[p], listener[l].read_p)
    IN  /\ ring' = [ring EXCEPT ![p] = fetch_sub(@, listener[l].read_p)]
        /\ listener' = [listener EXCEPT
                ![l].pc = IF last THEN "free" ELSE next,
                ![l].last = last,
                ![l].read_p = IF last THEN @ ELSE inc_pointer(@)]

pop_fetch_sub(l) ==
    /\ listener[l].pc = "fetch"
    /\ FetchSub(l, "count")
    /\ UNCHANGED <<exclusive, mutex, segmentVars, sender, closing, sent>>

pop_free_cell(l) ==
    LET p == PortOf(l)
    IN  /\ listener[l].pc = "free"
        /\ ring' = [ring EXCEPT ![p] = free_cell(@)]
        /\ listener' = [listener EXCEPT
                ![l].pc = IF mutex[p] = l THEN "unregister" ELSE "count",
                ![l].read_p = inc_pointer(@)]
        /\ UNCHANGED <<exclusive, mutex, segmentVars, sender, closing, sent>>

\* The buffer is marked as processed, unless the sender has recovered it.
pop_count(l) ==
    LET d == listener[l].descriptor
        s == segment.status[d.node]
    IN  /\ listener[l].pc = "count"
        /\ segment' = [segment EXCEPT !.status[d.node] =
                IF listener[l].last THEN dec_enqueued_inc_processing_counts(@, d.validity_id)
                                    ELSE inc_processing_count(@, d.validity_id)]
        /\ listener' = [listener EXCEPT
                ![l].pc = IF is_valid(s, d.validity_id) THEN "use" ELSE "check",
                ![l].descriptor = IF is_valid(s, d.validity_id) THEN @ ELSE NoDescriptor,
                ![l].last = is_valid(s, d.validity_id) /\ @]
        /\ UNCHANGED <<portVars, alloc_mutex, sender, closing, sent>>

\* OnDataReceived() is over and message.reset() drops the buffer; alive() is read next.
process_end(l) ==
    LET d == listener[l].descriptor
    IN  /\ listener[l].pc = "use"
        /\ segment' = [segment EXCEPT !.status[d.node] =
                            dec_processing_count(@, d.validity_id)]
        /\ listener' = [listener EXCEPT ![l].pc = IF alive(l) THEN "check" ELSE "end",
                                        ![l].descriptor = NoDescriptor, ![l].last = FALSE]
        /\ UNCHANGED <<portVars, alloc_mutex, sender, closing, sent>>

-----------------------------------------------------------------------------
\* delete_input_channel(): disable(), close_listener(), the join of the thread, and
\* unregister_listener() in the destructor.

disable(l) ==
    /\ l \in Deletable
    /\ closing[l] = "no"
    /\ listener[l].pc # "none"
    /\ closing' = [closing EXCEPT ![l] = "disabled"]
    /\ UNCHANGED <<portVars, segmentVars, sender, listener, sent>>

close_flag(l) ==
    /\ closing[l] = "disabled"
    /\ mutex[PortOf(l)] = None
    /\ closing' = [closing EXCEPT ![l] = "flagged"]
    /\ UNCHANGED <<portVars, segmentVars, sender, listener, sent>>

close_notify(l) ==
    /\ closing[l] = "flagged"
    /\ closing' = [closing EXCEPT ![l] = "notified"]
    /\ listener' = Woken(Parked(PortOf(l)))
    /\ UNCHANGED <<portVars, segmentVars, sender, sent>>

unregister_start(l) ==
    /\ listener[l].pc = "end"
    /\ closing[l] = "notified"
    /\ mutex[PortOf(l)] = None
    /\ mutex' = [mutex EXCEPT ![PortOf(l)] = l]
    /\ Goto(l, "unregister")
    /\ UNCHANGED <<exclusive, ring, segmentVars, sender, closing, sent>>

unregister_pop(l) ==
    /\ listener[l].pc = "unregister"
    /\ head(l)
    /\ FetchSub(l, "unregister")
    /\ UNCHANGED <<exclusive, mutex, segmentVars, sender, closing, sent>>

unregister_end(l) ==
    LET p == PortOf(l)
    IN  /\ listener[l].pc = "unregister"
        /\ ~head(l)
        /\ ring' = [ring EXCEPT ![p] = unregister_listener(@)]
        /\ mutex' = [mutex EXCEPT ![p] = None]
        /\ listener' = [listener EXCEPT ![l] = [NewListener EXCEPT !.pc = "gone"]]
        /\ UNCHANGED <<exclusive, segmentVars, sender, closing, sent>>

-----------------------------------------------------------------------------
\* What a sending thread does once it has a message to send.
SenderStep(s) ==
    \/ recover_skip(s) \/ recover_unreferenced(s) \/ recover_invalidate(s)
    \/ recover_forced(s) \/ recover_end(s) \/ alloc(s) \/ alloc_overflow(s)
    \/ \E p \in Ports : try_push(s, p)
    \/ push_refused(s) \/ push_claim(s) \/ push_store(s) \/ notify(s)
    \/ undo_enqueued(s) \/ send_end(s)

\* What a listening thread does by itself, and what its deletion does once begun.
ListenerStep(l) ==
    \/ pop_check_closed(l) \/ pop_head(l) \/ wait_pop(l)
    \/ pop_fetch_sub(l) \/ pop_free_cell(l) \/ pop_count(l) \/ process_end(l)

DeleteStep(l) ==
    \/ close_flag(l) \/ close_notify(l)
    \/ unregister_start(l) \/ unregister_pop(l) \/ unregister_end(l)

Next ==
    \/ \E s \in Senders : SenderStep(s) \/ \E size \in Sizes(sent + 1) : send(s, size)
    \/ \E l \in Listeners : ListenerStep(l) \/ DeleteStep(l)
    \/ \E l \in Listeners : create_listener(l) \/ wait_timeout(l) \/ disable(l)

\* Threads that can run do run.  Nobody has to send or to delete a channel, and a wait need
\* not time out: the wake-ups alone must do.
Fairness ==
    /\ \A s \in Senders : WF_vars(SenderStep(s))
    /\ \A l \in Listeners : WF_vars(ListenerStep(l)) /\ WF_vars(DeleteStep(l))

Spec == Init /\ [][Next]_vars /\ Fairness

-----------------------------------------------------------------------------
TypeOK ==
    /\ exclusive \subseteq Ports
    /\ \A p \in Ports :
         /\ ring[p].write_p \in Pointers
         /\ ring[p].free_cells \in 0 .. TotalCells
         /\ ring[p].registered \in 0 .. Cardinality(Listeners)
         /\ ring[p].refs \in [Cells -> 0 .. Cardinality(Listeners)]
         /\ \A c \in Cells : ring[p].data[c] \in Descriptors
    /\ mutex \in [Ports -> Senders \union Listeners \union {None}]
    /\ alloc_mutex \in Senders \union {None}
    /\ \A l \in Listeners : /\ listener[l].read_p \in Pointers
                            /\ listener[l].descriptor \in Descriptors
    /\ closing \in [Listeners -> {"no", "disabled", "flagged", "notified"}]
    /\ sent \in 0 .. MaxMessages

\* The cells of its port that listener l has still to take, oldest first: all those ahead
\* of it, except one it is freeing and one that is claimed and not stored yet.
ToTake(l) ==
    LET p     == PortOf(l)
        ahead == Ahead(ring[p], listener[l].read_p)
    IN  IF ~registered(l) THEN <<>>
        ELSE SubSeq(ahead, IF listener[l].pc = "free" THEN 2 ELSE 1,
                           IF mutex[p] \in Senders THEN Len(ahead) - 1 ELSE Len(ahead))

Queue(l) ==
    LET cells == ToTake(l)
    IN  [i \in DOMAIN cells |-> ring[PortOf(l)].data[cells[i]].message]

Broadcast == INSTANCE BroadcastQueue
    WITH open <- {l \in Listeners : registered(l)}, queue <- [l \in Listeners |-> Queue(l)]

\* A port is a broadcast queue: push() and Listener::pop(), lock-free against each other,
\* lose, repeat and reorder nothing for any listener that is registered.
PortIsBroadcastQueue == Broadcast!Spec

Takers(p, c) ==
    {l \in Listeners : PortOf(l) = p /\ LET cells == ToTake(l)
                                      IN  \E i \in DOMAIN cells : cells[i] = c}

\* A cell waits for exactly the listeners that have not taken it, and no cell is lost to
\* the ring: it is free, read, claimed by a push or about to be freed by its last reader.
CellsAreAccountedFor ==
    \A p \in Ports :
        /\ \A c \in Cells : ring[p].refs[c] = Cardinality(Takers(p, c))
        /\ ring[p].free_cells
             + Cardinality({c \in Cells : ring[p].refs[c] > 0})
             + Cardinality({s \in Senders : sender[s].pc = "store" /\ sender[s].port = p})
             + Cardinality({l \in Listeners : listener[l].pc = "free" /\ PortOf(l) = p})
               = TotalCells

\* The senders and the listeners that hold a buffer with processing_count.
Holds(s, n) == sender[s].pc \in {"ports", "push", "store", "notify", "unpushed"}
                 /\ sender[s].buffer.node = n
Processes(l, n) == /\ listener[l].pc = "use" /\ listener[l].descriptor.node = n
                   /\ is_valid(segment.status[n], listener[l].descriptor.validity_id)

\* The ports that owe buffer n, as it is valid now, a decrement of enqueued_count: it is
\* in a cell somebody has still to take, or its last reader has not counted itself yet.
Owes(p, n) ==
    LET id == segment.status[n].validity_id
        Is(d) == d.node = n /\ d.validity_id = id
    IN  \/ \E c \in Cells : ring[p].refs[c] > 0 /\ Is(ring[p].data[c])
        \/ \E l \in Listeners : /\ PortOf(l) = p /\ listener[l].last /\ mutex[p] # l
                                /\ listener[l].pc \in {"free", "count"}
                                /\ Is(listener[l].descriptor)
        \/ \E s \in Senders : /\ sender[s].port = p /\ Is(sender[s].buffer)
                              /\ sender[s].pc \in {"push", "store", "unpushed"}

\* The two counts of a buffer, changed by compare-and-swaps of several processes, tell who
\* uses it: processing_count is the number of its holders, and enqueued_count, which never
\* passes below zero, covers every port it is queued in.
CountsTellUsers ==
    \A n \in Nodes :
        LET s    == segment.status[n]
            owed == {p \in Ports : Owes(p, n)}
        IN  /\ s.processing_count = Cardinality({t \in Senders : Holds(t, n)})
                                     + Cardinality({l \in Listeners : Processes(l, n)})
            /\ s.enqueued_count \in Cardinality(owed) .. Cardinality(Ports)

\* A buffer is not recovered under its users: a sender finds its message in the buffer from
\* alloc_buffer() until send() returns, and so does a listener that took it from the port
\* as the last one, which on a ReadExclusive port is every listener.
HeldBuffersAreIntact ==
    /\ \A s \in Senders : \A n \in Nodes :
         Holds(s, n) => segment.memory[n] = sender[s].message
    /\ \A l \in Listeners : listener[l].pc = "use" /\ listener[l].last =>
         segment.memory[listener[l].descriptor.node] = listener[l].descriptor.message

\* What processing_count is documented to tell the sender: no buffer is recovered while a
\* listener processes it.
ProcessedBuffersAreIntact ==
    \A l \in Listeners : listener[l].pc = "use" =>
        segment.memory[listener[l].descriptor.node] = listener[l].descriptor.message

\* A descriptor whose validity_id is still the buffer's leads to the message it was pushed
\* for, however often the buffer was recovered and reused meanwhile.
ValidDescriptorsAreCurrent ==
    \A l \in Listeners :
        LET d == listener[l].descriptor
        IN  listener[l].pc \in {"fetch", "free", "count"} /\ mutex[PortOf(l)] # l
              /\ is_valid(segment.status[d.node], d.validity_id)
                => segment.memory[d.node] = d.message

\* No wake-up is lost, though the notification is sent after the mutex is released and for
\* a unicast port only when the ring was empty: a listener asleep with something to take,
\* or closed, is about to be notified.
NoLostWakeup ==
    \A l \in Listeners : listener[l].pc = "parked" /\ (head(l) \/ is_closed(l)) =>
        \/ closing[l] = "flagged"
        \/ \E s \in Senders : /\ sender[s].pc = "notify" /\ sender[s].port = PortOf(l)
                              /\ sender[s].wake # "none"

\* A listener that is not deleted takes all that is pushed to its port, without the help
\* of the time-out of its wait.
QueueIsDrained ==
    \A l \in Listeners \ Deletable : (registered(l) /\ ToTake(l) # <<>>) ~> (ToTake(l) = <<>>)

\* delete_input_channel() ends: the thread, asleep or not, sees the flag and is joined.
DeletionEnds ==
    \A l \in Deletable : (closing[l] = "disabled") ~> (listener[l].pc = "gone")
=============================================================================
