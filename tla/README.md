# A TLA+ model of easydds

easydds is a publisher and a subscriber of one topic, each a process of its own, on top of
eProsima Fast DDS, whose source is part of the repository. This directory models the two
applications and the part of Fast DDS on which their correctness rests: the reliable RTPS
protocol between a `StatefulWriter` and a `StatefulReader`, the two histories, the timers that
drive them, the shared-memory transport that carries the messages on one host, and the way
discovery tells the applications that they are matched.

Paths below are relative to `src/`; `FD/` stands for `Fast-DDS/src/cpp/`.

## 1. The system

| part | state | operations | who calls them |
|---|---|---|---|
| publisher application (`easydds/easyddsPublisherApp.cxx`) | `matched_`, `stop_`, `samples_sent_`, `mutex_`, `cv_` | `run`, `publish`, `stop`, `on_publication_matched` | its run thread, the signal handler, discovery threads |
| subscriber application (`easydds/easyddsSubscriberApp.cxx`) | `stop_`, `samples_received_`, `terminate_cv_` | `run`, `on_data_available`, `stop`, destructor | its run thread, the signal handler, a receiving thread, `main` |
| `main` (`easydds/easyddsmain.cxx`) | the application, `stop_handler` | create, start, install handlers, join, destroy | the main thread |
| matched status (`FD/fastdds/publisher/DataWriterImpl.cpp`) | `publication_matched_status_` | update, read and reset | discovery threads |
| endpoint pairing (`FD/rtps/builtin/discovery/`) | the readers matched with the writer | pair, unpair, remove a participant | the EDP thread under the PDP mutex; the thread that drops a participant without it |
| stateful writer (`FD/rtps/writer/`) | history, one `ReaderProxy` per reader, timers, all-acked mark | write, deliver, heartbeat, process ACKNACK, nack response, nack suppression, match, unmatch | the run thread, receiving threads, the event thread, the flow controller thread, discovery |
| flow controller (`FD/rtps/flowcontrol/`) | queues of new and old changes | send now, queue, send queued, forget a removed change | the run thread, its own thread |
| stateful reader (`FD/rtps/reader/`) | history, one `WriterProxy` per writer, last notified numbers, unread counter | process DATA, HEARTBEAT and GAP, notify, send ACKNACK, match, unmatch, take | receiving threads, the event thread, discovery, the application |
| timed events (`FD/rtps/resources/`) | the state of each event, pending and active events | start, cancel, recreate, delete, update, trigger | any thread; the event thread |
| shared-memory transport (`FD/rtps/transport/shared_mem/`) | a ring of descriptors per port, a segment of buffers per participant | send, recover buffers, push, pop, wait, notify, delete a channel | sending threads, one listening thread per channel, the thread that deletes it |

The publisher waits until discovery has reported a reader, writes a sample under its own mutex
and then waits 100 ms or for the stop flag. `write()` adds the sample to the KEEP_ALL history,
if necessary waiting until the oldest sample has been acknowledged, and sends it. The reader
stores what it can, notifies the samples that follow each other without a hole, and
`on_data_available()` takes them. Heartbeats and ACKNACKs repair what the network loses.

What makes this hard, and is hard to test:

- condition variables notified without their mutex, from a signal handler;
- discovery callbacks on several threads, some of them outside the lock of the others;
- messages lost, duplicated, delayed and reordered, and stale ones after a rematch;
- a writer that is dropped by its lease and comes back, and readers that join late;
- histories at their limit: a full writer history with a waiting `write()`, a reader history
  filled with samples that are ahead of a hole;
- sends that fail or find no buffer;
- lock-free structures shared by processes: a ring whose cells are claimed, stored, read and
  freed by separate atomic accesses, and buffers recovered under reference counts;
- timers started and cancelled by a compare-and-swap while the event thread runs them, and a
  writer proxy that is stopped, pooled and used for the next writer meanwhile;
- liveness: four timers and two queues have to hand a sample on to each other until it has
  been acknowledged.

`PROJECT.json` lists these hazards at the lines where they bite, with the properties that cover
them.

## 2. Modules

| module | models |
|---|---|
| `PublisherApp` | the run thread with every lock, test, wait and wakeup as a step; the signal handler; discovery threads that update and read the matched status access by access and call the listener |
| `SubscriberApp` | the life of the subscriber process: `main`, run thread, receiving thread, a background thread that outlives the application (the watchdog of the shared-memory transport, or the Log thread), and a signal handler that runs on any of them |
| `WriterProxy` | the reader's record of one writer, as operators on records |
| `RtpsMessages` | DATA, HEARTBEAT, GAP, ACKNACK, and the network `net` |
| `StatefulReader` | a reliable reader with its history, on its own: any well-formed message may arrive at any time |
| `ReaderProxy` | the writer's record of one reader, as operators on records |
| `StatefulWriter` | a reliable writer with its reader proxies, history and flow controller, on its own: readers may acknowledge anything that can have been sent to them |
| `ReliableProtocol` | the writer (which it extends) and a reader (an instance of `StatefulReader`) composed over a network that may lose, duplicate and reorder |
| `ReliableDelivery` | the same with consumed messages, a bounded number of faults (lost messages, failed sends, untimely timers) and fairness |
| `FifoChannel` | the abstract promise: a bounded FIFO channel, and its fair version |
| `TimedEvents` | the events of a participant: state, pending and active collections, the event thread, what other threads do to an event |
| `WriterProxyTimers` | the two timers of a writer proxy, with their callbacks, a receiving thread and the discovery thread that matches, removes, matches again and destroys |
| `ShmRing` | the ring buffer of a port, as operators, one per atomic access |
| `ShmSegment` | buffer nodes, their counts and their recovery, as operators, one per compare-and-swap |
| `ShmTransport` | sending and listening threads and the deletion of a channel, over rings and a segment |
| `BroadcastQueue` | the abstract promise of a port: each listener gets every message, once and in order |
| `MCPublisherApp`, `MCStatefulReader`, `MCStatefulWriter`, `MCShmTransport` | model values, symmetry, views and constraints for TLC |
| `PublisherAppProofs`, `SubscriberAppProofs`, `StatefulReaderProofs`, `ReaderProxyProofs`, `StatefulWriterProofs`, `ReliableReaderProofs`, `ReliableProtocolProofs`, `WriterProxyTimersProofs` | lemmas and theorems |

Definitions keep the names of the methods they model, and `PROJECT.json` ("map") gives the
lines of each. A definition called `name_Something` with a comment "Faulty variant" is a wrong
version of the code that its property must reject; it is used nowhere in a specification.

**Atomicity.** In `PublisherApp` and `SubscriberApp` threads interleave at every access to shared
state. In the reader and the writer each handler is one action, because each holds the
endpoint's mutex from beginning to end; the exceptions are the wait of `try_remove_change()`,
which is modelled as two steps, and the release of the reader's mutex around
`WriterProxy::stop()`, by when the proxy can no longer be found. In `StatefulReader` a timer is a
flag that may fire at any time; `WriterProxyTimers` takes that release and the timers apart, every
compare-and-swap and every critical section a step, and shows that the flag stands for the timer.
In `ShmTransport` a step is one atomic access or one critical section. Two critical sections take
several steps, because listeners look inside without the mutex: `push()`, which claims a cell and
then stores it, and `unregister_listener()`, which pops what is left.

**Data.** A sample is its writer and its sequence number. Sequence numbers and the 32-bit
message counts are natural numbers: neither can wrap in the life of a process. The two 16-bit
sample counters wrap, at a modulus that is a constant.

**Quality of service.** What easydds sets, and nothing else: RELIABLE, TRANSIENT_LOCAL, KEEP_ALL,
no key, remote endpoints, no fragments. With these, changes leave the writer's history only from
its front and the writer sends no GAP; the reader handles GAPs nevertheless, for other writers.

**Network.** In `ReliableProtocol` `net` is the set of all messages ever sent, and any of them may
be received at any time and again, which covers loss, delay, reordering and duplication. In
`ReliableDelivery` a message is received once, in any order, or its loss counts as one of `MaxFaults`.

## 3. Runs

| run | bounds | checks |
|---|---|---|
| `publisher_serial` | 3 readers, one discovery thread, weak and strong fairness | `TypeOK`, `WritesOnlyMatched`, `NoLostMatchWakeup`, `MatchedTellsDiscovery`, `PublishesWhileMatched` |
| `publisher_stop` | 1 reader, a participant being dropped, persistent user | `StopEndsRun` |
| `publisher_one_signal` | 1 reader | `StopEndsRun` is violated |
| `reader` | history of 2; one writer with 3 samples, 2 heartbeat and ACKNACK counts, acknack window 2; or two writers with 2 samples each and heartbeats, of one count, of one of them | `TypeOK`, `MarksAgree`, `SettledIsAccounted`, `AcksNeverRegress`, `TakenInOrder`, `FullHistoryCanBeTaken`, `UnreadIsAvailable` |
| `writer_two_readers` | 2 readers, 3 samples, history of 2, failing sends | `TypeOK`, `ChangesMatchHistory`, `LeavesAcknowledged` |
| `reliable` | 3 samples, both histories of 2, 2 heartbeats, 2 ACKNACKs | `NothingSkipped`, `WriterNeverStalls`, `DiscardedIsDelivered`, `ImplementsChannel` |
| `delivery` | writer history 2, reader history 1; 3 samples without a fault, or 2 with one | `ImplementsFairChannel` |
| `delivery_no_buffer` | 2 samples, no fault, sends that find no buffer | `ImplementsFairChannel` is violated |
| `subscriber` | notifications of up to 2 samples | `DrainedBetweenCallbacks`, `AppOutlivesItsThreads`, `StopEndsProcess` |
| `shm` | 1 sending thread, 1 port, exclusive or shared, 2 listeners of which one may be deleted, 3 messages, ring of 2 cells, 2 buffer nodes, segment of 3 bytes | `TypeOK`, `CellsAreAccountedFor`, `CountsTellUsers`, `HeldBuffersAreIntact`, `ValidDescriptorsAreCurrent`, `NoLostWakeup`, `PortIsBroadcastQueue`, `QueueIsDrained`, `DeletionEnds` |
| `shm_shared` | the same with 2 messages | `ProcessedBuffersAreIntact` is violated |
| `timers` | 3 matches with the same proxy, 2 heartbeats | `TypeOK`, `StartedIsScheduled`, `StoppedIsUnused`, `DeletedIsUnknown`, `DiscoveryReturns`, `InitialAckNackRuns`, `HeartbeatIsAnswered` |

**Why the bounds are enough to be interesting.** Histories of two samples with three to write: the
history becomes full, `write()` waits, the oldest sample is replaced. A reader history smaller
than the number of samples: samples are rejected and repaired, and there are holes. A window of
two, or one, for ACKNACKs: a request is cut off. Two writers or readers: one is ahead of the other, one
leaves. In `writer_two_readers` the ACKNACK count bound 1 still lets every reader acknowledge
once per match, and rematching starts the count again. A rewind by an ACKNACK with base 0 after a
removal is beyond this bound; the proofs for the writer cover it.

In `reader` the constraint `FewOfMany` cuts off behaviours as soon as the reader knows two writers
and one of them exceeds the smaller bounds, or an ACKNACK was sent: what two writers have to do
with each other is the shared history, on which ACKNACKs have no effect. A single writer is
explored to the full bounds.

In `shm` three messages go round a ring of two cells, so both pointers change their lap; the third
one finds the ring full, too few nodes, or too few bytes (it may be of size 2), with buffers that
are enqueued, processed or unreferenced. With one port `enqueued_count` does not exceed one. In `timers` three matches let the remains of the first
use of the proxy meet the second and the third, and two heartbeats let one arrive while the other
is answered.

In `writer_two_readers` the state is viewed without `net` and `heartbeat_count_`: the writer on its
own reads neither, except for the bound on the count, which is so large that it is not reached.

In `delivery` `MaxEvents` bounds the writes begun and the faults together, so that the state space
holds both the longest history without a fault and a fault at every point of a shorter one. The
bounds on counts (40) are not reached, so they restrict no behaviour. A message that will be
ignored whenever it arrives, because its count has been passed or its sample received, is taken off
the network as soon as that is so, which saves states and no behaviour of the two endpoints.

Deadlock is checked for the publisher and for the timers; there it is what finds that
`matched_writer_remove()` must release the reader's mutex before `stop()`. It is not checked for the
subscriber, whose process ends, nor for the protocol modules and the transport, where the bounds on
counts, samples and messages end a behaviour.

**Fairness.** Threads that can run do run (weak fairness). Strong fairness is assumed of two kinds
of step in `PublisherApp`: the deadline of `wait_for`, which passes however often the thread wakes
up before, and a discovery thread that waits for a mutex that is released again and again; and in
`SubscriberApp` of threads that signals interrupt. Discovery, the user's first signal and spurious
wakeups are never forced.

In `ReliableDelivery` the processes do not stop while one of their threads can make a step (one weak
fairness, of all these steps together); writing is not forced. The nack response and the nack
suppression timer fire whenever they are armed, messages underway or not. The other three make
messages: the heartbeat response (5 ms), the periodic heartbeat (3 s) and the initial ACKNACK. They
may fire at any time too, but before what was sent earlier has settled only finitely often: such an
untimely firing counts as a fault, like a loss. A network slower than the timers for ever would
break this assumption, and then nothing promises delivery. The listener takes what it is notified
of before another handler of the reader runs, because `NotifyChanges()` calls it with the reader's
mutex held (`FD/rtps/reader/StatefulReader.cpp:1262`).
`ReliableProtocol`, which has the safety properties, assumes none of this.

In `ShmTransport` weak fairness of the threads is enough. The time-out of a wait is not assumed to
happen, so `QueueIsDrained` and `DeletionEnds` rest on the notifications alone. In
`WriterProxyTimers` the event thread, the callbacks and time are weakly fair. A thread that wants
the mutex of the event thread, or waits until the collections may be changed, gets strong fairness:
the event thread gives the mutex up in every round, whenever it sleeps, and one of these
opportunities has to be taken. A mutex that starves a waiter for ever would break this.

**Refinement.** `ReliableProtocol` implements `FifoChannel` with `sent` mapped to the last number
written and `received` to the last number taken, at a capacity of the two histories together.
`ReliableDelivery` implements the fair channel: what was written is eventually taken.
`ShmTransport` implements `BroadcastQueue`: a listener is open while it is registered, and its queue
is the cells between its read pointer and the write pointer, without the one it is freeing and the
one that is claimed but not stored.

## 4. What the violated runs show

1. *One Ctrl+C may not stop the publisher.* `stop()` notifies `cv_` without `mutex_`. When this falls
   between the predicate and the wait in `publish()`, the notification is lost and the run thread
   sleeps until a reader matches or another signal comes. `publisher_stop` shows that a second signal
   (or a third) is enough. The prompt says "at any time" (`easydds/easyddsmain.cxx:91`).
2. *A sample can stay in the history, never sent.* If no send buffer comes free before the deadline
   of the write, the change is neither sent nor queued, and NACKs for it are ignored. It takes an
   exhausted pool of send buffers, and for long: unless Fast DDS is built with STRICT_REALTIME, which
   is off by default, `DataWriterHistory` passes no deadline and `add_change_()` takes 24 hours
   (`Fast-DDS/include/fastdds/rtps/history/WriterHistory.hpp:261`). While buffers
   come free in time, `delivery` holds.
3. *A buffer can be recovered while a listener of a shared port processes it.* `recover_buffers()`
   tests `is_not_referenced()` and then invalidates, in two accesses
   (`FD/rtps/transport/shared_mem/SharedMemManager.hpp:595-597`). A listener that was not the last
   reader of the cell counts itself in between. The comment of the function says that only buffers
   "not being processed by any listener" are recovered. `HeldBuffersAreIntact` says for whom the
   promise does hold: the sender, and the last reader, which on a unicast port is every reader.

`PROJECT.json` ("findings") quotes the lines of both sides.

Four more behaviours, which no run is kept for, can be reproduced from the modules:

- *`matched_` can be wrong after a participant was dropped.* `update_publication_matched_status()`
  takes no lock (`FD/fastdds/publisher/DataWriterImpl.cpp:1478`), and the thread that drops a
  participant does not hold the PDP mutex. `PublisherApp` with two readers and one element in
  `Droppers` violates `MatchedTellsDiscovery`. With one discovery thread the property holds, and is
  proved.
- *One Ctrl+C may not stop the subscriber either.* Its `stop()` notifies without the mutex as well:
  `SubscriberApp` violates `StopEndsProcess` under `FairSpec`, where the user need not repeat the
  signal.
- *`stop()` can notify a condition variable that is gone.* No thread blocks signals, and the watchdog
  of the shared-memory transport and the Log thread are joined only by static destructors. When the
  handler runs on one of them, `run()` may return on the flag alone (a spurious wakeup, or another
  signal) and `main()` destroy the application before the handler notifies. The process was about
  to end; the module treats it as a crash. On the threads `main()` waits for it cannot happen:
  `AppOutlivesItsThreads`.
- *The initial ACKNACK timer can stay scheduled after `stop()`.* A `cancel_timer()` that falls between
  the end of the callback and the re-arming in `TimedEventImpl::trigger()` finds the event INACTIVE,
  does nothing, and the event is armed again. If it then fires while the proxy is stopped it does
  nothing; for the next writer it is a timer that already runs, at the interval of the writer
  before. `InitialAckNackRuns` shows that this writer is served nevertheless.

## 5. What is proved

The theorems hold for every value of the constants that satisfies the modules' assumptions
(`PublisherAssumption`, `SubscriberAssumption`, `AckWindowAssumption`, `ReaderAssumption`,
`WriterAssumption`, `ProtocolAssumption`, `EventsAssumption`, `ProxyEventsAssumption`: sizes are
positive, bounds are natural numbers, the set of writers is finite, the composition has one reader, a
proxy has two different timers). Two theorems assume more, as an `ASSUME` of their own, and say so
below.

**Publisher** (`PublisherAppProofs`)

- `TypeCorrect`: `TypeOK`, inductive as it stands, because it says at which program points each
  mutex is held.
- `WritesOnlyMatchedHolds`: from `TypeOK`, since the callback cannot have the mutex while the run
  thread has it, and `stop_` is never reset.
- `NoLostMatchWakeupHolds` and `MatchedTellsDiscoveryHolds`, assuming `Droppers = {}`, that is one
  discovery thread. They need `CountsAgree`: at each program point of the discovery thread, what
  `readers`, the status, the thread's copy and `matched_` are with respect to each other.

**Subscriber** (`SubscriberAppProofs`)

- `DrainedBetweenCallbacksHolds`: inductive as it stands, for notifications of any size.
- `AppOutlivesItsThreadsHolds`, for the main, the run and the receiving thread, while a fourth that
  outlives the application handles signals too. It needs `OwnersInv`: a thread that has ended runs no handler, and `main`
  destroys the application only after the run thread has been joined and the receiving thread has
  ended, so that only its own handler, which interrupts it, could still be inside `stop()`.

**Writer proxy** (the first part of `StatefulReaderProofs`). Lemmas about each operator: it keeps the
marks in order, never moves the low mark back, and settles no numbers but those it was given.

**Reader** (`StatefulReaderProofs`), on top of these lemmas, each using the one before:

- `BaseInv`: types, marks of every proxy, and that for a matched writer the notified number, the
  low mark and the record kept for its return are equal. It gives `TypeCorrect` and
  `MarksAgreeHolds`.
- `OrderInv` adds that what was taken, or is still stored, of a writer that is absent but may
  return is not above its record. Without it a returning writer could deliver a sample twice.
  It gives `TakenInOrderHolds`.
- `AccountInv` adds that also while a writer is absent everything up to its record is accounted
  for, since that is where the proxy starts again. It gives `SettledIsAccountedHolds`. Numbers below
  the first one of a writer's first heartbeat, which the code skips without a report, are accounted
  for as irrelevant.
- `FutureInv`: there are always fewer samples ahead of a hole than the history has places. The
  step is the admission test of `received_change_keep_all()`, which keeps a place for each
  missing sample. It gives `FullHistoryCanBeTakenHolds`.
- `UnreadIsAvailableHolds`: `total_unread_` is changed by amounts computed in the handlers (the
  samples between the old and the new low mark, one per sample taken, those of a writer that is
  removed), and is shown to remain the number of samples that can be taken. It is inductive on
  top of `OrderInv`.
- `AcksNeverRegressHolds` needs `AckInv`: every ACKNACK in the network is numbered at most
  `acknack_count_` and acknowledges at most the record of its writer, unless that writer is gone for
  good. A later ACKNACK is built from the low mark, which equals the record.

**Reader proxy** (`ReaderProxyProofs`). `ProxyOK` says that a proxy agrees with the writer's history: it
has exactly the changes of the history above its low mark, what has left the history is below the
mark, and the mark is *covered*: at most the last number written before the reader matched, or at
most what its ACKNACKs have acknowledged. A lemma for each operator says that it keeps this.

**Writer** (`StatefulWriterProofs`), on top of these lemmas, for any number of readers:

- `LeavesAcknowledgedHolds`. The property speaks of one step, but the writer decides it from two
  numbers computed earlier, `may_remove_change_` and the all-acked mark, neither of which is
  updated when a reader joins. `IInv` therefore says that both are covered for every matched
  reader, that every proxy is `ProxyOK`, and that the history is an interval that ends with the last
  number written. A reader that joins is covered because it is owed, in this sense, only what is
  written later; a rewind by an ACKNACK with base 0 because it lowers the mark but not what was
  acknowledged; and the removal of the oldest change because `change_has_been_removed()` moves a
  low mark only past a change that was covered.
- `TypeCorrect` and `ChangesMatchHistoryHolds`, which need a second invariant, `FlowInv`, on top of
  `IInv`: the two queues of the flow controller hold numbers of the history, each of them once in
  one of the queues. Lemmas on sequences say what unlinking a change, appending one and
  appending the changes asked for make of this.
- `NothingStallsHolds`, assuming `~SendMayTimeOut`: every change of every proxy has a timer or a
  queue that will move it on. It is the third conjunct of `FlowInv`, and follows handler by
  handler: what `deliver_sample()` unlinks it puts underway, what an ACKNACK requests arms the
  nack response, what that timer makes unsent it queues, and the suppression timer arms the
  heartbeat. Without the assumption it is false, as `delivery_no_buffer` shows.

**Composition** (`ReliableReaderProofs` for the reader's steps, `ReliableProtocolProofs` for the
writer's and the theorems), for any number of samples, heartbeats and ACKNACKs, any sizes of the two
histories and of the ACKNACK window, and the network of `ReliableProtocol`. `StatefulWriterProofs`
shows that the writer's steps keep `IInv` and `FlowInv`, whatever ACKNACK arrives that acknowledges
only what was written. `ProtocolInv` adds

- `ReaderOK`: the reader's low mark is the last number it has notified, the record; it knows of no
  number that was not written, and has reported none as lost or irrelevant;
- `SamplesOK`: for some k the application has taken exactly 1 to k, and the reader's history holds
  exactly k + 1 up to the record and the numbers received out of order;
- `MessageOK` of every message ever sent: a DATA carries a number that was written, a HEARTBEAT
  gives up nothing beyond the record and announces nothing that was not written, an ACKNACK
  acknowledges nothing beyond the record. Since the record only grows, this stays true however
  late and often a message is received, and it is why a rematch, which lets old messages pass the
  count tests again, does no harm;
- `WriterOK`: what the writer takes as acknowledged is at most the record, and what has left its
  history is at most the record.

The circle closes because the writer discards what is acknowledged, heartbeats give up what was
discarded, the reader skips what heartbeats give up, and acknowledges what it has. From
`ProtocolInv` follow

- `NothingSkippedHolds` and `DiscardedIsDeliveredHolds`;
- `WriterNeverStallsHolds`, assuming `~SendMayTimeOut`;
- `ImplementsChannelHolds`: `ProtocolSpec` implements `FifoChannel`. A `write()` that adds a change is a
  send, `take_next_sample()` is a receive, every other step a stutter. That there is room in the
  channel when `write()` adds is the invariant's account of both histories: what was written and not
  taken is in the writer's history or between k and the record in the reader's.

**Timers of a writer proxy** (`WriterProxyTimersProofs`), for any number of matches and heartbeats:

- `TypeCorrect`, and `TimersAreScheduled`, `ProxyIsReusable` and `NoDanglingEvents`, for
  `StartedIsScheduled`, `StoppedIsUnused` and `DeletedIsUnknown`, all from one inductive invariant
  `IInv`. None of the last three is inductive alone. `ServiceInv` adds what the position of the event thread says of its
  collections: the event whose callback runs is active, not WAITING and not given up, and nothing
  is left to erase outside the scan. `ProxyInv` adds that a callback uses the proxy only while it is
  BUSY, or STOPPED by a thread that is waiting for the callback, and that the receiving thread
  touches a timer only of a matched writer, under the reader's mutex.

**Only model-checked**: all liveness (`PublishesWhileMatched`, `StopEndsRun`, `StopEndsProcess`,
`ImplementsFairChannel`, `QueueIsDrained`, `DeletionEnds`, `DiscoveryReturns`, `InitialAckNackRuns`,
`HeartbeatIsAnswered`), which is outside what the prover supports, and the safety properties of the
shared-memory transport, for which no inductive invariant has been worked out yet: they need the
positions of all listeners on the ring, with the lap bit, and a count of the owners of each buffer.

## 6. What is not modelled

The repository holds some 800,000 lines, most of them bundled libraries, generated code, tests
and parts of Fast DDS that easydds does not use. The map covers a small share of them: the code on
the path of a sample from `write()` to `take_next_sample()`, and the threads around it.

- The discovery protocol (SPDP, SEDP, leases): an environment that matches and unmatches at any time.
- Parsing, encoding, sockets, Fast CDR and the generated type support: sequential code on bytes,
  without the interleavings TLC is for.
- Fragments, data sharing, intraprocess delivery, keys, KEEP_LAST, lifespan, deadline,
  liveliness, content filters, security, statistics: easydds uses none of them.
- The locks inside the flow controller; its steps are atomic here.
- The timestamp order of samples from different writers: the model allows any.
- The publisher's constructor, destructor and place in `main()`. A constructor that throws after
  the participant was created leaks it; the process ends at once.
- Of the shared-memory transport: what happens when a process dies (the watchdog,
  `healthy_check()`, `is_processing` and `recover_blocked_processing()`, `regenerate_port()`), which
  depends on process identities and elapsed times; the files behind ports and segments; the wrap of
  the 24-bit validity id; fragmentation of the segment; the packet logger. The modules allow several
  sending threads and ports; the run has one of each.
- Of the timed events: `stop_thread()`, an event deleted by its own callback, intervals of zero
  and of 24 hours or more. Of the proxy's timers: `matched_writer_remove()` called by the event thread
  itself when a lease expires.

## 7. Plan

Done, in this order: publisher application, reader, writer, composition and refinement,
subscriber process, proofs for publisher and reader, shared-memory transport, timed events and
the writer proxy's timers with proofs, proofs for the writer and the subscriber, proofs for the
composition. Next:

1. The flow controller's concurrency: its asynchronous thread, `writers_interested_in_remove` and
   the two mutexes against a removing writer (deadlock, use of a removed change).
2. Crashes of a process that uses a shared-memory port, with the watchdog.
3. `main()` with the publisher: a failing constructor, and destruction against discovery callbacks.
4. The order of the reader history when clocks step back (`history_order_cmp`).
5. Leases: a participant that is dropped and rediscovered, composed with reader and writer, and
   with `matched_writer_remove()` on the event thread.
6. Proofs about the shared-memory transport: the counts of a buffer, the accounting of the ring's
   cells, and the refinement of `BroadcastQueue`.
