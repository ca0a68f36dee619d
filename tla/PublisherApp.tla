---------------------------- MODULE PublisherApp ----------------------------
(***************************************************************************)
(* The publisher process of easydds: the thread that runs                  *)
(* easyddsPublisherApp::run(), the signal handler that calls stop(), and   *)
(* the discovery threads of Fast DDS that match and unmatch remote readers *)
(* and call on_publication_matched().                                      *)
(*                                                                         *)
(* Threads share the application's mutex_, cv_, matched_ and stop_, and    *)
(* the DataWriter's mutex and PublicationMatchedStatus.  Only the run      *)
(* thread ever waits on cv_, so "is parked on cv_" is a value of its       *)
(* program counter, and a notification that finds it elsewhere is lost.    *)
(***************************************************************************)
EXTENDS Integers

CONSTANTS
    Readers,        \* remote DataReaders that discovery may find
    Edp,            \* the thread that handles endpoint discovery (SEDP), holding the PDP mutex
    Droppers,       \* threads that remove a whole remote participant, not holding the PDP mutex
    CounterModulus, \* samples_sent_ is a uint16_t: 2^16 in the code
    CountBound      \* model bound: no discovery event begins once the racy counts drift past it

ASSUME PublisherAssumption ==
    /\ Edp \notin Droppers
    /\ CounterModulus \in Nat \ {0}
    /\ CountBound \in Nat

Threads == {Edp} \cup Droppers

VARIABLES
    pc,             \* program counter of the run thread
    stop_,          \* the atomic flag
    matched_,       \* the reader count last told by the listener
    samples_sent_,
    mutex_,         \* "run" while the run thread holds the application's mutex, else "free"
    wmutex,         \* the same for the DataWriter's mutex, held inside write()
    readers,        \* readers matched in the RTPS writer
    status,         \* publication_matched_status_: current_count and current_count_change
    dpc,            \* program counter of each discovery thread
    local,          \* its locals: the reader, count_change, a register, the copied status
    sig             \* the signal handler: between signals, or about to notify cv_

runVars == <<pc, samples_sent_, mutex_, wmutex>>
discoveryVars == <<readers, status, dpc, local>>
vars == <<pc, stop_, matched_, samples_sent_, mutex_, wmutex, readers, status, dpc, local, sig>>

Status == [count : Int, change : Int]
NoStatus == [count |-> 0, change |-> 0]
Locals == [target : SUBSET Readers, delta : {1, -1}, reg : Int, info : Status]
NoLocals == [target |-> {}, delta |-> 1, reg |-> 0, info |-> NoStatus]

RunPc == {"loop", "lock", "pred", "enqueue", "parked", "relock", "check", "write", "writing",
          "lock2", "pred2", "enqueue2", "parked2", "relock2", "timeout2", "done"}
DiscoveryPc == {"idle", "unpair", "load", "store", "loadChange", "storeChange", "get",
                "callback", "notify"}

\* Program points of the run thread at which it holds mutex_.
HoldsMutex == {"pred", "enqueue", "check", "write", "writing", "pred2", "enqueue2"}
\* Program points at which the run thread sleeps on cv_.
Parked == {"parked", "parked2"}

Init ==
    /\ pc = "loop"
    /\ stop_ = FALSE
    /\ matched_ = 0
    /\ samples_sent_ = 0
    /\ mutex_ = "free"
    /\ wmutex = "free"
    /\ readers = {}
    /\ status = NoStatus
    /\ dpc = [t \in Threads |-> "idle"]
    /\ local = [t \in Threads |-> NoLocals]
    /\ sig = "idle"

-----------------------------------------------------------------------------
\* cv_.notify_one(): wakes the run thread if it is parked, and is lost otherwise.

NotifyOne ==
    pc' = CASE pc = "parked" -> "relock"
            [] pc = "parked2" -> "relock2"
            [] OTHER -> pc

\* The wakeups that the standard allows a condition variable without a notification.
SpuriousWakeup ==
    /\ pc \in Parked
    /\ NotifyOne
    /\ UNCHANGED <<stop_, matched_, samples_sent_, mutex_, wmutex, discoveryVars, sig>>

-----------------------------------------------------------------------------
\* run() and publish()

RunGoto(from, to) == pc = from /\ pc' = to

Locks(from, to) ==
    /\ RunGoto(from, to)
    /\ mutex_ = "free"
    /\ mutex_' = "run"
    /\ UNCHANGED <<samples_sent_, wmutex>>

Unlocks(from, to) ==
    /\ RunGoto(from, to)
    /\ mutex_' = "free"
    /\ UNCHANGED <<samples_sent_, wmutex>>

Steps(from, to) == RunGoto(from, to) /\ UNCHANGED <<samples_sent_, mutex_, wmutex>>

\* while (!is_stopped())
WhileNotStopped == Steps("loop", IF stop_ THEN "done" ELSE "lock")

\* Faulty variant of MatchPredicate, which the properties must reject.
MatchPredicate_IgnoresStop == Steps("pred", IF matched_ > 0 THEN "check" ELSE "enqueue")

\* publish(): cv_.wait(matched_lock, matched_ > 0 || is_stopped())
LockForMatch == Locks("lock", "pred")
MatchPredicate == Steps("pred", IF matched_ > 0 \/ stop_ THEN "check" ELSE "enqueue")
ParkForMatch == Unlocks("enqueue", "parked")
RelockForMatch == Locks("relock", "pred")

\* publish(): if (!is_stopped()) write(), still holding mutex_
CheckStopped ==
    \/ stop_ /\ Unlocks("check", "lock2")
    \/ ~stop_ /\ Steps("check", "write")

\* writer_->write() takes the DataWriter's mutex ...
EnterWrite ==
    /\ RunGoto("write", "writing")
    /\ wmutex = "free"
    /\ wmutex' = "run"
    /\ UNCHANGED <<samples_sent_, mutex_>>

\* Faulty variant of the definition below, which the properties must reject.
LeaveWrite_KeepsMutex ==
    /\ RunGoto("writing", "lock2")
    /\ wmutex' = "free"
    /\ UNCHANGED mutex_
    /\ samples_sent_' \in {samples_sent_, (samples_sent_ + 1) % CounterModulus}

\* ... and returns RETCODE_OK or an error (a full history after max_blocking_time);
\* only an OK sample is counted by run().
LeaveWrite ==
    /\ RunGoto("writing", "lock2")
    /\ wmutex' = "free"
    /\ mutex_' = "free"
    /\ samples_sent_' \in {samples_sent_, (samples_sent_ + 1) % CounterModulus}

\* run(): cv_.wait_for(period_lock, period_ms_, is_stopped)
LockForPeriod == Locks("lock2", "pred2")
PeriodPredicate ==
    \/ stop_ /\ Unlocks("pred2", "loop")
    \/ ~stop_ /\ Steps("pred2", "enqueue2")
ParkForPeriod == Unlocks("enqueue2", "parked2")
RelockForPeriod == Locks("relock2", "pred2")
\* After the timeout wait_for reacquires the mutex, returns, and period_lock is destroyed.
LeavePeriodWait == mutex_ = "free" /\ Steps("timeout2", "loop")

RunStep ==
    /\ \/ WhileNotStopped
       \/ LockForMatch \/ MatchPredicate \/ ParkForMatch \/ RelockForMatch
       \/ CheckStopped \/ EnterWrite \/ LeaveWrite
       \/ LockForPeriod \/ PeriodPredicate \/ ParkForPeriod \/ RelockForPeriod
       \/ LeavePeriodWait
    /\ UNCHANGED <<stop_, matched_, discoveryVars, sig>>

\* The deadline of wait_for passes while the thread sleeps.
PeriodElapses ==
    /\ Steps("parked2", "timeout2")
    /\ UNCHANGED <<stop_, matched_, discoveryVars, sig>>

-----------------------------------------------------------------------------
\* The signal handler: stop() stores the flag and notifies, without taking mutex_.

SignalArrives ==
    /\ sig = "idle"
    /\ stop_' = TRUE
    /\ sig' = "notify"
    /\ UNCHANGED <<matched_, runVars, discoveryVars>>

StopNotifies ==
    /\ sig = "notify"
    /\ NotifyOne
    /\ sig' = "idle"
    /\ UNCHANGED <<stop_, matched_, samples_sent_, mutex_, wmutex, discoveryVars>>

-----------------------------------------------------------------------------
\* Discovery: match and unmatch a reader, update the status, call the listener.

Begin(t, next, r, delta) ==
    /\ dpc[t] = "idle"
    /\ {status.count, status.change} \subseteq -CountBound .. CountBound
    /\ dpc' = [dpc EXCEPT ![t] = next]
    /\ local' = [local EXCEPT ![t].target = {r}, ![t].delta = delta]

\* The thread is done with the event, and its locals are gone.
Finish(t) == dpc' = [dpc EXCEPT ![t] = "idle"] /\ local' = [local EXCEPT ![t] = NoLocals]

Goto(t, from, to) == dpc[t] = from /\ dpc' = [dpc EXCEPT ![t] = to]

\* matched_reader_add_edp() returned true: the reader was not matched before.
EdpMatches(r) ==
    /\ Begin(Edp, "load", r, 1)
    /\ wmutex = "free"
    /\ r \notin readers
    /\ readers' = readers \cup {r}
    /\ UNCHANGED status

\* The remote reader was disposed: PDP::removeReaderProxyData, under the PDP mutex.
EdpUnmatches(r) ==
    /\ Begin(Edp, "load", r, -1)
    /\ wmutex = "free"
    /\ r \in readers
    /\ readers' = readers \ {r}
    /\ UNCHANGED status

\* PDP::remove_remote_participant takes the participant out of the list under the PDP
\* mutex (Edp holds it while it is busy) and goes on without the mutex.
DropParticipant(d, r) ==
    /\ d \in Droppers
    /\ Begin(d, "unpair", r, -1)
    /\ dpc[Edp] = "idle"
    /\ r \in readers
    /\ UNCHANGED <<readers, status>>

\* EDP::unpairReaderProxy: nothing happens unless matched_reader_remove() returns true.
Unpair(d) ==
    /\ dpc[d] = "unpair"
    /\ wmutex = "free"
    /\ \/ local[d].target \subseteq readers /\ Goto(d, "unpair", "load") /\ UNCHANGED local
       \/ ~(local[d].target \subseteq readers) /\ Finish(d)
    /\ readers' = readers \ local[d].target
    /\ UNCHANGED status

\* update_publication_matched_status() takes no lock: each += is a load and a store.
LoadRegister(t, from, to, value) ==
    /\ Goto(t, from, to)
    /\ local' = [local EXCEPT ![t].reg = value]
    /\ UNCHANGED <<readers, status>>

LoadCount(t) == LoadRegister(t, "load", "store", status.count)
LoadChange(t) == LoadRegister(t, "loadChange", "storeChange", status.change)

StoreCount(t) ==
    /\ Goto(t, "store", "loadChange")
    /\ status' = [status EXCEPT !.count = local[t].reg + local[t].delta]
    /\ UNCHANGED <<readers, local>>

StoreChange(t) ==
    /\ Goto(t, "storeChange", "get")
    /\ status' = [status EXCEPT !.change = local[t].reg + local[t].delta]
    /\ UNCHANGED <<readers, local>>

\* get_publication_matched_status() copies and resets under the DataWriter's mutex.
GetStatus(t) ==
    /\ Goto(t, "get", "callback")
    /\ wmutex = "free"
    /\ local' = [local EXCEPT ![t].info = status]
    /\ status' = [status EXCEPT !.change = 0]
    /\ UNCHANGED readers

\* Faulty variants of the definition below, which the properties must reject.
OnPublicationMatched_NoLock(t) ==
    LET info == local[t].info
        accepted == info.change \in {1, -1}
    IN  /\ dpc[t] = "callback"
        /\ matched_' = IF accepted THEN info.count ELSE matched_
        /\ IF info.change = 1 THEN Goto(t, "callback", "notify") /\ UNCHANGED local
                              ELSE Finish(t)
        /\ UNCHANGED <<readers, status>>
OnPublicationMatched_NoNotify(t) ==
    LET info == local[t].info
        accepted == info.change \in {1, -1}
    IN  /\ dpc[t] = "callback"
        /\ accepted => mutex_ = "free"
        /\ matched_' = IF accepted THEN info.count ELSE matched_
        /\ Finish(t)
        /\ UNCHANGED <<readers, status>>
OnPublicationMatched_IgnoresUnmatch(t) ==
    LET info == local[t].info
        accepted == info.change = 1
    IN  /\ dpc[t] = "callback"
        /\ accepted => mutex_ = "free"
        /\ matched_' = IF accepted THEN info.count ELSE matched_
        /\ IF info.change = 1 THEN Goto(t, "callback", "notify") /\ UNCHANGED local
                              ELSE Finish(t)
        /\ UNCHANGED <<readers, status>>

\* on_publication_matched() up to the end of its lock_guard: only changes of +1 and -1
\* are taken over, and only +1 is followed by a notification.
OnPublicationMatched(t) ==
    LET info == local[t].info
        accepted == info.change \in {1, -1}
    IN  /\ dpc[t] = "callback"
        /\ accepted => mutex_ = "free"
        /\ matched_' = IF accepted THEN info.count ELSE matched_
        /\ IF info.change = 1 THEN Goto(t, "callback", "notify") /\ UNCHANGED local
                              ELSE Finish(t)
        /\ UNCHANGED <<readers, status>>

\* Faulty variant of the definition below, which the properties must reject.
MatchNotifies_Nobody(t) ==
    /\ dpc[t] = "notify"
    /\ Finish(t)
    /\ UNCHANGED <<pc, stop_, matched_, samples_sent_, mutex_, wmutex, readers, status, sig>>

\* cv_.notify_one() of the match callback, after its lock_guard is gone.
MatchNotifies(t) ==
    /\ dpc[t] = "notify"
    /\ NotifyOne
    /\ Finish(t)
    /\ UNCHANGED <<stop_, matched_, samples_sent_, mutex_, wmutex, readers, status, sig>>

\* A discovery thread works on an event it has begun.
DiscoveryStep(t) ==
    \/ /\ \/ Unpair(t) \/ LoadCount(t) \/ StoreCount(t) \/ LoadChange(t) \/ StoreChange(t)
          \/ GetStatus(t)
       /\ UNCHANGED <<stop_, matched_, runVars, sig>>
    \/ OnPublicationMatched(t) /\ UNCHANGED <<stop_, runVars, sig>>
    \/ MatchNotifies(t)

\* Discovery has something to report.
DiscoveryEvent ==
    /\ \E r \in Readers :
          \/ EdpMatches(r)
          \/ EdpUnmatches(r)
          \/ \E d \in Droppers : DropParticipant(d, r)
    /\ UNCHANGED <<stop_, matched_, runVars, sig>>

-----------------------------------------------------------------------------
Next ==
    \/ RunStep
    \/ PeriodElapses
    \/ SpuriousWakeup
    \/ SignalArrives
    \/ StopNotifies
    \/ DiscoveryEvent
    \/ \E t \in Threads : DiscoveryStep(t)

Spec == Init /\ [][Next]_vars

\* Threads that can run do run, and a signal handler that started returns.  Two conditions
\* are strong, because endless spurious wakeups would interrupt them: the deadline of
\* wait_for passes however often the thread wakes up before it, and a discovery thread
\* blocked on a mutex that is released again and again gets it.
\* Nothing obliges discovery to find anything, a user to press Ctrl+C, or cv_ to wake up
\* spuriously.
Fairness ==
    /\ WF_vars(RunStep)
    /\ SF_vars(PeriodElapses)
    /\ WF_vars(StopNotifies)
    /\ \A t \in Threads : SF_vars(DiscoveryStep(t))

FairSpec == Spec /\ Fairness

\* A user who keeps pressing Ctrl+C.
PersistentUserSpec == FairSpec /\ WF_vars(SignalArrives)

-----------------------------------------------------------------------------
\* Type correctness, and that the mutexes are held exactly where run() and publish() hold
\* them.
TypeOK ==
    /\ pc \in RunPc
    /\ stop_ \in BOOLEAN
    /\ matched_ \in Int
    /\ samples_sent_ \in 0 .. CounterModulus - 1
    /\ mutex_ = IF pc \in HoldsMutex THEN "run" ELSE "free"
    /\ wmutex = IF pc = "writing" THEN "run" ELSE "free"
    /\ readers \in SUBSET Readers
    /\ status \in Status
    /\ dpc \in [Threads -> DiscoveryPc]
    /\ local \in [Threads -> Locals]
    /\ sig \in {"idle", "notify"}

\* The predicate of publish()'s wait stays true until write() has returned: no unmatch
\* callback gets in between, because publish() keeps mutex_ from the test to the write.
WritesOnlyMatched ==
    pc \in {"check", "write", "writing"} => matched_ > 0 \/ stop_

\* No match is missed: while publish() sleeps although matched_ > 0, the callback that
\* stored matched_ has still to call notify_one().
NoLostMatchWakeup ==
    pc \in {"enqueue", "parked"} /\ matched_ > 0
        => pc = "parked" /\ \E t \in Threads : dpc[t] = "notify"

\* No discovery callback is under way.
Quiet == \A t \in Threads : dpc[t] = "idle"

\* The comments of publish(), "Wait for the data endpoints discovery" and "at least one has
\* been discovered": once the callbacks have returned, matched_ tells whether a reader is
\* matched.
MatchedTellsDiscovery == Quiet => (matched_ > 0 <=> readers # {})

\* The prompt of main(), "Please press Ctrl+C to stop the publisher at any time": after one
\* signal the run thread ends.
StopEndsRun == stop_ ~> pc = "done"

\* A publisher that stays matched keeps publishing.
PublishesWhileMatched ==
    (<>[](readers # {} /\ ~stop_)) => []<>(pc = "writing")
=============================================================================
