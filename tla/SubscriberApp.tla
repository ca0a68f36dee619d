--------------------------- MODULE SubscriberApp ---------------------------
(***************************************************************************)
(* The subscriber process of easydds: main(), the thread that runs         *)
(* easyddsSubscriberApp::run(), a Fast DDS thread that calls               *)
(* on_data_available(), and the signal handler.                            *)
(*                                                                         *)
(* A signal handler runs on one of the process's threads, which makes no   *)
(* step of its own meanwhile.  No thread of the process blocks signals, so *)
(* it may also be one that outlives the application.  The wait of run() is *)
(* on terminate_cv_, on which no other thread waits, so being parked is a  *)
(* value of its program counter.  What C++ leaves undefined (a call        *)
(* through a null or destroyed app, or to a destroyed terminate_cv_) ends  *)
(* the process: "crashed".                                                 *)
(***************************************************************************)
EXTENDS Integers

CONSTANTS
    MaxBatch,           \* model bound: the samples one notification makes available
    CounterModulus      \* samples_received_ is a uint16_t: 2^16 in the code

ASSUME SubscriberAssumption == {MaxBatch, CounterModulus} \subseteq Nat \ {0}

\* The threads that make steps of their own; main() waits for the others before the members of
\* the application are destroyed.
Joined == {"main", "run", "receive"}

\* And one that only static destructors wait for: the watchdog of the shared-memory transport,
\* or the thread of the Log.
Threads == Joined \union {"background"}

VARIABLES
    mpc,                \* program counter of main()
    app,                \* the application: "none", "null" if make_app() threw, "alive",
                        \* "unthreaded" when its participant's threads have ended, "destroyed"
    rpc,                \* program counter of the run thread
    stop_,              \* the atomic flag
    terminate_cv_mtx_,  \* "run" while the run thread holds it, else "free"
    callback,           \* program counter of the thread that calls on_data_available()
    unread,             \* samples the reader has available
    samples_received_,
    handler             \* per thread: the signal handler it runs is about to notify, or "none"

vars == <<mpc, app, rpc, stop_, terminate_cv_mtx_, callback, unread, samples_received_, handler>>

Ended == mpc \in {"exited", "killed", "crashed"}

Init ==
    /\ mpc = "make"
    /\ app = "none"
    /\ rpc = "none"
    /\ stop_ = FALSE
    /\ terminate_cv_mtx_ = "free"
    /\ callback = "idle"
    /\ unread = 0
    /\ samples_received_ = 0
    /\ handler = [t \in Threads |-> "none"]

\* A thread makes a step of its own: the process lives and it is not in a signal handler.
Runs(t) == ~Ended /\ handler[t] = "none"

-----------------------------------------------------------------------------
\* main()

MainGoto(from, to) == Runs("main") /\ mpc = from /\ mpc' = to

\* make_app() returns the application or throws, and main() goes on in both cases.
MakeApp ==
    /\ MainGoto("make", "thread")
    /\ app' \in {"alive", "null"}
    /\ UNCHANGED <<rpc, stop_, terminate_cv_mtx_, callback, unread, samples_received_, handler>>

StartThread ==
    /\ MainGoto("thread", "install")
    /\ rpc' = "start"
    /\ UNCHANGED <<app, stop_, terminate_cv_mtx_, callback, unread, samples_received_, handler>>

\* stop_handler is set and signal() called for each signal.
InstallHandlers ==
    /\ MainGoto("install", "join")
    /\ UNCHANGED <<app, rpc, stop_, terminate_cv_mtx_, callback, unread, samples_received_, handler>>

Join ==
    /\ MainGoto("join", "destroy")
    /\ rpc = "done"
    /\ UNCHANGED <<app, rpc, stop_, terminate_cv_mtx_, callback, unread, samples_received_, handler>>

\* The last reference goes, and the destructor deletes the participant: its threads are told to
\* end, and once they have ended and been joined ...
DeleteParticipant ==
    /\ MainGoto("destroy", "delete")
    /\ UNCHANGED <<app, rpc, stop_, terminate_cv_mtx_, callback, unread, samples_received_, handler>>

ReceiveThreadEnds ==
    /\ mpc = "delete" /\ Runs("receive") /\ app = "alive" /\ callback = "idle"
    /\ app' = "unthreaded"
    /\ UNCHANGED <<mpc, rpc, stop_, terminate_cv_mtx_, callback, unread, samples_received_, handler>>

\* Faulty variant, which the properties must reject: the participant's threads are not joined.
DestroyMembers_JoinsNobody ==
    /\ MainGoto("delete", "return")
    /\ app' = "destroyed"
    /\ UNCHANGED <<rpc, stop_, terminate_cv_mtx_, callback, unread, samples_received_, handler>>

\* ... the members of the application are destroyed.
DestroyMembers ==
    /\ MainGoto("delete", "return")
    /\ app = "unthreaded" /\ app' = "destroyed"
    /\ UNCHANGED <<rpc, stop_, terminate_cv_mtx_, callback, unread, samples_received_, handler>>

\* Static objects are destroyed, which joins the last threads, and the process exits.
Exit ==
    /\ MainGoto("return", "exited")
    /\ Runs("background")
    /\ UNCHANGED <<app, rpc, stop_, terminate_cv_mtx_, callback, unread, samples_received_, handler>>

MainStep ==
    \/ MakeApp \/ StartThread \/ InstallHandlers \/ Join
    \/ DeleteParticipant \/ DestroyMembers \/ Exit

-----------------------------------------------------------------------------
\* run(): terminate_cv_.wait(lck, is_stopped)

RunGoto(from, to) == Runs("run") /\ rpc = from /\ rpc' = to

EnterRun ==
    /\ RunGoto("start", "lock")
    /\ mpc' = IF app = "null" THEN "crashed" ELSE mpc
    /\ UNCHANGED terminate_cv_mtx_

Lock ==
    /\ RunGoto("lock", "pred")
    /\ terminate_cv_mtx_ = "free" /\ terminate_cv_mtx_' = "run"
    /\ UNCHANGED mpc

Predicate ==
    /\ \/ stop_ /\ RunGoto("pred", "done") /\ terminate_cv_mtx_' = "free"
       \/ ~stop_ /\ RunGoto("pred", "enqueue") /\ UNCHANGED terminate_cv_mtx_
    /\ UNCHANGED mpc

Park == RunGoto("enqueue", "parked") /\ terminate_cv_mtx_' = "free" /\ UNCHANGED mpc

RunStep ==
    /\ EnterRun \/ Lock \/ Predicate \/ Park
    /\ UNCHANGED <<app, stop_, callback, unread, samples_received_, handler>>

\* notify_all(), and the wakeups the standard allows without a notification.
NotifyAll == rpc' = IF rpc = "parked" THEN "lock" ELSE rpc

SpuriousWakeup ==
    /\ ~Ended /\ rpc = "parked"
    /\ NotifyAll
    /\ UNCHANGED <<mpc, app, stop_, terminate_cv_mtx_, callback, unread, samples_received_, handler>>

-----------------------------------------------------------------------------
\* on_data_available(), called while the reader's mutex is held

\* The reader notifies new samples; several when they had been waiting for a missing one.
DataArrives ==
    /\ Runs("receive") /\ app = "alive" /\ callback = "idle"
    /\ unread' \in (unread + 1)..(unread + MaxBatch)
    /\ unread' <= MaxBatch
    /\ callback' = "loop"
    /\ UNCHANGED <<mpc, app, rpc, stop_, terminate_cv_mtx_, samples_received_, handler>>

\* Faulty variant, which the properties must reject: one sample is taken per notification.
on_data_available_TakesOne ==
    /\ Runs("receive") /\ callback = "loop"
    /\ callback' = "idle"
    /\ unread' = IF stop_ THEN unread ELSE unread - 1
    /\ UNCHANGED <<mpc, app, rpc, stop_, terminate_cv_mtx_, samples_received_, handler>>

\* One turn of the loop: a sample whose writer has left is taken and not counted.
on_data_available ==
    /\ Runs("receive") /\ callback = "loop"
    /\ IF stop_ \/ unread = 0
       THEN callback' = "idle" /\ UNCHANGED <<unread, samples_received_>>
       ELSE /\ unread' = unread - 1
            /\ samples_received_' \in {samples_received_, (samples_received_ + 1) % CounterModulus}
            /\ UNCHANGED callback
    /\ UNCHANGED <<mpc, app, rpc, stop_, terminate_cv_mtx_, handler>>

-----------------------------------------------------------------------------
\* Signals

\* The thread exists; a background thread does from make_app() until static destructors run.
Living(t) ==
    /\ t = "run" => rpc \notin {"none", "done"}
    /\ t = "receive" => app = "alive"

\* Until the handler is installed a signal kills the process.
SignalKills ==
    /\ mpc \in {"make", "thread", "install"}
    /\ mpc' = "killed"
    /\ UNCHANGED <<app, rpc, stop_, terminate_cv_mtx_, callback, unread, samples_received_, handler>>

\* The handler calls app->stop(), which stores the flag and then notifies.
SignalArrives(t) ==
    /\ mpc \in {"join", "destroy", "delete", "return"}
    /\ Living(t) /\ handler[t] = "none"
    /\ IF app \in {"alive", "unthreaded"}
       THEN stop_' = TRUE /\ handler' = [handler EXCEPT ![t] = "notify"] /\ UNCHANGED mpc
       ELSE mpc' = "crashed" /\ UNCHANGED <<stop_, handler>>
    /\ UNCHANGED <<app, rpc, terminate_cv_mtx_, callback, unread, samples_received_>>

\* Faulty variant, which the properties must reject: stop() does not notify.
StopNotifies_Nobody(t) ==
    /\ ~Ended /\ handler[t] = "notify"
    /\ handler' = [handler EXCEPT ![t] = "none"]
    /\ UNCHANGED <<mpc, app, rpc, stop_, terminate_cv_mtx_, callback, unread, samples_received_>>

StopNotifies(t) ==
    /\ ~Ended /\ handler[t] = "notify"
    /\ handler' = [handler EXCEPT ![t] = "none"]
    /\ \/ app # "destroyed" /\ NotifyAll /\ UNCHANGED mpc
       \/ app = "destroyed" /\ mpc' = "crashed" /\ UNCHANGED rpc
    /\ UNCHANGED <<app, stop_, terminate_cv_mtx_, callback, unread, samples_received_>>

-----------------------------------------------------------------------------
Next ==
    \/ MainStep
    \/ RunStep
    \/ SpuriousWakeup
    \/ DataArrives
    \/ on_data_available
    \/ ReceiveThreadEnds
    \/ SignalKills
    \/ \E t \in Threads : SignalArrives(t) \/ StopNotifies(t)

\* Threads are scheduled, though signals may interrupt them again and again.
FairSpec ==
    /\ Init /\ [][Next]_vars
    /\ SF_vars(MainStep) /\ SF_vars(RunStep) /\ SF_vars(on_data_available)
    /\ SF_vars(ReceiveThreadEnds)
    /\ \A t \in Threads : WF_vars(StopNotifies(t))

\* A user who presses Ctrl+C again as long as the process is there.
PersistentUserSpec == FairSpec /\ WF_vars(stop_ /\ \E t \in Threads : SignalArrives(t))

-----------------------------------------------------------------------------
\* When on_data_available() returns and the application is not stopped, it has taken all there
\* was: no sample waits for a later one to be noticed.
DrainedBetweenCallbacks == callback = "idle" /\ ~stop_ => unread = 0

\* On a thread that main() waits for, stop() notifies a condition variable that still exists,
\* although run() may return, and main() go on to destroy the application, as soon as the flag
\* is stored.  (On a background thread it need not: nobody waits for that one before.)
AppOutlivesItsThreads ==
    \A t \in Joined : handler[t] = "notify" /\ ~Ended => app \in {"alive", "unthreaded"}

\* "Please press Ctrl+C to stop the subscriber at any time": once stop() was called the process
\* ends, if the user insists.
StopEndsProcess == stop_ ~> Ended
=============================================================================
