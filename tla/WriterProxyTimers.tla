-------------------------- MODULE WriterProxyTimers --------------------------
(***************************************************************************)
(* The two timers of a WriterProxy against the threads that use it         *)
(* (rtps/reader/WriterProxy.cpp, StatefulReader.cpp): the service thread   *)
(* runs perform_initial_ack_nack() and perform_heartbeat_response(), a     *)
(* receiving thread processes heartbeats, and a discovery thread matches   *)
(* the writer, removes it, matches the next one with the same proxy and    *)
(* destroys the reader in the end.  The callbacks take the reader's mutex, *)
(* so whoever waits for a callback must not hold it.                       *)
(*                                                                         *)
(* StatefulReader models what the handlers do with sequence numbers, with  *)
(* a timer as a flag; this module shows that the flag stands for the       *)
(* timer.  Left out: matched_writer_remove() called by a callback of the   *)
(* service thread itself, when a lease expires, and writers in the same    *)
(* process or with data sharing, whose proxies answer without messages.    *)
(***************************************************************************)
EXTENDS TimedEvents

CONSTANTS initial_acknack_, heartbeat_response_,
          MaxMatches,       \* bound: writers matched in a behaviour
          MaxHeartbeats     \* bound: heartbeats received in a behaviour

ASSUME ProxyEventsAssumption ==
    /\ Events = {initial_acknack_, heartbeat_response_}
    /\ initial_acknack_ # heartbeat_response_
    /\ {MaxMatches, MaxHeartbeats} \subseteq Nat

VARIABLES proxy,        \* state_ of the proxy: STOPPED, IDLE or BUSY
          is_alive_,    \* of the proxy: set by start(), reset by clear()
          heard,        \* a heartbeat of this writer has come: last_heartbeat_count_ # 0
          mp_mutex,     \* the holder of the reader's mutex
          restart,      \* what the callback will return
          dpc,          \* where the discovery thread is
          rpc,          \* where the receiving thread is
          matches, heartbeats,  \* so far
          greeted,      \* for the properties: the initial ACKNACK callback ran for this writer
          owed          \* for the properties: a heartbeat has not been answered

proxyVars == <<proxy, is_alive_, heard, mp_mutex, restart, dpc, rpc, matches, heartbeats,
               greeted, owed>>
vars == <<timerVars, proxyVars>>

Init ==
    /\ TimersInit
    /\ proxy = "STOPPED"
    /\ is_alive_ = FALSE /\ heard = FALSE
    /\ mp_mutex = "none"
    /\ restart = FALSE
    /\ dpc = "pooled"
    /\ rpc = "idle"
    /\ matches = 0 /\ heartbeats = 0
    /\ greeted = FALSE /\ owed = FALSE

-----------------------------------------------------------------------------
\* The callbacks, on the service thread.

\* The proxy becomes BUSY, or the callback ends because it was stopped.
perform_begin ==
    /\ spc = "callback"
    /\ IF proxy = "IDLE"
       THEN /\ proxy' = "BUSY"
            /\ spc' = IF cur = initial_acknack_ THEN "busy" ELSE "send"
       ELSE spc' = "return" /\ UNCHANGED proxy
    /\ restart' = FALSE
    /\ UNCHANGED <<state_, pending, active, due, over, scan, todo, cur>>
    /\ UNCHANGED <<is_alive_, heard, mp_mutex, dpc, rpc, matches, heartbeats, greeted, owed>>

\* perform_initial_ack_nack() looks, without the mutex, whether a heartbeat has come.
perform_initial_ack_nack ==
    /\ spc = "busy"
    /\ spc' = IF heard THEN "sent" ELSE "send"
    /\ greeted' = (greeted \/ heard)
    /\ UNCHANGED <<state_, pending, active, due, over, scan, todo, cur>>
    /\ UNCHANGED <<proxy, is_alive_, heard, mp_mutex, restart, dpc, rpc, matches, heartbeats,
                   owed>>

\* send_acknack(), for a proxy that is alive.  The initial ACKNACK is repeated until its
\* interval, doubled every time, passes an hour.
send_acknack ==
    /\ spc = "send"
    /\ mp_mutex = "none"
    /\ greeted' = (greeted \/ (cur = initial_acknack_ /\ is_alive_))
    /\ owed' = (owed /\ ~(cur = heartbeat_response_ /\ is_alive_))
    /\ restart' \in IF cur = initial_acknack_ THEN BOOLEAN ELSE {FALSE}
    /\ spc' = "sent"
    /\ UNCHANGED <<state_, pending, active, due, over, scan, todo, cur>>
    /\ UNCHANGED <<proxy, is_alive_, heard, mp_mutex, dpc, rpc, matches, heartbeats>>

\* The proxy is IDLE again, unless it was stopped meanwhile.
perform_end ==
    /\ spc = "sent"
    /\ proxy' = IF proxy = "BUSY" THEN "IDLE" ELSE proxy
    /\ spc' = "return"
    /\ UNCHANGED <<state_, pending, active, due, over, scan, todo, cur>>
    /\ UNCHANGED <<is_alive_, heard, mp_mutex, restart, dpc, rpc, matches, heartbeats,
                   greeted, owed>>

perform_return ==
    /\ spc = "return"
    /\ trigger_end(restart)
    /\ UNCHANGED proxyVars

CallbackStep ==
    \/ perform_begin \/ perform_initial_ack_nack \/ send_acknack
    \/ perform_end \/ perform_return

-----------------------------------------------------------------------------
\* The receiving thread: process_heartbeat_msg() for a heartbeat that asks for a response,
\* with the reader's mutex held throughout.

Matched == dpc = "matched"

process_heartbeat ==
    /\ rpc = "idle"
    /\ mp_mutex = "none"
    /\ Matched /\ proxy # "STOPPED"
    /\ heartbeats < MaxHeartbeats
    /\ heartbeats' = heartbeats + 1
    /\ mp_mutex' = "receiver"
    /\ heard' = TRUE
    /\ owed' = TRUE
    /\ rpc' = "restart"
    /\ UNCHANGED timerVars
    /\ UNCHANGED <<proxy, is_alive_, restart, dpc, matches, greeted>>

\* heartbeat_response_->restart_timer().
restart_response ==
    /\ rpc = "restart"
    /\ \/ go_ready(heartbeat_response_) /\ rpc' = "notify" /\ UNCHANGED mp_mutex
       \/ /\ state_[heartbeat_response_] # "INACTIVE"
          /\ rpc' = "idle" /\ mp_mutex' = "none" /\ UNCHANGED state_
    /\ UNCHANGED <<pending, active, due, over, scan, todo, cur, spc>>
    /\ UNCHANGED <<proxy, is_alive_, heard, restart, dpc, matches, heartbeats, greeted, owed>>

notify_response ==
    /\ rpc = "notify"
    /\ notify(heartbeat_response_)
    /\ rpc' = "idle"
    /\ mp_mutex' = "none"
    /\ UNCHANGED <<state_, active, due, over, scan, todo, cur, spc>>
    /\ UNCHANGED <<proxy, is_alive_, heard, restart, dpc, matches, heartbeats, greeted, owed>>

ReceiverStep == restart_response \/ notify_response

-----------------------------------------------------------------------------
\* The discovery thread: matched_writer_add_edp() and start(), matched_writer_remove() and
\* stop(), and the destructors of the reader and the proxy.

timersButState == <<pending, active, due, over, scan, todo, cur, spc>>

Goto(pc) ==
    /\ dpc' = pc
    /\ UNCHANGED <<restart, rpc, heartbeats>>

\* start() makes the proxy IDLE before it starts the timer.
start ==
    /\ dpc = "pooled"
    /\ mp_mutex = "none"
    /\ matches < MaxMatches
    /\ matches' = matches + 1
    /\ mp_mutex' = "discovery"
    /\ is_alive_' = TRUE
    /\ proxy' = "IDLE"
    /\ greeted' = FALSE /\ owed' = FALSE
    /\ Goto("start")
    /\ UNCHANGED <<timerVars, heard>>

\* initial_acknack_->restart_timer().
start_timer ==
    /\ dpc = "start"
    /\ \/ go_ready(initial_acknack_) /\ Goto("start_notify") /\ UNCHANGED mp_mutex
       \/ /\ state_[initial_acknack_] # "INACTIVE"
          /\ Goto("matched") /\ mp_mutex' = "none" /\ UNCHANGED state_
    /\ UNCHANGED <<timersButState, proxy, is_alive_, heard, matches, greeted, owed>>

start_notify ==
    /\ dpc = "start_notify"
    /\ notify(initial_acknack_)
    /\ Goto("matched")
    /\ mp_mutex' = "none"
    /\ UNCHANGED <<state_, active, due, over, scan, todo, cur, spc>>
    /\ UNCHANGED <<proxy, is_alive_, heard, matches, greeted, owed>>

\* The proxy leaves matched_writers_, and the reader's mutex is released for stop().
matched_writer_remove ==
    /\ Matched
    /\ mp_mutex = "none"
    /\ Goto("stop")
    /\ UNCHANGED <<timerVars, proxy, is_alive_, heard, mp_mutex, matches, greeted, owed>>

\* Faulty variant of stop, which the properties must reject: a running callback is not
\* waited for.
stop_NoWait ==
    /\ dpc = "stop"
    /\ proxy' = "STOPPED"
    /\ Goto("cancel_initial")
    /\ UNCHANGED <<timerVars, is_alive_, heard, mp_mutex, matches, greeted, owed>>

\* stop(): a callback that found the proxy IDLE before is waited for.
stop ==
    /\ dpc = "stop"
    /\ proxy' = "STOPPED"
    /\ Goto(IF proxy = "BUSY" THEN "recreate" ELSE "cancel_initial")
    /\ UNCHANGED <<timerVars, is_alive_, heard, mp_mutex, matches, greeted, owed>>

\* recreate_timer(): unregister_timer(), go_cancel() and register_timer(), which counts.
recreate_unregister ==
    /\ dpc = "recreate"
    /\ unregister_timer(initial_acknack_)
    /\ Goto("recreate_cancel")
    /\ UNCHANGED <<state_, todo, cur, spc>>
    /\ UNCHANGED <<proxy, is_alive_, heard, mp_mutex, matches, greeted, owed>>

\* Faulty variant of recreate_cancel, which the properties must reject: the state of the
\* event that was unregistered is left as it is.
recreate_cancel_KeepsState ==
    /\ dpc = "recreate_cancel"
    /\ Goto("cancel_response")
    /\ UNCHANGED <<timerVars, proxy, is_alive_, heard, mp_mutex, matches, greeted, owed>>

recreate_cancel ==
    /\ dpc = "recreate_cancel"
    /\ go_cancel(initial_acknack_)
    /\ Goto("cancel_response")
    /\ UNCHANGED <<timersButState, proxy, is_alive_, heard, mp_mutex, matches, greeted, owed>>

\* cancel_timer() of e; the service thread is notified of an event that was not INACTIVE.
CancelTimer(e, pc, notifies, next) ==
    /\ dpc = pc
    /\ go_cancel(e)
    /\ Goto(IF state_[e] = "INACTIVE" THEN next ELSE notifies)
    /\ UNCHANGED <<timersButState, proxy, is_alive_, heard, mp_mutex, matches, greeted, owed>>

CancelNotify(e, pc, next) ==
    /\ dpc = pc
    /\ notify(e)
    /\ Goto(next)
    /\ UNCHANGED <<state_, active, due, over, scan, todo, cur, spc>>
    /\ UNCHANGED <<proxy, is_alive_, heard, mp_mutex, matches, greeted, owed>>

cancel_initial ==
    \/ CancelTimer(initial_acknack_, "cancel_initial", "notify_initial", "cancel_response")
    \/ CancelNotify(initial_acknack_, "notify_initial", "cancel_response")

cancel_response ==
    \/ CancelTimer(heartbeat_response_, "cancel_response", "notify_response", "clear")
    \/ CancelNotify(heartbeat_response_, "notify_response", "clear")

clear ==
    /\ dpc = "clear"
    /\ is_alive_' = FALSE
    /\ heard' = FALSE
    /\ Goto("pool")
    /\ UNCHANGED <<timerVars, proxy, mp_mutex, matches, greeted, owed>>

\* The mutex is taken again and the proxy is put into the pool.
pool ==
    /\ dpc = "pool"
    /\ mp_mutex = "none"
    /\ Goto("pooled")
    /\ UNCHANGED <<timerVars, proxy, is_alive_, heard, mp_mutex, matches, greeted, owed>>

\* ~StatefulReader() makes the reader deaf and deletes the proxy, whose destructor deletes
\* the two events.
destroy ==
    /\ dpc \in {"pooled", "matched"}
    /\ mp_mutex = "none"
    /\ Goto("destroy_initial")
    /\ UNCHANGED <<timerVars, proxy, is_alive_, heard, mp_mutex, matches, greeted, owed>>

DeleteEvent(e, pc, next) ==
    /\ dpc = pc
    /\ unregister_timer(e)
    /\ Goto(next)
    /\ UNCHANGED <<state_, todo, cur, spc>>
    /\ UNCHANGED <<proxy, is_alive_, heard, mp_mutex, matches, greeted, owed>>

delete_events ==
    \/ DeleteEvent(initial_acknack_, "destroy_initial", "destroy_response")
    \/ DeleteEvent(heartbeat_response_, "destroy_response", "destroyed")

\* The steps of the discovery thread after its first one, without those that wait for the
\* service thread to allow a change of the collections.
DiscoveryStep ==
    \/ start_timer \/ start_notify \/ stop \/ recreate_cancel
    \/ cancel_initial \/ cancel_response \/ clear \/ pool

WaitingStep == recreate_unregister \/ delete_events

-----------------------------------------------------------------------------
Next ==
    \/ ServiceStep /\ UNCHANGED proxyVars
    \/ \E e \in Events : time_passes(e) /\ UNCHANGED proxyVars
    \/ CallbackStep
    \/ process_heartbeat \/ ReceiverStep
    \/ start \/ matched_writer_remove \/ destroy
    \/ DiscoveryStep \/ WaitingStep

\* Threads that can run do run and time passes.  A thread that wants the service's mutex or
\* waits on cv_manipulation_ is given strong fairness: the service thread gives the mutex
\* back in every round, for as long as it sleeps, and one of these chances must be taken.
\* Nobody has to match or remove a writer or to send a heartbeat.
Fairness ==
    /\ WF_vars(ServiceStep /\ UNCHANGED proxyVars)
    /\ \A e \in Events : WF_vars(time_passes(e) /\ UNCHANGED proxyVars)
    /\ WF_vars(CallbackStep)
    /\ SF_vars(ReceiverStep) /\ SF_vars(DiscoveryStep) /\ SF_vars(WaitingStep)

Spec == Init /\ [][Next]_vars /\ Fairness

-----------------------------------------------------------------------------
DiscoveryPC ==
    {"pooled", "start", "start_notify", "matched", "stop", "recreate", "recreate_cancel",
     "cancel_initial", "notify_initial", "cancel_response", "notify_response", "clear",
     "pool", "destroy_initial", "destroy_response", "destroyed"}

ServicePC ==
    {"waiting", "top", "update", "scan", "check", "callback", "busy", "send", "sent",
     "return"}

TypeOK ==
    /\ state_ \in [Events -> StateCode]
    /\ pending \subseteq Events /\ active \subseteq Events
    /\ due \subseteq active /\ over \subseteq active /\ scan \subseteq due
    /\ todo \subseteq pending
    /\ cur \in Events \union {None}
    /\ spc \in ServicePC
    /\ proxy \in {"STOPPED", "IDLE", "BUSY"}
    /\ is_alive_ \in BOOLEAN /\ heard \in BOOLEAN /\ restart \in BOOLEAN
    /\ greeted \in BOOLEAN /\ owed \in BOOLEAN
    /\ mp_mutex \in {"none", "receiver", "discovery"}
    /\ dpc \in DiscoveryPC
    /\ rpc \in {"idle", "restart", "notify"}
    /\ matches \in 0 .. MaxMatches /\ heartbeats \in 0 .. MaxHeartbeats

\* The discovery or the receiving thread is about to notify the service thread of e.
Announced(e) ==
    \/ e = initial_acknack_ /\ dpc \in {"start_notify", "notify_initial"}
    \/ e = heartbeat_response_ /\ (rpc = "notify" \/ dpc = "notify_response")

Unregistered(e) ==
    \/ e = initial_acknack_ /\ dpc \in {"recreate_cancel", "destroy_response", "destroyed"}
    \/ e = heartbeat_response_ /\ dpc = "destroyed"

\* No started timer is forgotten, though its state changes without the mutex: an event that
\* restart_timer() would leave alone because it is WAITING is among the active ones, and one
\* that is READY is pending or about to be.
StartedIsScheduled ==
    \A e \in Events : ~Unregistered(e) =>
        /\ state_[e] = "WAITING" => e \in active \ over
        /\ state_[e] = "READY" => \/ Announced(e)
                                  \/ e \in IF spc = "update" THEN todo ELSE pending

\* stop() clears the proxy, and the pool offers it for another writer, only while no callback
\* uses it: the exchange of state_ and the wait in recreate_timer() leave no gap.
StoppedIsUnused ==
    dpc \in {"clear", "pool", "pooled"} => spc \notin {"busy", "send", "sent"}

\* What unregister_timer() is for: once it has returned in the destructor, the service thread
\* neither runs the callback of the event nor holds a pointer to it.
DeletedIsUnknown ==
    \A e \in Events :
        (\/ e = initial_acknack_ /\ dpc \in {"destroy_response", "destroyed"}
         \/ e = heartbeat_response_ /\ dpc = "destroyed")
            => e # cur /\ e \notin pending \union active \union todo \union scan

\* Removing a writer and destroying a reader end: the discovery thread, which waits for the
\* service thread, and the callback, which wants the reader's mutex, never wait for each
\* other.
DiscoveryReturns ==
    (dpc \notin {"pooled", "matched", "destroyed"}) ~> (dpc \in {"pooled", "matched", "destroyed"})

\* The timer that start() starts goes off while the writer stays matched, whatever is left of
\* the timer's use for the writer before.
InitialAckNackRuns == (Matched /\ ~greeted) ~> (greeted \/ ~Matched)

\* A heartbeat that asks for it is answered while the writer stays matched, also one that
\* arrives while the answer to the last one is being sent.
HeartbeatIsAnswered == (Matched /\ owed) ~> (~owed \/ ~Matched)
=============================================================================
