---------------------------- MODULE TimedEvents ----------------------------
(***************************************************************************)
(* The timers of a participant (rtps/resources/ResourceEvent.cpp,          *)
(* TimedEventImpl.cpp, TimedEvent.cpp).  Any thread starts and cancels an  *)
(* event by a compare-and-swap of its state_ and then, in a second step    *)
(* under the mutex, puts it in pending_timers_; the service thread moves   *)
(* it to active_timers_ and runs its callback when its time has come.      *)
(*                                                                         *)
(* Time is abstract: an active event becomes due at some moment.  So the   *)
(* order of active_timers_ is left out, an event whose trigger time is set *)
(* to cancel_time is one in over, and intervals are positive (the defaults *)
(* are 5 ms and 70 ms) and below 24 hours.  A module that uses this one    *)
(* supplies the callbacks, between the steps trigger and trigger_end.      *)
(***************************************************************************)
EXTENDS Integers

CONSTANTS Events, None

ASSUME EventsAssumption == None \notin Events

VARIABLES state_,   \* the state of each event
          pending,  \* pending_timers_
          active,   \* active_timers_
          due,      \* the active events whose trigger time has come
          over,     \* the active events to be erased at the end of the scan
          scan,     \* the due events this scan has still to look at
          todo,     \* the pending events still to be updated
          cur,      \* the event whose callback runs
          spc       \* where the service thread is

timerVars == <<state_, pending, active, due, over, scan, todo, cur, spc>>

StateCode == {"INACTIVE", "READY", "WAITING"}

TimersInit ==
    /\ state_ = [e \in Events |-> "INACTIVE"]
    /\ pending = {} /\ active = {} /\ due = {} /\ over = {} /\ scan = {} /\ todo = {}
    /\ cur = None
    /\ spc = "waiting"

\* The service thread holds the mutex while it updates pending events; all other critical
\* sections are single steps.
MutexFree == spc # "update"

\* It allows the collections to be changed while it waits in event_service().
allow_vector_manipulation == spc = "waiting"

-----------------------------------------------------------------------------
\* What other threads do.  Each is one step of theirs.

\* go_ready() of restart_timer(), for an event it changes.
go_ready(e) == state_[e] = "INACTIVE" /\ state_' = [state_ EXCEPT ![e] = "READY"]

\* go_cancel() of cancel_timer() and recreate_timer(): an exchange.
go_cancel(e) == state_' = [state_ EXCEPT ![e] = "INACTIVE"]

\* Faulty variant of notify, which the properties must reject: it does not take the mutex.
notify_NoLock(e) == pending' = pending \union {e}

\* notify() and register_timer_nts().
notify(e) == MutexFree /\ pending' = pending \union {e}

\* Faulty variant of unregister_timer, which the properties must reject: it does not wait
\* for the service thread.
unregister_timer_NoWait(e) ==
    /\ MutexFree
    /\ pending' = pending \ {e}
    /\ active' = active \ {e}
    /\ due' = due \ {e}
    /\ over' = over \ {e}
    /\ scan' = scan \ {e}

\* Faulty variant of unregister_timer, which the properties must reject: it takes no mutex.
unregister_timer_NoLock(e) ==
    /\ pending' = pending \ {e}
    /\ active' = active \ {e}
    /\ due' = due \ {e}
    /\ over' = over \ {e}
    /\ scan' = scan \ {e}

\* unregister_timer(), called by another thread than the service thread.
unregister_timer(e) ==
    /\ MutexFree
    /\ allow_vector_manipulation
    /\ pending' = pending \ {e}
    /\ active' = active \ {e}
    /\ due' = due \ {e}
    /\ over' = over \ {e}
    /\ scan' = scan \ {e}

-----------------------------------------------------------------------------
\* What the service thread does: event_service() and do_timer_actions().

\* It wakes, notified or because the first trigger time or one second has passed.
service_wake ==
    /\ spc = "waiting"
    /\ spc' = "top"
    /\ UNCHANGED <<state_, pending, active, due, over, scan, todo, cur>>

\* update_current_time(), and the lock of do_timer_actions().
update_begin ==
    /\ spc = "top"
    /\ spc' = "update"
    /\ scan' = due
    /\ todo' = pending
    /\ UNCHANGED <<state_, pending, active, due, over, cur>>

\* A pending event: update() arms a READY one, keeps a WAITING one with its trigger time and
\* leaves an INACTIVE one out of the active events.
update(e) ==
    LET ready == state_[e] = "READY"
        keeps == state_[e] = "WAITING"
    IN  /\ spc = "update"
        /\ e \in todo
        /\ todo' = todo \ {e}
        /\ state_' = IF ready THEN [state_ EXCEPT ![e] = "WAITING"] ELSE state_
        /\ active' = IF ready \/ keeps THEN active \union {e} ELSE active \ {e}
        /\ due' = IF keeps THEN due ELSE due \ {e}
        /\ scan' = IF keeps THEN scan ELSE scan \ {e}
        /\ UNCHANGED <<pending, over, cur, spc>>

\* Faulty variant of update_end, which the properties must reject: the pending events are
\* not cleared.
update_end_KeepsPending ==
    /\ spc = "update"
    /\ todo = {}
    /\ spc' = "scan"
    /\ UNCHANGED <<state_, pending, active, due, over, scan, todo, cur>>

\* pending_timers_.clear(), and the end of the critical section.
update_end ==
    /\ spc = "update"
    /\ todo = {}
    /\ pending' = {}
    /\ spc' = "scan"
    /\ UNCHANGED <<state_, active, due, over, scan, todo, cur>>

\* trigger() of the next due event: its callback is called if it is still WAITING.
trigger(e) ==
    /\ spc = "scan"
    /\ e \in scan
    /\ scan' = scan \ {e}
    /\ IF state_[e] = "WAITING"
       THEN /\ state_' = [state_ EXCEPT ![e] = "INACTIVE"]
            /\ cur' = e
            /\ spc' = "callback"
            /\ UNCHANGED over
       ELSE /\ over' = over \union {e}
            /\ UNCHANGED <<state_, cur, spc>>
    /\ UNCHANGED <<pending, active, due, todo>>

\* Faulty variant of trigger_end, which the properties must reject: a restart made while the
\* callback ran is overwritten.
trigger_end_Overwrites(restart) ==
    /\ IF restart
       THEN /\ state_' = [state_ EXCEPT ![cur] = "WAITING"]
            /\ due' = due \ {cur}
            /\ UNCHANGED over
       ELSE /\ state_' = [state_ EXCEPT ![cur] = "INACTIVE"]
            /\ over' = over \union {cur}
            /\ UNCHANGED due
    /\ spc' = "scan"
    /\ cur' = None
    /\ UNCHANGED <<pending, active, scan, todo>>

\* trigger(), after the callback has returned: the event is armed again if the callback says
\* so and nobody has started it meanwhile.
trigger_end(restart) ==
    /\ IF restart /\ state_[cur] = "INACTIVE"
       THEN /\ state_' = [state_ EXCEPT ![cur] = "WAITING"]
            /\ due' = due \ {cur}
            /\ UNCHANGED over
       ELSE /\ over' = over \union {cur}
            /\ UNCHANGED <<state_, due>>
    /\ spc' = "scan"
    /\ cur' = None
    /\ UNCHANGED <<pending, active, scan, todo>>

\* The finished events are erased.
scan_end ==
    /\ spc = "scan"
    /\ scan = {}
    /\ active' = active \ over
    /\ due' = due \ over
    /\ over' = {}
    /\ spc' = "check"
    /\ UNCHANGED <<state_, pending, scan, todo, cur>>

\* The service thread goes on with pending events or waits.
service_check ==
    /\ spc = "check"
    /\ spc' = IF pending = {} THEN "waiting" ELSE "top"
    /\ UNCHANGED <<state_, pending, active, due, over, scan, todo, cur>>

\* The trigger time of an active event comes.
time_passes(e) ==
    /\ e \in active \ (due \union over)
    /\ due' = due \union {e}
    /\ UNCHANGED <<state_, pending, active, over, scan, todo, cur, spc>>

ServiceStep ==
    \/ service_wake \/ update_begin \/ update_end \/ scan_end \/ service_check
    \/ \E e \in Events : update(e) \/ trigger(e)
=============================================================================
