---------------------- MODULE WriterProxyTimersProofs ----------------------
(***************************************************************************)
(* Proofs that a started timer of a writer proxy is never forgotten, that  *)
(* a stopped proxy is not in use and that a deleted event is unknown to    *)
(* the service thread, for any number of matches and heartbeats.           *)
(*                                                                         *)
(* The three rest on one inductive invariant: what the service thread's    *)
(* position says of its collections (ServiceInv) and what the positions of *)
(* the threads say of the proxy's state and the reader's mutex (ProxyInv). *)
(***************************************************************************)
EXTENDS WriterProxyTimers, TLAPS

InCallback == {"callback", "busy", "send", "sent", "return"}

\* The service thread's bookkeeping.  The event whose callback runs is active, is not WAITING
\* (other threads make an event READY or INACTIVE only), and has not been given up.
ServiceInv ==
    /\ spc # "update" => todo = {}
    /\ spc \in {"waiting", "top", "check"} => scan = {}
    /\ spc \in {"waiting", "top", "update", "check"} => over = {}
    /\ spc \in InCallback => /\ cur \in active \ over
                             /\ cur \notin scan
                             /\ state_[cur] # "WAITING"
    /\ spc \notin InCallback => cur = None
    /\ scan \intersect over = {}

\* The proxy is BUSY exactly while a callback uses it, or STOPPED by a thread that waits for
\* the callback's end; the receiving thread restarts a timer of a matched writer only.
ProxyInv ==
    /\ proxy = "BUSY" => spc \in {"busy", "send", "sent"}
    /\ spc \in {"busy", "send", "sent"} => proxy = "BUSY" \/ dpc = "recreate"
    /\ dpc \in {"recreate", "recreate_cancel", "cancel_initial", "notify_initial",
                "cancel_response", "notify_response", "clear", "pool", "pooled"}
            => proxy = "STOPPED"
    /\ rpc # "idle" => mp_mutex = "receiver" /\ dpc = "matched"

IInv == TypeOK /\ ServiceInv /\ ProxyInv /\ StartedIsScheduled /\ DeletedIsUnknown

-----------------------------------------------------------------------------
\* The invariant holds when the proxy has been created.
LEMMA InitIInv == Init => IInv
<1> SUFFICES ASSUME Init PROVE IInv
  OBVIOUS
<1> USE EventsAssumption, ProxyEventsAssumption DEF Init, TimersInit
<1>1. TypeOK
  <2>1. state_ \in [Events -> StateCode] /\ spc \in ServicePC /\ dpc \in DiscoveryPC
    BY DEF StateCode, ServicePC, DiscoveryPC
  <2>2. /\ is_alive_ \in BOOLEAN /\ heard \in BOOLEAN /\ restart \in BOOLEAN
        /\ greeted \in BOOLEAN /\ owed \in BOOLEAN
    BY Zenon
  <2>3. matches \in 0 .. MaxMatches /\ heartbeats \in 0 .. MaxHeartbeats
    OBVIOUS
  <2> QED BY <2>1, <2>2, <2>3 DEF TypeOK
<1>2. ServiceInv /\ ProxyInv
  BY DEF ServiceInv, ProxyInv, InCallback
<1>3. StartedIsScheduled /\ DeletedIsUnknown
  BY DEF StartedIsScheduled, DeletedIsUnknown
<1> QED BY <1>1, <1>2, <1>3 DEF IInv

\* The types.  What the service thread's position says of its collections is needed here: an
\* event leaves active_timers_ only when over is empty, and pending only when todo is.
LEMMA TypeStep == IInv /\ [Next]_vars => TypeOK'
<1> SUFFICES ASSUME IInv, [Next]_vars PROVE TypeOK'
  OBVIOUS
<1> USE EventsAssumption, ProxyEventsAssumption DEF IInv, TypeOK, ServiceInv, InCallback,
   StateCode, ServicePC, DiscoveryPC
<1>1. CASE service_wake /\ UNCHANGED proxyVars
  BY <1>1 DEF service_wake, proxyVars
<1>2. CASE update_begin /\ UNCHANGED proxyVars
  BY <1>2 DEF update_begin, proxyVars
<1>3. CASE update_end /\ UNCHANGED proxyVars
  BY <1>3 DEF update_end, proxyVars
<1>4. CASE scan_end /\ UNCHANGED proxyVars
  BY <1>4 DEF scan_end, proxyVars
<1>5. CASE service_check /\ UNCHANGED proxyVars
  BY <1>5 DEF service_check, proxyVars
<1>6. ASSUME NEW e \in Events, update(e), UNCHANGED proxyVars PROVE TypeOK'
  BY <1>6 DEF update, proxyVars
<1>7. ASSUME NEW e \in Events, trigger(e), UNCHANGED proxyVars PROVE TypeOK'
  BY <1>7 DEF trigger, proxyVars
<1>8. ASSUME NEW e \in Events, time_passes(e), UNCHANGED proxyVars PROVE TypeOK'
  BY <1>8 DEF time_passes, proxyVars
<1>9. CASE perform_begin
  <2>1. restart' \in BOOLEAN
    BY <1>9, Zenon DEF perform_begin
  <2> QED BY <1>9, <2>1 DEF perform_begin
<1>10. CASE perform_initial_ack_nack
  BY <1>10 DEF perform_initial_ack_nack
<1>11. CASE send_acknack
  <2>1. greeted' \in BOOLEAN /\ owed' \in BOOLEAN /\ restart' \in BOOLEAN
    BY <1>11, Zenon DEF send_acknack
  <2> QED BY <1>11, <2>1 DEF send_acknack
<1>12. CASE perform_end
  BY <1>12 DEF perform_end
<1>13. CASE perform_return
  BY <1>13 DEF perform_return, trigger_end, proxyVars
<1>14. CASE process_heartbeat
  BY <1>14 DEF process_heartbeat, Matched, timerVars
<1>15. CASE restart_response
  BY <1>15 DEF restart_response, go_ready
<1>16. CASE notify_response
  BY <1>16 DEF notify_response, notify, MutexFree
<1>17. CASE start
  <2>1. is_alive_' \in BOOLEAN /\ greeted' \in BOOLEAN /\ owed' \in BOOLEAN
    BY <1>17, Zenon DEF start, Goto, timerVars
  <2> QED BY <1>17, <2>1 DEF start, Goto, timerVars
<1>18. CASE start_timer
  BY <1>18 DEF start_timer, Goto, go_ready, timersButState
<1>19. CASE start_notify
  BY <1>19 DEF start_notify, Goto, notify, MutexFree
<1>20. CASE matched_writer_remove
  BY <1>20 DEF matched_writer_remove, Matched, Goto, timerVars
<1>21. CASE stop
  BY <1>21 DEF stop, Goto, timerVars
<1>22. CASE recreate_unregister
  BY <1>22 DEF recreate_unregister, unregister_timer, MutexFree,
     allow_vector_manipulation, Goto
<1>23. CASE recreate_cancel
  BY <1>23 DEF recreate_cancel, go_cancel, Goto, timersButState
<1>24. CASE cancel_initial
  BY <1>24 DEF cancel_initial, CancelTimer, CancelNotify, go_cancel, notify, MutexFree,
     Goto, timersButState
<1>25. CASE cancel_response
  BY <1>25 DEF cancel_response, CancelTimer, CancelNotify, go_cancel, notify, MutexFree,
     Goto, timersButState
<1>26. CASE clear
  <2>1. is_alive_' \in BOOLEAN /\ heard' \in BOOLEAN
    BY <1>26, Zenon DEF clear, Goto, timerVars
  <2> QED BY <1>26, <2>1 DEF clear, Goto, timerVars
<1>27. CASE pool
  BY <1>27 DEF pool, Goto, timerVars
<1>28. CASE destroy
  BY <1>28 DEF destroy, Goto, timerVars
<1>29. CASE delete_events
  BY <1>29 DEF delete_events, DeleteEvent, unregister_timer, MutexFree,
     allow_vector_manipulation, Goto
<1>30. CASE UNCHANGED vars
  BY <1>30 DEF vars, timerVars, proxyVars
<1> QED BY <1>1, <1>2, <1>3, <1>4, <1>5, <1>6, <1>7, <1>8, <1>9, <1>10, <1>11, <1>12, <1>13,
   <1>14, <1>15, <1>16, <1>17, <1>18, <1>19, <1>20, <1>21, <1>22, <1>23, <1>24, <1>25,
   <1>26, <1>27, <1>28, <1>29, <1>30 DEF Next, ServiceStep, CallbackStep, ReceiverStep,
   DiscoveryStep, WaitingStep

\* The service thread's bookkeeping.
LEMMA ServiceStepInv == IInv /\ [Next]_vars => ServiceInv'
<1> SUFFICES ASSUME IInv, [Next]_vars PROVE ServiceInv'
  OBVIOUS
<1> USE EventsAssumption, ProxyEventsAssumption DEF IInv, TypeOK, ServiceInv, InCallback
<1>1. CASE service_wake /\ UNCHANGED proxyVars
  BY <1>1 DEF service_wake, proxyVars
<1>2. CASE update_begin /\ UNCHANGED proxyVars
  BY <1>2 DEF update_begin, proxyVars
<1>3. CASE update_end /\ UNCHANGED proxyVars
  BY <1>3 DEF update_end, proxyVars
<1>4. CASE scan_end /\ UNCHANGED proxyVars
  BY <1>4 DEF scan_end, proxyVars
<1>5. CASE service_check /\ UNCHANGED proxyVars
  BY <1>5 DEF service_check, proxyVars
<1>6. ASSUME NEW e \in Events, update(e), UNCHANGED proxyVars PROVE ServiceInv'
  BY <1>6 DEF update, proxyVars
<1>7. ASSUME NEW e \in Events, trigger(e), UNCHANGED proxyVars PROVE ServiceInv'
  BY <1>7 DEF trigger, proxyVars
<1>8. ASSUME NEW e \in Events, time_passes(e), UNCHANGED proxyVars PROVE ServiceInv'
  BY <1>8 DEF time_passes, proxyVars
<1>9. CASE perform_begin
  BY <1>9 DEF perform_begin
<1>10. CASE perform_initial_ack_nack
  BY <1>10 DEF perform_initial_ack_nack
<1>11. CASE send_acknack
  BY <1>11 DEF send_acknack
<1>12. CASE perform_end
  BY <1>12 DEF perform_end
<1>13. CASE perform_return
  BY <1>13 DEF perform_return, trigger_end, proxyVars
<1>14. CASE process_heartbeat
  BY <1>14 DEF process_heartbeat, Matched, timerVars
<1>15. CASE restart_response
  BY <1>15 DEF restart_response, go_ready
<1>16. CASE notify_response
  BY <1>16 DEF notify_response, notify, MutexFree
<1>17. CASE start
  BY <1>17 DEF start, Goto, timerVars
<1>18. CASE start_timer
  BY <1>18 DEF start_timer, Goto, go_ready, timersButState
<1>19. CASE start_notify
  BY <1>19 DEF start_notify, Goto, notify, MutexFree
<1>20. CASE matched_writer_remove
  BY <1>20 DEF matched_writer_remove, Matched, Goto, timerVars
<1>21. CASE stop
  BY <1>21 DEF stop, Goto, timerVars
<1>22. CASE recreate_unregister
  BY <1>22 DEF recreate_unregister, unregister_timer, MutexFree,
     allow_vector_manipulation, Goto
<1>23. CASE recreate_cancel
  BY <1>23 DEF recreate_cancel, go_cancel, Goto, timersButState
<1>24. CASE cancel_initial
  BY <1>24 DEF cancel_initial, CancelTimer, CancelNotify, go_cancel, notify, MutexFree,
     Goto, timersButState
<1>25. CASE cancel_response
  BY <1>25 DEF cancel_response, CancelTimer, CancelNotify, go_cancel, notify, MutexFree,
     Goto, timersButState
<1>26. CASE clear
  BY <1>26 DEF clear, Goto, timerVars
<1>27. CASE pool
  BY <1>27 DEF pool, Goto, timerVars
<1>28. CASE destroy
  BY <1>28 DEF destroy, Goto, timerVars
<1>29. CASE delete_events
  BY <1>29 DEF delete_events, DeleteEvent, unregister_timer, MutexFree,
     allow_vector_manipulation, Goto
<1>30. CASE UNCHANGED vars
  BY <1>30 DEF vars, timerVars, proxyVars
<1> QED BY <1>1, <1>2, <1>3, <1>4, <1>5, <1>6, <1>7, <1>8, <1>9, <1>10, <1>11, <1>12, <1>13,
   <1>14, <1>15, <1>16, <1>17, <1>18, <1>19, <1>20, <1>21, <1>22, <1>23, <1>24, <1>25,
   <1>26, <1>27, <1>28, <1>29, <1>30 DEF Next, ServiceStep, CallbackStep, ReceiverStep,
   DiscoveryStep, WaitingStep

\* The proxy's state and the threads that use it.
LEMMA ProxyStep == IInv /\ [Next]_vars => ProxyInv'
<1> SUFFICES ASSUME IInv, [Next]_vars PROVE ProxyInv'
  OBVIOUS
<1> USE EventsAssumption, ProxyEventsAssumption DEF IInv, ProxyInv, ServiceInv, InCallback
<1>1. CASE service_wake /\ UNCHANGED proxyVars
  BY <1>1 DEF service_wake, proxyVars
<1>2. CASE update_begin /\ UNCHANGED proxyVars
  BY <1>2 DEF update_begin, proxyVars
<1>3. CASE update_end /\ UNCHANGED proxyVars
  BY <1>3 DEF update_end, proxyVars
<1>4. CASE scan_end /\ UNCHANGED proxyVars
  BY <1>4 DEF scan_end, proxyVars
<1>5. CASE service_check /\ UNCHANGED proxyVars
  BY <1>5 DEF service_check, proxyVars
<1>6. ASSUME NEW e \in Events, update(e), UNCHANGED proxyVars PROVE ProxyInv'
  BY <1>6 DEF update, proxyVars
<1>7. ASSUME NEW e \in Events, trigger(e), UNCHANGED proxyVars PROVE ProxyInv'
  BY <1>7 DEF trigger, proxyVars
<1>8. ASSUME NEW e \in Events, time_passes(e), UNCHANGED proxyVars PROVE ProxyInv'
  BY <1>8 DEF time_passes, proxyVars
<1>9. CASE perform_begin
  BY <1>9 DEF perform_begin
<1>10. CASE perform_initial_ack_nack
  BY <1>10 DEF perform_initial_ack_nack
<1>11. CASE send_acknack
  BY <1>11 DEF send_acknack
<1>12. CASE perform_end
  BY <1>12 DEF perform_end
<1>13. CASE perform_return
  BY <1>13 DEF perform_return, trigger_end, proxyVars
<1>14. CASE process_heartbeat
  BY <1>14 DEF process_heartbeat, Matched, timerVars
<1>15. CASE restart_response
  BY <1>15 DEF restart_response, go_ready
<1>16. CASE notify_response
  BY <1>16 DEF notify_response, notify, MutexFree
<1>17. CASE start
  BY <1>17 DEF start, Goto, timerVars
<1>18. CASE start_timer
  BY <1>18 DEF start_timer, Goto, go_ready, timersButState
<1>19. CASE start_notify
  BY <1>19 DEF start_notify, Goto, notify, MutexFree
<1>20. CASE matched_writer_remove
  BY <1>20 DEF matched_writer_remove, Matched, Goto, timerVars
<1>21. CASE stop
  BY <1>21 DEF stop, Goto, timerVars
<1>22. CASE recreate_unregister
  BY <1>22 DEF recreate_unregister, unregister_timer, MutexFree,
     allow_vector_manipulation, Goto
<1>23. CASE recreate_cancel
  BY <1>23 DEF recreate_cancel, go_cancel, Goto, timersButState
<1>24. CASE cancel_initial
  BY <1>24 DEF cancel_initial, CancelTimer, CancelNotify, go_cancel, notify, MutexFree,
     Goto, timersButState
<1>25. CASE cancel_response
  BY <1>25 DEF cancel_response, CancelTimer, CancelNotify, go_cancel, notify, MutexFree,
     Goto, timersButState
<1>26. CASE clear
  BY <1>26 DEF clear, Goto, timerVars
<1>27. CASE pool
  BY <1>27 DEF pool, Goto, timerVars
<1>28. CASE destroy
  BY <1>28 DEF destroy, Goto, timerVars
<1>29. CASE delete_events
  BY <1>29 DEF delete_events, DeleteEvent, unregister_timer, MutexFree,
     allow_vector_manipulation, Goto
<1>30. CASE UNCHANGED vars
  BY <1>30 DEF vars, timerVars, proxyVars
<1> QED BY <1>1, <1>2, <1>3, <1>4, <1>5, <1>6, <1>7, <1>8, <1>9, <1>10, <1>11, <1>12, <1>13,
   <1>14, <1>15, <1>16, <1>17, <1>18, <1>19, <1>20, <1>21, <1>22, <1>23, <1>24, <1>25,
   <1>26, <1>27, <1>28, <1>29, <1>30 DEF Next, ServiceStep, CallbackStep, ReceiverStep,
   DiscoveryStep, WaitingStep

\* A started timer is scheduled.
LEMMA StartedStep == IInv /\ [Next]_vars => StartedIsScheduled'
<1> SUFFICES ASSUME IInv, [Next]_vars PROVE StartedIsScheduled'
  OBVIOUS
<1> USE EventsAssumption, ProxyEventsAssumption DEF IInv, StartedIsScheduled, Announced,
   Unregistered, TypeOK, ServiceInv, ProxyInv, InCallback
<1>1. CASE service_wake /\ UNCHANGED proxyVars
  BY <1>1 DEF service_wake, proxyVars
<1>2. CASE update_begin /\ UNCHANGED proxyVars
  BY <1>2 DEF update_begin, proxyVars
<1>3. CASE update_end /\ UNCHANGED proxyVars
  BY <1>3 DEF update_end, proxyVars
<1>4. CASE scan_end /\ UNCHANGED proxyVars
  BY <1>4 DEF scan_end, proxyVars
<1>5. CASE service_check /\ UNCHANGED proxyVars
  BY <1>5 DEF service_check, proxyVars
<1>6. ASSUME NEW e \in Events, update(e), UNCHANGED proxyVars PROVE StartedIsScheduled'
  BY <1>6 DEF update, proxyVars
<1>7. ASSUME NEW e \in Events, trigger(e), UNCHANGED proxyVars PROVE StartedIsScheduled'
  BY <1>7 DEF trigger, proxyVars
<1>8. ASSUME NEW e \in Events, time_passes(e), UNCHANGED proxyVars PROVE StartedIsScheduled'
  BY <1>8 DEF time_passes, proxyVars
<1>9. CASE perform_begin
  BY <1>9 DEF perform_begin
<1>10. CASE perform_initial_ack_nack
  BY <1>10 DEF perform_initial_ack_nack
<1>11. CASE send_acknack
  BY <1>11 DEF send_acknack
<1>12. CASE perform_end
  BY <1>12 DEF perform_end
<1>13. CASE perform_return
  BY <1>13 DEF perform_return, trigger_end, proxyVars
<1>14. CASE process_heartbeat
  BY <1>14 DEF process_heartbeat, Matched, timerVars
<1>15. CASE restart_response
  BY <1>15 DEF restart_response, go_ready
<1>16. CASE notify_response
  BY <1>16 DEF notify_response, notify, MutexFree
<1>17. CASE start
  BY <1>17 DEF start, Goto, timerVars
<1>18. CASE start_timer
  BY <1>18 DEF start_timer, Goto, go_ready, timersButState
<1>19. CASE start_notify
  BY <1>19 DEF start_notify, Goto, notify, MutexFree
<1>20. CASE matched_writer_remove
  BY <1>20 DEF matched_writer_remove, Matched, Goto, timerVars
<1>21. CASE stop
  BY <1>21 DEF stop, Goto, timerVars
<1>22. CASE recreate_unregister
  BY <1>22 DEF recreate_unregister, unregister_timer, MutexFree,
     allow_vector_manipulation, Goto
<1>23. CASE recreate_cancel
  BY <1>23 DEF recreate_cancel, go_cancel, Goto, timersButState
<1>24. CASE cancel_initial
  BY <1>24 DEF cancel_initial, CancelTimer, CancelNotify, go_cancel, notify, MutexFree,
     Goto, timersButState
<1>25. CASE cancel_response
  BY <1>25 DEF cancel_response, CancelTimer, CancelNotify, go_cancel, notify, MutexFree,
     Goto, timersButState
<1>26. CASE clear
  BY <1>26 DEF clear, Goto, timerVars
<1>27. CASE pool
  BY <1>27 DEF pool, Goto, timerVars
<1>28. CASE destroy
  BY <1>28 DEF destroy, Goto, timerVars
<1>29. CASE delete_events
  BY <1>29 DEF delete_events, DeleteEvent, unregister_timer, MutexFree,
     allow_vector_manipulation, Goto
<1>30. CASE UNCHANGED vars
  BY <1>30 DEF vars, timerVars, proxyVars
<1> QED BY <1>1, <1>2, <1>3, <1>4, <1>5, <1>6, <1>7, <1>8, <1>9, <1>10, <1>11, <1>12, <1>13,
   <1>14, <1>15, <1>16, <1>17, <1>18, <1>19, <1>20, <1>21, <1>22, <1>23, <1>24, <1>25,
   <1>26, <1>27, <1>28, <1>29, <1>30 DEF Next, ServiceStep, CallbackStep, ReceiverStep,
   DiscoveryStep, WaitingStep

\* A deleted event is unknown.
LEMMA DeletedStep == IInv /\ [Next]_vars => DeletedIsUnknown'
<1> SUFFICES ASSUME IInv, [Next]_vars PROVE DeletedIsUnknown'
  OBVIOUS
<1> USE EventsAssumption, ProxyEventsAssumption DEF IInv, DeletedIsUnknown, TypeOK,
   ServiceInv, ProxyInv, InCallback
<1>1. CASE service_wake /\ UNCHANGED proxyVars
  BY <1>1 DEF service_wake, proxyVars
<1>2. CASE update_begin /\ UNCHANGED proxyVars
  BY <1>2 DEF update_begin, proxyVars
<1>3. CASE update_end /\ UNCHANGED proxyVars
  BY <1>3 DEF update_end, proxyVars
<1>4. CASE scan_end /\ UNCHANGED proxyVars
  BY <1>4 DEF scan_end, proxyVars
<1>5. CASE service_check /\ UNCHANGED proxyVars
  BY <1>5 DEF service_check, proxyVars
<1>6. ASSUME NEW e \in Events, update(e), UNCHANGED proxyVars PROVE DeletedIsUnknown'
  BY <1>6 DEF update, proxyVars
<1>7. ASSUME NEW e \in Events, trigger(e), UNCHANGED proxyVars PROVE DeletedIsUnknown'
  BY <1>7 DEF trigger, proxyVars
<1>8. ASSUME NEW e \in Events, time_passes(e), UNCHANGED proxyVars PROVE DeletedIsUnknown'
  BY <1>8 DEF time_passes, proxyVars
<1>9. CASE perform_begin
  BY <1>9 DEF perform_begin
<1>10. CASE perform_initial_ack_nack
  BY <1>10 DEF perform_initial_ack_nack
<1>11. CASE send_acknack
  BY <1>11 DEF send_acknack
<1>12. CASE perform_end
  BY <1>12 DEF perform_end
<1>13. CASE perform_return
  BY <1>13 DEF perform_return, trigger_end, proxyVars
<1>14. CASE process_heartbeat
  BY <1>14 DEF process_heartbeat, Matched, timerVars
<1>15. CASE restart_response
  BY <1>15 DEF restart_response, go_ready
<1>16. CASE notify_response
  BY <1>16 DEF notify_response, notify, MutexFree
<1>17. CASE start
  BY <1>17 DEF start, Goto, timerVars
<1>18. CASE start_timer
  BY <1>18 DEF start_timer, Goto, go_ready, timersButState
<1>19. CASE start_notify
  BY <1>19 DEF start_notify, Goto, notify, MutexFree
<1>20. CASE matched_writer_remove
  BY <1>20 DEF matched_writer_remove, Matched, Goto, timerVars
<1>21. CASE stop
  BY <1>21 DEF stop, Goto, timerVars
<1>22. CASE recreate_unregister
  BY <1>22 DEF recreate_unregister, unregister_timer, MutexFree,
     allow_vector_manipulation, Goto
<1>23. CASE recreate_cancel
  BY <1>23 DEF recreate_cancel, go_cancel, Goto, timersButState
<1>24. CASE cancel_initial
  BY <1>24 DEF cancel_initial, CancelTimer, CancelNotify, go_cancel, notify, MutexFree,
     Goto, timersButState
<1>25. CASE cancel_response
  BY <1>25 DEF cancel_response, CancelTimer, CancelNotify, go_cancel, notify, MutexFree,
     Goto, timersButState
<1>26. CASE clear
  BY <1>26 DEF clear, Goto, timerVars
<1>27. CASE pool
  BY <1>27 DEF pool, Goto, timerVars
<1>28. CASE destroy
  BY <1>28 DEF destroy, Goto, timerVars
<1>29. CASE delete_events
  BY <1>29 DEF delete_events, DeleteEvent, unregister_timer, MutexFree,
     allow_vector_manipulation, Goto
<1>30. CASE UNCHANGED vars
  BY <1>30 DEF vars, timerVars, proxyVars
<1> QED BY <1>1, <1>2, <1>3, <1>4, <1>5, <1>6, <1>7, <1>8, <1>9, <1>10, <1>11, <1>12, <1>13,
   <1>14, <1>15, <1>16, <1>17, <1>18, <1>19, <1>20, <1>21, <1>22, <1>23, <1>24, <1>25,
   <1>26, <1>27, <1>28, <1>29, <1>30 DEF Next, ServiceStep, CallbackStep, ReceiverStep,
   DiscoveryStep, WaitingStep

-----------------------------------------------------------------------------
\* The inductive invariant holds in every reachable state.
THEOREM Invariance == Spec => []IInv
<1>1. IInv /\ [Next]_vars => IInv'
  BY TypeStep, ServiceStepInv, ProxyStep, StartedStep, DeletedStep DEF IInv
<1> QED BY InitIInv, <1>1, PTL DEF Spec

\* The event states, the service's collections, the two program counters and the flags keep
\* their types in every interleaving of update(), trigger(), restart_timer(), cancel_timer(),
\* stop() and the destructor.
THEOREM TypeCorrect == Spec => []TypeOK
<1>1. IInv => TypeOK
  BY DEF IInv
<1> QED BY Invariance, <1>1, PTL

\* No started timer is forgotten: restart_timer() and cancel_timer() by two threads and
\* update() and trigger() by a third leave no event WAITING that is not active, and none
\* READY that the service thread will not see.
THEOREM TimersAreScheduled == Spec => []StartedIsScheduled
<1>1. IInv => StartedIsScheduled
  BY DEF IInv
<1> QED BY Invariance, <1>1, PTL

\* A proxy that stop() has cleared or the pool offers again is not in use by a callback.
THEOREM ProxyIsReusable == Spec => []StoppedIsUnused
<1>1. IInv => StoppedIsUnused
  BY DEF IInv, ProxyInv, StoppedIsUnused
<1> QED BY Invariance, <1>1, PTL

\* The service thread holds no pointer to an event that the proxy's destructor has deleted.
THEOREM NoDanglingEvents == Spec => []DeletedIsUnknown
<1>1. IInv => DeletedIsUnknown
  BY DEF IInv
<1> QED BY Invariance, <1>1, PTL
=============================================================================
