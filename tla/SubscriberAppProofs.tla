------------------------ MODULE SubscriberAppProofs ------------------------
(***************************************************************************)
(* Proofs that the subscriber's callback leaves no sample behind, and that *)
(* stop() on a thread main() waits for never finds the application         *)
(* destroyed, for any size of the batches and any width of the counter.    *)
(***************************************************************************)
EXTENDS SubscriberApp, TLAPS

-----------------------------------------------------------------------------
\* on_data_available() returns only when there is nothing left or the application is stopped,
\* for any number of samples per notification.  Inductive as it stands: stop_ is never reset.
THEOREM DrainedBetweenCallbacksHolds == FairSpec => []DrainedBetweenCallbacks
<1>1. Init => DrainedBetweenCallbacks
  BY DEF Init, DrainedBetweenCallbacks
<1>2. DrainedBetweenCallbacks /\ [Next]_vars => DrainedBetweenCallbacks'
  <2> SUFFICES ASSUME DrainedBetweenCallbacks, [Next]_vars PROVE DrainedBetweenCallbacks'
    OBVIOUS
  <2> USE DEF DrainedBetweenCallbacks
  <2>1. CASE MainStep
    BY <2>1 DEF MainStep, MakeApp, StartThread, InstallHandlers, Join, DeleteParticipant,
                DestroyMembers, Exit
  <2>2. CASE RunStep
    BY <2>2 DEF RunStep
  <2>3. CASE SpuriousWakeup \/ ReceiveThreadEnds \/ SignalKills
    BY <2>3 DEF SpuriousWakeup, ReceiveThreadEnds, SignalKills
  <2>4. CASE DataArrives
    BY <2>4 DEF DataArrives
  <2>5. CASE on_data_available
    BY <2>5 DEF on_data_available
  <2>6. ASSUME NEW t \in Threads, SignalArrives(t) \/ StopNotifies(t)
        PROVE  DrainedBetweenCallbacks'
    BY <2>6 DEF SignalArrives, StopNotifies
  <2>7. CASE UNCHANGED vars
    BY <2>7 DEF vars
  <2> QED BY <2>1, <2>2, <2>3, <2>4, <2>5, <2>6, <2>7 DEF Next
<1> QED BY <1>1, <1>2, PTL DEF FairSpec

-----------------------------------------------------------------------------
\* What makes the order of main() safe for stop() on these threads: one that has ended runs no
\* handler, and main(), which destroys the application itself, has then joined the two others.
OwnersInv ==
    /\ handler \in [Threads -> {"none", "notify"}]
    /\ mpc = "make" => app = "none"
    /\ mpc \in {"destroy", "delete", "return"} => rpc = "done"
    /\ rpc = "done" => handler["run"] = "none"
    /\ app = "unthreaded" => handler["receive"] = "none"

IInv == OwnersInv /\ AppOutlivesItsThreads

\* The invariant holds when main() begins.
LEMMA InitIInv == Init => IInv
  BY DEF Init, IInv, OwnersInv, AppOutlivesItsThreads, Joined, Threads

\* Every step of main(), the threads and the handlers keeps it.
LEMMA NextIInv == IInv /\ [Next]_vars => IInv'
<1> SUFFICES ASSUME IInv, [Next]_vars PROVE IInv'
  OBVIOUS
<1> USE DEF IInv, OwnersInv, AppOutlivesItsThreads, Joined, Threads, Ended, Runs
<1>1. CASE MainStep
  <2>1. CASE MakeApp \/ StartThread \/ InstallHandlers \/ Join \/ DeleteParticipant \/ Exit
    BY <2>1 DEF MakeApp, StartThread, InstallHandlers, Join, DeleteParticipant, Exit, MainGoto
  <2>2. CASE DestroyMembers
    BY <2>2 DEF DestroyMembers, MainGoto
  <2> QED BY <1>1, <2>1, <2>2 DEF MainStep
<1>2. CASE RunStep
  BY <1>2 DEF RunStep, EnterRun, Lock, Predicate, Park, RunGoto
<1>3. CASE SpuriousWakeup
  BY <1>3 DEF SpuriousWakeup, NotifyAll
<1>4. CASE DataArrives \/ on_data_available
  BY <1>4 DEF DataArrives, on_data_available
<1>5. CASE ReceiveThreadEnds
  BY <1>5 DEF ReceiveThreadEnds
<1>6. CASE SignalKills
  BY <1>6 DEF SignalKills
<1>7. ASSUME NEW t \in Threads, SignalArrives(t) PROVE IInv'
  BY <1>7 DEF SignalArrives, Living
<1>8. ASSUME NEW t \in Threads, StopNotifies(t) PROVE IInv'
  BY <1>8 DEF StopNotifies, NotifyAll
<1>9. CASE UNCHANGED vars
  BY <1>9 DEF vars
<1> QED BY <1>1, <1>2, <1>3, <1>4, <1>5, <1>6, <1>7, <1>8, <1>9 DEF Next

\* On main(), the run thread and the participant's threads stop() notifies a condition variable
\* that still exists, however soon run() returns and whatever handlers run on other threads.
THEOREM AppOutlivesItsThreadsHolds == FairSpec => []AppOutlivesItsThreads
<1>1. IInv => AppOutlivesItsThreads
  BY DEF IInv
<1> QED BY <1>1, InitIInv, NextIInv, PTL DEF FairSpec
=============================================================================
