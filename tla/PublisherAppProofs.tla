------------------------- MODULE PublisherAppProofs -------------------------
(***************************************************************************)
(* Proofs about PublisherApp, for every set of readers, every set of       *)
(* participant-removing threads and every width of the sample counter.     *)
(***************************************************************************)
EXTENDS PublisherApp, FiniteSets, FiniteSetTheorems, TLAPS

USE PublisherAssumption DEF PublisherAssumption

\* The types hold at the start.
LEMMA InitTypeOK == Init => TypeOK
<1> SUFFICES ASSUME Init PROVE TypeOK
    OBVIOUS
<1>1. NoStatus \in Status /\ NoLocals \in Locals
    BY DEF NoStatus, Status, NoLocals, Locals
<1>2. dpc \in [Threads -> DiscoveryPc] /\ local \in [Threads -> Locals]
    BY <1>1 DEF Init, DiscoveryPc
<1>3. stop_ \in BOOLEAN
    BY Zenon DEF Init
<1>4. samples_sent_ \in 0 .. CounterModulus - 1
    BY DEF Init
<1> QED
    BY <1>1, <1>2, <1>3, <1>4 DEF Init, TypeOK, RunPc, HoldsMutex

\* The run thread keeps the types, and takes and releases the mutexes where TypeOK says.
LEMMA RunTypeOK == TypeOK /\ RunStep => TypeOK'
<1> SUFFICES ASSUME TypeOK, RunStep PROVE TypeOK'
    OBVIOUS
<1> USE DEF RunGoto, Locks, Unlocks, Steps, TypeOK, RunPc, HoldsMutex, discoveryVars
<1>1. CASE WhileNotStopped BY <1>1 DEF WhileNotStopped, RunStep
<1>2. CASE LockForMatch BY <1>2 DEF LockForMatch, RunStep
<1>3. CASE MatchPredicate BY <1>3 DEF MatchPredicate, RunStep
<1>4. CASE ParkForMatch BY <1>4 DEF ParkForMatch, RunStep
<1>5. CASE RelockForMatch BY <1>5 DEF RelockForMatch, RunStep
<1>6. CASE CheckStopped
    <2>1. CASE stop_ BY <1>6, <2>1, SMT DEF CheckStopped, RunStep
    <2>2. CASE ~stop_ BY <1>6, <2>2, SMT DEF CheckStopped, RunStep
    <2> QED BY <2>1, <2>2
<1>7. CASE EnterWrite BY <1>7 DEF EnterWrite, RunStep
<1>8. CASE LeaveWrite
    <2>1. (samples_sent_ + 1) % CounterModulus \in 0 .. CounterModulus - 1
        OBVIOUS
    <2>2. samples_sent_' \in 0 .. CounterModulus - 1
        BY <1>8, <2>1 DEF LeaveWrite
    <2> QED BY <1>8, <2>2 DEF LeaveWrite, RunStep
<1>9. CASE LockForPeriod BY <1>9 DEF LockForPeriod, RunStep
<1>10. CASE PeriodPredicate
    <2>1. CASE stop_ BY <1>10, <2>1 DEF PeriodPredicate, RunStep
    <2>2. CASE ~stop_ BY <1>10, <2>2 DEF PeriodPredicate, RunStep
    <2> QED BY <2>1, <2>2
<1>11. CASE ParkForPeriod BY <1>11 DEF ParkForPeriod, RunStep
<1>12. CASE RelockForPeriod BY <1>12 DEF RelockForPeriod, RunStep
<1>13. CASE LeavePeriodWait BY <1>13 DEF LeavePeriodWait, RunStep
<1> QED
    BY <1>1, <1>2, <1>3, <1>4, <1>5, <1>6, <1>7, <1>8, <1>9, <1>10, <1>11, <1>12, <1>13
    DEF RunStep

\* A notification moves the run thread off cv_ or does nothing, and keeps the types.
LEMMA NotifyTypeOK ==
    ASSUME TypeOK, NotifyOne, UNCHANGED <<mutex_, wmutex>>
    PROVE  /\ pc' \in RunPc
           /\ mutex_' = IF pc' \in HoldsMutex THEN "run" ELSE "free"
           /\ wmutex' = IF pc' = "writing" THEN "run" ELSE "free"
BY DEF TypeOK, NotifyOne, RunPc, HoldsMutex

\* The locals of a thread keep their type when it reads the status.
LEMMA InfoKept ==
    ASSUME NEW f \in [Threads -> Locals], NEW t \in Threads, NEW info \in Status
    PROVE  [f EXCEPT ![t].info = info] \in [Threads -> Locals]
<1>1. [f[t] EXCEPT !.info = info] \in Locals
    BY DEF Locals
<1> QED BY <1>1

\* And when it begins an event.
LEMMA TargetKept ==
    ASSUME NEW f \in [Threads -> Locals], NEW t \in Threads, NEW r \in Readers,
           NEW delta \in {1, -1}
    PROVE  [f EXCEPT ![t].target = {r}, ![t].delta = delta] \in [Threads -> Locals]
<1>1. [f[t] EXCEPT !.target = {r}, !.delta = delta] \in Locals
    BY DEF Locals
<1> QED BY <1>1

\* Every step of a discovery thread keeps its locals in their type.
LEMMA DiscoveryTypeOK ==
    ASSUME TypeOK, NEW t \in Threads, DiscoveryStep(t)
    PROVE  TypeOK'
<1> USE DEF Goto, Finish, LoadRegister, TypeOK, Locals, NoLocals, Status, NoStatus, DiscoveryPc,
            runVars
<1>1. CASE Unpair(t) /\ UNCHANGED <<stop_, matched_, runVars, sig>>
    <2>1. readers' \in SUBSET Readers
        BY <1>1 DEF Unpair
    <2>2. CASE Goto(t, "unpair", "load") /\ UNCHANGED local
        BY <1>1, <2>1, <2>2 DEF Unpair
    <2>3. CASE Finish(t)
        BY <1>1, <2>1, <2>3 DEF Unpair
    <2> QED BY <1>1, <2>2, <2>3 DEF Unpair
<1>2. CASE LoadCount(t) /\ UNCHANGED <<stop_, matched_, runVars, sig>>
    BY <1>2, SMTT(30) DEF LoadCount
<1>3. CASE StoreCount(t) /\ UNCHANGED <<stop_, matched_, runVars, sig>>
    BY <1>3 DEF StoreCount
<1>4. CASE LoadChange(t) /\ UNCHANGED <<stop_, matched_, runVars, sig>>
    BY <1>4, SMTT(30) DEF LoadChange
<1>5. CASE StoreChange(t) /\ UNCHANGED <<stop_, matched_, runVars, sig>>
    BY <1>5 DEF StoreChange
<1>6. CASE GetStatus(t) /\ UNCHANGED <<stop_, matched_, runVars, sig>>
    <2>1. status' \in Status
        BY <1>6 DEF GetStatus
    <2>2. local' \in [Threads -> Locals]
        <3> HIDE DEF Locals, Status
        <3> QED BY <1>6, InfoKept DEF GetStatus
    <2>3. dpc' \in [Threads -> DiscoveryPc]
        BY <1>6 DEF GetStatus
    <2> QED BY <1>6, <2>1, <2>2, <2>3 DEF GetStatus
<1>7. CASE OnPublicationMatched(t) /\ UNCHANGED <<stop_, runVars, sig>>
    BY <1>7 DEF OnPublicationMatched
<1>8. CASE MatchNotifies(t)
    <2>1. UNCHANGED <<stop_, matched_, samples_sent_, mutex_, wmutex, readers, status, sig>>
        BY <1>8 DEF MatchNotifies
    <2>2. dpc' \in [Threads -> DiscoveryPc] /\ local' \in [Threads -> Locals]
        BY <1>8 DEF MatchNotifies
    <2> QED
        BY <1>8, <2>1, <2>2, NotifyTypeOK DEF MatchNotifies
<1> QED
    BY <1>1, <1>2, <1>3, <1>4, <1>5, <1>6, <1>7, <1>8 DEF DiscoveryStep

\* The beginning of a discovery event keeps the types.
LEMMA EventTypeOK == TypeOK /\ DiscoveryEvent => TypeOK'
<1> SUFFICES ASSUME TypeOK, DiscoveryEvent PROVE TypeOK'
    OBVIOUS
<1>1. PICK r \in Readers :
        \/ EdpMatches(r) \/ EdpUnmatches(r) \/ \E d \in Droppers : DropParticipant(d, r)
    BY DEF DiscoveryEvent
<1>2. PICK t \in Threads, next \in DiscoveryPc, delta \in {1, -1} : Begin(t, next, r, delta)
    BY <1>1 DEF EdpMatches, EdpUnmatches, DropParticipant, Threads, DiscoveryPc
<1>3. dpc' \in [Threads -> DiscoveryPc] /\ local' \in [Threads -> Locals]
    <2>1. dpc' \in [Threads -> DiscoveryPc]
        BY <1>2 DEF Begin, TypeOK
    <2>2. local' \in [Threads -> Locals]
        BY <1>2, TargetKept DEF Begin, TypeOK
    <2> QED BY <2>1, <2>2
<1>4. readers' \in SUBSET Readers /\ status' = status
    BY <1>1 DEF EdpMatches, EdpUnmatches, DropParticipant, TypeOK
<1> QED
    BY <1>3, <1>4 DEF DiscoveryEvent, TypeOK, runVars

\* Every step keeps the types.
LEMMA NextTypeOK == TypeOK /\ [Next]_vars => TypeOK'
<1> SUFFICES ASSUME TypeOK, [Next]_vars PROVE TypeOK'
    OBVIOUS
<1>1. CASE RunStep BY <1>1, RunTypeOK
<1>2. CASE PeriodElapses
    BY <1>2 DEF PeriodElapses, Steps, RunGoto, TypeOK, RunPc, HoldsMutex, discoveryVars
<1>3. CASE SpuriousWakeup
    BY <1>3, NotifyTypeOK DEF SpuriousWakeup, TypeOK, discoveryVars
<1>4. CASE SignalArrives
    <2>1. stop_' \in BOOLEAN BY <1>4, Zenon DEF SignalArrives
    <2> QED BY <1>4, <2>1 DEF SignalArrives, TypeOK, discoveryVars, runVars
<1>5. CASE StopNotifies
    BY <1>5, NotifyTypeOK DEF StopNotifies, TypeOK, discoveryVars
<1>6. CASE DiscoveryEvent BY <1>6, EventTypeOK
<1>7. CASE \E t \in Threads : DiscoveryStep(t) BY <1>7, DiscoveryTypeOK
<1>8. CASE UNCHANGED vars BY <1>8 DEF vars, TypeOK
<1> QED
    BY <1>1, <1>2, <1>3, <1>4, <1>5, <1>6, <1>7, <1>8 DEF Next

\* Type correctness: in particular the run thread holds mutex_ and the DataWriter's mutex
\* exactly between the lock and unlock points of run() and publish().
THEOREM TypeCorrect == Spec => []TypeOK
BY InitTypeOK, NextTypeOK, PTL DEF Spec

-----------------------------------------------------------------------------
\* Only on_publication_matched() writes matched_, and not while the run thread has mutex_.
LEMMA MatchedStable ==
    ASSUME TypeOK, [Next]_vars, pc \in HoldsMutex
    PROVE  matched_' = matched_
<1>1. ASSUME NEW t \in Threads, DiscoveryStep(t)
      PROVE  matched_' = matched_
    BY <1>1 DEF DiscoveryStep, OnPublicationMatched, MatchNotifies, TypeOK
<1> QED
    BY <1>1 DEF Next, RunStep, PeriodElapses, SpuriousWakeup, SignalArrives, StopNotifies,
                DiscoveryEvent, vars

\* stop_ is never reset.
LEMMA StopStable ==
    ASSUME [Next]_vars, stop_
    PROVE  stop_'
<1>1. ASSUME NEW t \in Threads, DiscoveryStep(t)
      PROVE  stop_'
    BY <1>1 DEF DiscoveryStep, MatchNotifies
<1> QED
    BY <1>1 DEF Next, RunStep, PeriodElapses, SpuriousWakeup, SignalArrives, StopNotifies,
                DiscoveryEvent, vars

\* A step that is not the run thread's moves it only off cv_.
LEMMA OthersMovePc ==
    ASSUME [Next]_vars, ~RunStep, ~PeriodElapses
    PROVE  pc' = pc \/ (pc = "parked" /\ pc' = "relock") \/ (pc = "parked2" /\ pc' = "relock2")
<1>1. ASSUME NEW t \in Threads, DiscoveryStep(t)
      PROVE  pc' = pc \/ NotifyOne
    BY <1>1 DEF DiscoveryStep, MatchNotifies, runVars
<1>2. pc' = pc \/ NotifyOne
    BY <1>1 DEF Next, SpuriousWakeup, SignalArrives, StopNotifies, DiscoveryEvent, vars, runVars
<1> QED
    BY <1>2 DEF NotifyOne

\* Once publish() has found its predicate true it stays true until write() has returned.
THEOREM WritesOnlyMatchedHolds == Spec => []WritesOnlyMatched
<1>1. Init => WritesOnlyMatched
    BY DEF Init, WritesOnlyMatched
<1>2. TypeOK /\ WritesOnlyMatched /\ [Next]_vars => WritesOnlyMatched'
    <2> SUFFICES ASSUME TypeOK, WritesOnlyMatched, [Next]_vars,
                        pc' \in {"check", "write", "writing"}
                 PROVE  matched_' > 0 \/ stop_'
        BY DEF WritesOnlyMatched
    <2>1. CASE RunStep
        <3>1. matched_' = matched_ /\ stop_' = stop_
            BY <2>1 DEF RunStep
        <3>2. CASE pc = "pred"
            BY <2>1, <3>1, <3>2
            DEF RunStep, WhileNotStopped, LockForMatch, MatchPredicate, ParkForMatch,
                RelockForMatch, CheckStopped, EnterWrite, LeaveWrite, LockForPeriod,
                PeriodPredicate, ParkForPeriod, RelockForPeriod, LeavePeriodWait,
                Locks, Unlocks, Steps, RunGoto
        <3>3. CASE pc # "pred"
            <4>1. pc \in {"check", "write", "writing"}
                BY <2>1, <3>3
                DEF RunStep, WhileNotStopped, LockForMatch, MatchPredicate, ParkForMatch,
                    RelockForMatch, CheckStopped, EnterWrite, LeaveWrite, LockForPeriod,
                    PeriodPredicate, ParkForPeriod, RelockForPeriod, LeavePeriodWait,
                    Locks, Unlocks, Steps, RunGoto
            <4> QED BY <3>1, <4>1 DEF WritesOnlyMatched
        <3> QED BY <3>2, <3>3
    <2>2. CASE PeriodElapses
        BY <2>2 DEF PeriodElapses, Steps, RunGoto
    <2>3. CASE ~RunStep /\ ~PeriodElapses
        <3>1. pc \in {"check", "write", "writing"}
            BY <2>3, OthersMovePc
        <3>2. matched_ > 0 \/ stop_
            BY <3>1 DEF WritesOnlyMatched
        <3>3. matched_' = matched_
            BY <3>1, MatchedStable DEF HoldsMutex
        <3> QED BY <3>2, <3>3, StopStable
    <2> QED BY <2>1, <2>2, <2>3
<1> QED
    BY <1>1, <1>2, TypeCorrect, PTL DEF Spec

-----------------------------------------------------------------------------
(***************************************************************************)
(* Without participant removal the Edp thread is the only one that touches *)
(* the status, so what it finds there is what it left: the number of       *)
(* matched readers is matched_, or matched_ + delta while the thread is on *)
(* its way from the RTPS writer to on_publication_matched().               *)
(***************************************************************************)
CountsAgree ==
    LET at == dpc[Edp]
        l == local[Edp]
        new == matched_ + l.delta
    IN  /\ IsFiniteSet(readers)
        /\ at # "unpair"
        /\ at \in {"idle", "notify"} => Cardinality(readers) = matched_
        /\ at \notin {"idle", "notify"} => Cardinality(readers) = new
        /\ at \in {"idle", "notify", "load", "store"} => status.count = matched_
        /\ at \notin {"idle", "notify", "load", "store"} => status.count = new
        /\ at = "store" => l.reg = matched_
        /\ at = "storeChange" => l.reg = 0
        /\ at # "get" => status.change = 0
        /\ at = "get" => status.change = l.delta
        /\ at = "callback" => l.info = [count |-> new, change |-> l.delta]

\* The counts agree at the start: nothing is matched.
LEMMA InitCountsAgree == Init => CountsAgree
BY FS_EmptySet DEF Init, CountsAgree, NoStatus, NoLocals, Threads

\* The Edp thread matches or unmatches a reader in the RTPS writer: the count it has to report
\* differs from matched_ by its delta.
LEMMA EventCountsAgree ==
    ASSUME Droppers = {}, TypeOK, CountsAgree, DiscoveryEvent
    PROVE  CountsAgree'
<1>1. PICK r \in Readers : EdpMatches(r) \/ EdpUnmatches(r)
    BY DEF DiscoveryEvent
<1>2. dpc[Edp] = "idle" /\ dpc'[Edp] = "load" /\ status' = status /\ matched_' = matched_
    BY <1>1 DEF EdpMatches, EdpUnmatches, Begin, TypeOK, Threads, DiscoveryEvent
<1>3. IsFiniteSet(readers) /\ Cardinality(readers) = matched_ /\ Cardinality(readers) \in Int
    BY <1>2, FS_CardinalityType DEF CountsAgree
<1>4. CASE EdpMatches(r)
    <2>1. local'[Edp].delta = 1
        BY <1>4 DEF EdpMatches, Begin, TypeOK, Threads, Locals
    <2>2. IsFiniteSet(readers') /\ Cardinality(readers') = matched_ + 1
        BY <1>3, <1>4, FS_AddElement DEF EdpMatches
    <2> QED
        BY <1>2, <2>1, <2>2 DEF CountsAgree
<1>5. CASE EdpUnmatches(r)
    <2>1. local'[Edp].delta = -1
        BY <1>5 DEF EdpUnmatches, Begin, TypeOK, Threads, Locals
    <2>2. IsFiniteSet(readers') /\ Cardinality(readers') = matched_ - 1
        BY <1>3, <1>5, FS_RemoveElement, SMTT(30) DEF EdpUnmatches
    <2> QED
        BY <1>2, <2>1, <2>2, SMTT(30) DEF CountsAgree, TypeOK
<1> QED BY <1>1, <1>4, <1>5

\* Each step of the Edp thread towards the callback keeps the counts in agreement.
LEMMA DiscoveryCountsAgree ==
    ASSUME Droppers = {}, TypeOK, CountsAgree, NEW t \in Threads, DiscoveryStep(t)
    PROVE  CountsAgree'
<1>1. t = Edp
    BY DEF Threads
<1>2. Cardinality(readers) \in Int
    BY FS_CardinalityType DEF CountsAgree
<1> USE <1>1, <1>2
        DEF Goto, Finish, LoadRegister, TypeOK, Locals, NoLocals, Status, NoStatus, DiscoveryPc,
            CountsAgree
<1>3. CASE Unpair(t) BY <1>3 DEF Unpair
<1>4. CASE LoadCount(t) /\ UNCHANGED <<stop_, matched_, runVars, sig>>
    BY <1>4 DEF LoadCount
<1>5. CASE StoreCount(t) /\ UNCHANGED <<stop_, matched_, runVars, sig>>
    BY <1>5 DEF StoreCount
<1>6. CASE LoadChange(t) /\ UNCHANGED <<stop_, matched_, runVars, sig>>
    BY <1>6 DEF LoadChange
<1>7. CASE StoreChange(t) /\ UNCHANGED <<stop_, matched_, runVars, sig>>
    BY <1>7 DEF StoreChange
<1>8. CASE GetStatus(t) /\ UNCHANGED <<stop_, matched_, runVars, sig>>
    BY <1>8 DEF GetStatus
<1>9. CASE OnPublicationMatched(t)
    <2>1. /\ local[Edp].info.change = local[Edp].delta
          /\ local[Edp].info.count = matched_ + local[Edp].delta
          /\ matched_' = matched_ + local[Edp].delta
          /\ UNCHANGED <<readers, status>>
        BY <1>9 DEF OnPublicationMatched
    <2>2. CASE local[Edp].delta = 1
        <3>1. dpc'[Edp] = "notify"
            BY <1>9, <2>1, <2>2 DEF OnPublicationMatched
        <3> QED BY <1>9, <2>1, <3>1 DEF OnPublicationMatched
    <2>3. CASE local[Edp].delta = -1
        <3>1. dpc'[Edp] = "idle"
            BY <1>9, <2>1, <2>3 DEF OnPublicationMatched
        <3> QED BY <1>9, <2>1, <3>1 DEF OnPublicationMatched
    <2> QED BY <2>2, <2>3
<1>10. CASE MatchNotifies(t)
    BY <1>10 DEF MatchNotifies
<1> QED
    BY <1>3, <1>4, <1>5, <1>6, <1>7, <1>8, <1>9, <1>10 DEF DiscoveryStep

\* Every step keeps the counts in agreement; other threads touch none of them.
LEMMA NextCountsAgree ==
    ASSUME Droppers = {}, TypeOK, CountsAgree, [Next]_vars
    PROVE  CountsAgree'
<1>1. CASE DiscoveryEvent BY <1>1, EventCountsAgree
<1>2. CASE \E t \in Threads : DiscoveryStep(t) BY <1>2, DiscoveryCountsAgree
<1>3. CASE ~DiscoveryEvent /\ ~(\E t \in Threads : DiscoveryStep(t))
    <2>1. UNCHANGED <<matched_, readers, status, dpc, local>>
        BY <1>3 DEF Next, RunStep, PeriodElapses, SpuriousWakeup, SignalArrives, StopNotifies,
                    vars, discoveryVars
    <2> QED BY <2>1 DEF CountsAgree
<1> QED BY <1>1, <1>2, <1>3

\* A step of the run thread reaches publish()'s sleep only with matched_ <= 0.
LEMMA RunNoLost ==
    ASSUME TypeOK, NoLostMatchWakeup, RunStep
    PROVE  NoLostMatchWakeup'
<1>1. matched_' = matched_ /\ dpc' = dpc
    BY DEF RunStep, discoveryVars
<1>2. CASE pc' = "enqueue"
    <2>1. ~(matched_ > 0)
        BY <1>2
        DEF RunStep, WhileNotStopped, LockForMatch, MatchPredicate, ParkForMatch, RelockForMatch,
            CheckStopped, EnterWrite, LeaveWrite, LockForPeriod, PeriodPredicate, ParkForPeriod,
            RelockForPeriod, LeavePeriodWait, Locks, Unlocks, Steps, RunGoto
    <2> QED BY <1>1, <2>1 DEF NoLostMatchWakeup
<1>3. CASE pc' = "parked"
    <2>1. pc = "enqueue"
        BY <1>3
        DEF RunStep, WhileNotStopped, LockForMatch, MatchPredicate, ParkForMatch, RelockForMatch,
            CheckStopped, EnterWrite, LeaveWrite, LockForPeriod, PeriodPredicate, ParkForPeriod,
            RelockForPeriod, LeavePeriodWait, Locks, Unlocks, Steps, RunGoto
    <2> QED BY <1>1, <2>1 DEF NoLostMatchWakeup
<1> QED BY <1>2, <1>3 DEF NoLostMatchWakeup

\* A callback that makes matched_ positive while publish() sleeps has still to notify.
LEMMA DiscoveryNoLost ==
    ASSUME Droppers = {}, TypeOK, CountsAgree, NoLostMatchWakeup,
           NEW t \in Threads, DiscoveryStep(t)
    PROVE  NoLostMatchWakeup'
<1>1. t = Edp /\ Threads = {Edp}
    BY DEF Threads
<1>2. CASE MatchNotifies(t)
    BY <1>2 DEF MatchNotifies, NotifyOne, NoLostMatchWakeup
<1>3. CASE OnPublicationMatched(t) /\ UNCHANGED <<stop_, runVars, sig>>
    <2>1. /\ dpc[Edp] = "callback"
          /\ matched_' = matched_ + local[Edp].delta
          /\ local[Edp].info.change = local[Edp].delta
          /\ pc' = pc
        BY <1>1, <1>3 DEF OnPublicationMatched, CountsAgree, TypeOK, Locals, runVars
    <2>2. pc # "enqueue"
        BY <1>1, <1>3, <2>1 DEF OnPublicationMatched, TypeOK, HoldsMutex, Locals
    <2>3. CASE local[Edp].delta = 1
        <3>1. dpc'[Edp] = "notify"
            BY <1>1, <1>3, <2>1, <2>3 DEF OnPublicationMatched, Goto, TypeOK
        <3> QED BY <1>1, <2>1, <2>2, <3>1 DEF NoLostMatchWakeup
    <2>4. CASE local[Edp].delta = -1
        BY <1>1, <2>1, <2>2, <2>4 DEF NoLostMatchWakeup, TypeOK
    <2> QED BY <1>1, <2>3, <2>4 DEF TypeOK, Locals
<1>4. CASE ~MatchNotifies(t) /\ ~OnPublicationMatched(t)
    <2>1. dpc[Edp] # "notify" /\ matched_' = matched_ /\ pc' = pc
        BY <1>1, <1>4
        DEF DiscoveryStep, runVars, Unpair, LoadCount, LoadRegister, StoreCount, LoadChange,
            StoreChange, GetStatus, Goto
    <2> QED BY <1>1, <2>1 DEF NoLostMatchWakeup
<1> QED BY <1>2, <1>3, <1>4 DEF DiscoveryStep

\* No step loses the notification of a match.
LEMMA NextNoLost ==
    ASSUME Droppers = {}, TypeOK, CountsAgree, NoLostMatchWakeup, [Next]_vars
    PROVE  NoLostMatchWakeup'
<1>1. CASE RunStep BY <1>1, RunNoLost
<1>2. CASE \E t \in Threads : DiscoveryStep(t) BY <1>2, DiscoveryNoLost
<1>3. CASE DiscoveryEvent
    <2>1. PICK r \in Readers : EdpMatches(r) \/ EdpUnmatches(r)
        BY <1>3 DEF DiscoveryEvent
    <2>2. dpc[Edp] = "idle" /\ matched_' = matched_ /\ pc' = pc /\ Threads = {Edp}
        BY <1>3, <2>1 DEF EdpMatches, EdpUnmatches, Begin, DiscoveryEvent, runVars, Threads
    <2> QED BY <2>2 DEF NoLostMatchWakeup
<1>4. CASE PeriodElapses
    BY <1>4 DEF PeriodElapses, Steps, RunGoto, NoLostMatchWakeup
<1>5. CASE SpuriousWakeup \/ SignalArrives \/ StopNotifies \/ UNCHANGED vars
    <2>1. matched_' = matched_ /\ dpc' = dpc /\ (pc' = pc \/ NotifyOne)
        BY <1>5 DEF SpuriousWakeup, SignalArrives, StopNotifies, vars, discoveryVars, runVars
    <2> QED BY <2>1 DEF NotifyOne, NoLostMatchWakeup
<1> QED BY <1>1, <1>2, <1>3, <1>4, <1>5 DEF Next

\* Without participant removal no match is missed: publish() never sleeps on with
\* matched_ > 0 unless the match callback has its notify_one() still to come.
THEOREM NoLostMatchWakeupHolds == Droppers = {} /\ Spec => []NoLostMatchWakeup
<1> SUFFICES ASSUME Droppers = {} PROVE Spec => []NoLostMatchWakeup
    OBVIOUS
<1>1. Init => NoLostMatchWakeup
    BY DEF Init, NoLostMatchWakeup
<1>2. TypeOK /\ CountsAgree /\ NoLostMatchWakeup /\ [Next]_vars
        => CountsAgree' /\ NoLostMatchWakeup'
    BY NextCountsAgree, NextNoLost
<1> QED
    BY <1>1, <1>2, InitCountsAgree, TypeCorrect, PTL DEF Spec

\* Without participant removal matched_ tells, once the callbacks have returned, whether
\* a reader is matched: publish()'s wait is for what its comment says.
THEOREM MatchedTellsDiscoveryHolds == Droppers = {} /\ Spec => []MatchedTellsDiscovery
<1> SUFFICES ASSUME Droppers = {} PROVE Spec => []MatchedTellsDiscovery
    OBVIOUS
<1>1. TypeOK /\ CountsAgree /\ [Next]_vars => CountsAgree'
    BY NextCountsAgree
<1>2. CountsAgree => MatchedTellsDiscovery
    <2> SUFFICES ASSUME CountsAgree, Quiet PROVE matched_ > 0 <=> readers # {}
        BY DEF MatchedTellsDiscovery
    <2>1. IsFiniteSet(readers) /\ Cardinality(readers) = matched_
        BY DEF CountsAgree, Quiet, Threads
    <2>2. Cardinality(readers) \in Nat /\ (Cardinality(readers) = 0 <=> readers = {})
        BY <2>1, FS_CardinalityType, FS_EmptySet
    <2> QED BY <2>1, <2>2
<1> QED
    BY <1>1, <1>2, InitCountsAgree, TypeCorrect, PTL DEF Spec
=============================================================================
