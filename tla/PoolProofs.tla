----------------------------- MODULE PoolProofs -----------------------------
(* Machine-checked facts about the runner pool, for any number of workers,  *)
(* VMs, deliveries and slots.                                               *)
EXTENDS Pool, TLAPS

USE DEF vars, poolVars, stateVars, loopVars, reapVars, guestVars

\* The slot, thread and guest tables the code resets to are well typed.
LEMMA EmptyTyped ==
  /\ EmptySlot \in SlotType /\ Off \in ThreadType
  /\ At("start") \in ThreadType /\ At("wait") \in ThreadType
  /\ At("off") \in ThreadType /\ At("stalled") \in ThreadType
  /\ AllEmpty \in [Slots -> SlotType] /\ AllOff \in [Slots -> ThreadType]
  /\ NoGuest \in [Slots -> Deliveries \cup {None}]
  /\ \A n \in SlotCounts : Launched(n) \in [Slots -> ThreadType]
<1>1. EmptySlot \in SlotType
  BY DEF EmptySlot, SlotType
<1>2. /\ At("start") \in ThreadType /\ At("wait") \in ThreadType
      /\ At("off") \in ThreadType /\ At("stalled") \in ThreadType
  BY DEF At, ThreadType
<1> QED
  BY <1>1, <1>2 DEF Off, AllEmpty, AllOff, NoGuest, Launched

\* Cancelling a context changes the cause of a thread and nothing else.
LEMMA CancelTyped ==
  ASSUME NEW t \in ThreadType
  PROVE  Detach(t) \in ThreadType /\ Kill(t) \in ThreadType
  BY DEF Detach, Kill, Cancelled, ThreadType

\* Updating one field of a slot, or binding a job to it, leaves it well typed.
LEMMA SlotTyped ==
  ASSUME NEW r \in SlotType, NEW b \in BOOLEAN, NEW d \in Deliveries
  PROVE  /\ WithCancel(r, b) \in SlotType
         /\ Warned(r) \in SlotType
         /\ AdoptedSlot(d) \in SlotType
         /\ [job |-> d, adopted |-> FALSE, cancel |-> TRUE, warned |-> FALSE] \in SlotType
  BY DEF WithCancel, Warned, AdoptedSlot, SlotType

\* What CancelSlot writes is well typed.
LEMMA CancelSlotTyped ==
  ASSUME TypeOK, NEW w \in Workers, NEW s \in Slots, CancelSlot(w, s)
  PROVE  /\ recycle' \in [Workers -> BOOLEAN]
         /\ slot' \in [Workers -> [Slots -> SlotType]]
         /\ thread' \in [Workers -> [Slots -> ThreadType]]
         /\ fate' \in [Deliveries -> Fates]
<1> DEFINE new == IF slot[w][s].adopted /\ ~slot[w][s].cancel
                    THEN EmptySlot ELSE WithCancel(slot[w][s], FALSE)
           thr == IF slot[w][s].cancel THEN Kill(thread[w][s]) ELSE thread[w][s]
<1>1. new \in SlotType
  BY EmptyTyped DEF TypeOK, WithCancel, SlotType
<1>2. thr \in ThreadType
  BY CancelTyped DEF TypeOK
<1>3. slot' = [slot EXCEPT ![w] = [slot[w] EXCEPT ![s] = new]]
  BY DEF CancelSlot, TypeOK
<1>4. thread' = [thread EXCEPT ![w] = [thread[w] EXCEPT ![s] = thr]]
  BY DEF CancelSlot, TypeOK
<1>5. recycle' \in [Workers -> BOOLEAN]
  BY DEF CancelSlot, TypeOK
<1>6. fate' \in [Deliveries -> Fates]
  BY DEF CancelSlot, TypeOK, Fates
<1> HIDE DEF new, thr
<1> QED
  BY <1>1, <1>2, <1>3, <1>4, <1>5, <1>6 DEF TypeOK

\* Every step of the pool keeps its state well typed.
LEMMA TypeStep == ASSUME TypeOK, WorkerControl, [Next]_vars PROVE TypeOK'
<1> USE PoolAssumption DEF TypeOK
<1>1. CASE UNCHANGED vars
  BY <1>1
<1>2. ASSUME NEW d \in Deliveries, Enqueue(d) PROVE TypeOK'
  BY <1>2 DEF Enqueue, Fates
<1>3. ASSUME NEW d \in Deliveries, CancelRun(d) PROVE TypeOK'
  BY <1>3, CancelSlotTyped DEF CancelRun
<1>4. ASSUME NEW n \in Requests, Reconfigure(n) PROVE TypeOK'
  BY <1>4 DEF Reconfigure, Normalize
<1>5. CASE Start
  BY <1>5, EmptyTyped DEF Start, AdoptedSlot, EmptySlot, SlotType, Fates
<1>6. CASE Restart
  <2>1. fate' \in [Deliveries -> Fates]
    BY <1>6 DEF Restart, Fates
  <2>2. /\ jobsPerVM' \in SlotCounts
        /\ nslots' \in [Workers -> SlotCounts] /\ wcount' \in [Workers -> SlotCounts]
    BY <1>6 DEF Restart
  <2>3. queue' \in Seq(Deliveries) /\ restarts' \in Nat
    BY <1>6 DEF Restart
  <2> QED
    BY <1>6, <2>1, <2>2, <2>3, EmptyTyped DEF Restart
<1>7. CASE Shutdown
  BY <1>7, CancelTyped DEF Shutdown
<1>8. CASE ContextDone
  BY <1>8, CancelTyped DEF ContextDone
<1>9. CASE ContextWatcher
  BY <1>9 DEF ContextWatcher
<1>10. ASSUME NEW w \in Workers, WorkerLoop(w) PROVE TypeOK'
  <2>0. Launched(nslots[w]) \in [Slots -> ThreadType]
        /\ Launched(wcount[w]) \in [Slots -> ThreadType]
    BY EmptyTyped
  <2>1. CASE ClaimWorker(w)
    <3>1. wpc' \in [Workers -> {"claim", "warm", "request", "boot", "retry", "run",
                          "joinRecycle", "joinStop", "teardown", "delete",
                          "clear", "clearStop", "exited"}]
      BY <2>1, ZenonT(60) DEF ClaimWorker
    <3>2. wvm' \in [Workers -> VMs \cup {None}]
      BY <2>1 DEF ClaimWorker
    <3>3. thread' \in [Workers -> [Slots -> ThreadType]]
      <4>1. CASE thread' = [thread EXCEPT ![w] = Launched(nslots[w])]
        BY <4>1, <2>0
      <4>2. CASE thread' = thread
        BY <4>2
      <4> QED
        BY <2>1, <4>1, <4>2 DEF ClaimWorker
    <3> QED
      BY <2>1, <3>1, <3>2, <3>3 DEF ClaimWorker
  <2>2. CASE MarkWarming(w)  BY <2>2, EmptyTyped DEF MarkWarming
  <2>3. CASE WarmRequest(w)  BY <2>3 DEF WarmRequest
  <2>4. CASE ActivateWorker(w)  BY <2>0, <2>4, EmptyTyped DEF ActivateWorker
  <2>5. CASE MarkWarmError(w)  BY <2>5, EmptyTyped DEF MarkWarmError
  <2>6. CASE WarmRetry(w)  BY <2>6 DEF WarmRetry
  <2>7. CASE StopForShutdown(w)  BY <2>7, CancelTyped DEF StopForShutdown
  <2>8. CASE StopForRecycle(w)
    BY <2>8, EmptyTyped, CancelTyped DEF StopForRecycle, OutOfService
  <2>9. CASE SlotsJoined(w)  BY <2>9 DEF SlotsJoined, Leave
  <2>10. CASE TeardownDrain(w)  BY <2>10 DEF TeardownDrain, WorkerControl
  <2>11. CASE TeardownDelete(w)
    <3>1. /\ booted' \in SUBSET VMs /\ draining' \in SUBSET VMs
          /\ guest' \in [VMs -> [Slots -> Deliveries \cup {None}]]
      <4>1. CASE UNCHANGED guestVars
        BY <4>1
      <4>2. CASE /\ booted' = booted \ {wvm[w]}
                 /\ draining' = draining \ {wvm[w]}
                 /\ guest' = [guest EXCEPT ![wvm[w]] = NoGuest]
        BY <4>2, EmptyTyped
      <4> QED
        BY <2>11, <4>1, <4>2 DEF TeardownDelete
    <3> QED
      BY <2>11, <3>1 DEF TeardownDelete
  <2>12. CASE ClearWorker(w)  BY <2>12, EmptyTyped DEF ClearWorker
  <2> QED
    BY <1>10, <2>1, <2>2, <2>3, <2>4, <2>5, <2>6, <2>7, <2>8, <2>9, <2>10, <2>11, <2>12
       DEF WorkerLoop
<1>11. ASSUME NEW w \in Workers, NEW s \in Slots, SlotLoop(w, s) PROVE TypeOK'
  <2>1. CASE ClaimResumeSlot(w, s)
    <3>1. WithCancel(slot[w][s], TRUE) \in SlotType
      BY SlotTyped DEF SlotType, WithCancel
    <3>2. [pc |-> "resume", job |-> slot[w][s].job, cause |-> "none"] \in ThreadType
      BY DEF SlotType, ThreadType
    <3> QED
      <4>1. slot' \in [Workers -> [Slots -> SlotType]]
        <5>1. CASE slot' = slot
          BY <5>1
        <5>2. CASE slot' = [slot EXCEPT ![w][s] = WithCancel(slot[w][s], TRUE)]
          BY <5>2, <3>1
        <5> QED
          BY <2>1, <5>1, <5>2 DEF ClaimResumeSlot
      <4>2. thread' \in [Workers -> [Slots -> ThreadType]]
        <5>1. CASE thread' = [thread EXCEPT ![w][s] = At("wait")]
          BY <5>1, EmptyTyped
        <5>2. CASE thread' = [thread EXCEPT ![w][s] =
                        [pc |-> "resume", job |-> slot[w][s].job, cause |-> "none"]]
          BY <5>2, <3>2
        <5> QED
          BY <2>1, <5>1, <5>2 DEF ClaimResumeSlot
      <4> QED
        BY <2>1, <4>1, <4>2 DEF ClaimResumeSlot
  <2>2. CASE SlotExits(w, s)  BY <2>2, EmptyTyped DEF SlotExits
  <2>3. CASE BindJob(w, s)
    BY <2>3 DEF BindJob, Take, EmptySlot, SlotType, ThreadType, Fates
  <2>4. CASE DispatchAccepted(w, s)
    <3>1. [pc |-> "drain", job |-> thread[w][s].job, cause |-> thread[w][s].cause]
            \in ThreadType
      BY DEF ThreadType
    <3>2. thread[w][s].job \in Deliveries \cup {None}
      BY DEF ThreadType
    <3> QED
      BY <2>4, <3>1, <3>2 DEF DispatchAccepted
  <2>5. CASE DispatchFailed(w, s)
    BY <2>5, EmptyTyped DEF DispatchFailed, NotDispatched, ReturnTo, FinishedSlot, Off,
       ThreadType, Fates
  <2>6. CASE DispatchLost(w, s)
    <3>1. thread[w][s].job \in Deliveries \cup {None}
      BY DEF ThreadType
    <3>2. guest' \in [VMs -> [Slots -> Deliveries \cup {None}]]
      BY <2>6, <3>1 DEF DispatchLost
    <3>3. fate' \in [Deliveries -> Fates]
      BY <2>6 DEF DispatchLost, ReturnTo, Fates
    <3> QED
      BY <2>6, <3>2, <3>3, EmptyTyped DEF DispatchLost, ReturnTo, FinishedSlot
  <2>7. CASE DrainTerminal(w, s)
    BY <2>7, EmptyTyped DEF DrainTerminal, ReturnTo, FinishedSlot, Off, ThreadType, Fates
  <2>8. CASE DrainDetached(w, s)
    BY <2>8, EmptyTyped DEF DrainDetached, ReturnTo, FinishedSlot, Off, ThreadType, Fates
  <2>9. CASE DrainKilled(w, s)
    <3>1. guest' \in [VMs -> [Slots -> Deliveries \cup {None}]]
      <4>1. CASE guest' = guest
        BY <4>1
      <4>2. CASE guest' = [guest EXCEPT ![wvm[w]][s] = None]
        BY <4>2
      <4> QED
        BY <2>9, <4>1, <4>2 DEF DrainKilled
    <3>2. fate' \in [Deliveries -> Fates]
      BY <2>9 DEF DrainKilled, Fates
    <3> QED
      <4>1. slot' \in [Workers -> [Slots -> SlotType]] /\ recycle' \in [Workers -> BOOLEAN]
        <5>1. FinishedSlot(w, s) \in [Workers -> [Slots -> SlotType]]
          BY EmptyTyped DEF FinishedSlot
        <5>2. CASE slot' = FinishedSlot(w, s) /\ recycle' = recycle
          BY <5>1, <5>2
        <5>3. CASE RecycledFreeing(w, s)
          BY <5>1, <5>3 DEF RecycledFreeing
        <5> QED
          BY <2>9, <5>2, <5>3 DEF DrainKilled
      <4>2. thread' \in [Workers -> [Slots -> ThreadType]]
        <5>1. CASE thread' = [thread EXCEPT ![w][s] = At("wait")]
          BY <5>1, EmptyTyped
        <5>2. CASE thread' = [thread EXCEPT ![w][s] = Off]
          BY <5>2, EmptyTyped
        <5> QED
          BY <2>9, <5>1, <5>2 DEF DrainKilled
      <4> QED
        BY <2>9, <3>1, <3>2, <4>1, <4>2 DEF DrainKilled
  <2>10. CASE DrainStalled(w, s)
    BY <2>10, EmptyTyped DEF DrainStalled, ReturnTo, FinishedSlot, Off, ThreadType, Fates
  <2>11. CASE RecycleStalled(w, s)
    BY <2>11, EmptyTyped DEF RecycleStalled, RecycledFreeing, FinishedSlot
  <2>12. CASE ResumeFailed(w, s)
    BY <2>12, EmptyTyped DEF ResumeFailed, RecycledFreeing, FinishedSlot, Fates
  <2> QED
    BY <1>11, <2>1, <2>2, <2>3, <2>4, <2>5, <2>6, <2>7, <2>8, <2>9, <2>10, <2>11, <2>12
       DEF SlotLoop
<1>12. CASE Reconcile
  <2>1. CASE ReconcileBegins
    BY <2>1 DEF ReconcileBegins, BusyCandidates, BusyType, SlotType
  <2>2. ASSUME NEW c \in cands, PastMaxBind(c) PROVE TypeOK'
    BY <2>2 DEF PastMaxBind, Condemn
  <2>3. ASSUME NEW v \in VMs, PastPickupTimeout(v) PROVE TypeOK'
    BY <2>3 DEF PastPickupTimeout
  <2>4. ASSUME NEW c \in doomed, ClaimSlotReapWarning(c) PROVE TypeOK'
    <3>1. c \in BusyType /\ c.w \in Workers /\ c.s \in Slots
      BY DEF BusyType
    <3>2. Warned(slot[c.w][c.s]) \in SlotType
      BY <3>1 DEF SlotType, Warned
    <3> QED
      <4>1. slot' \in [Workers -> [Slots -> SlotType]]
        <5>1. CASE slot' = slot
          BY <5>1
        <5>2. CASE slot' = [slot EXCEPT ![c.w][c.s] = Warned(slot[c.w][c.s])]
          BY <5>2, <3>1, <3>2
        <5> QED
          BY <2>4, <5>1, <5>2 DEF ClaimSlotReapWarning
      <4>2. claimed' \in BusyType \cup {None} /\ doomed' \in SUBSET BusyType
        BY <2>4, <3>1 DEF ClaimSlotReapWarning
      <4> QED
        BY <2>4, <4>1, <4>2 DEF ClaimSlotReapWarning
  <2>5. CASE RequestBusyRecycle
    <3>1. claimed \in BusyType /\ claimed.w \in Workers /\ claimed.s \in Slots
      BY <2>5 DEF RequestBusyRecycle, BusyType
    <3> QED
      BY <2>5, <3>1, CancelSlotTyped DEF RequestBusyRecycle
  <2>6. CASE ReapEnds
    BY <2>6 DEF ReapEnds, IdleCandidates, IdleType
  <2>7. ASSUME NEW c \in idle, ReconcileIdle(c) PROVE TypeOK'
    BY <2>7 DEF ReconcileIdle
  <2>8. CASE ReconcileEnds
    BY <2>8 DEF ReconcileEnds
  <2> QED
    BY <1>12, <2>1, <2>2, <2>3, <2>4, <2>5, <2>6, <2>7, <2>8 DEF Reconcile
<1>13. ASSUME NEW v \in VMs, NEW s \in Slots, GuestExit(v, s) PROVE TypeOK'
  BY <1>13 DEF GuestExit
<1> QED
  BY <1>1, <1>2, <1>3, <1>4, <1>5, <1>6, <1>7, <1>8, <1>9, <1>10, <1>11, <1>12, <1>13
     DEF Next

\* The initial state is well typed.
LEMMA TypeInit == Init => TypeOK
<1> SUFFICES ASSUME Init PROVE TypeOK
  OBVIOUS
<1>1. nslots \in [Workers -> SlotCounts] /\ wcount \in [Workers -> SlotCounts]
  BY DEF Init
<1>2. queue \in Seq(Deliveries) /\ fate \in [Deliveries -> Fates] /\ restarts \in Nat
  BY DEF Init, Fates
<1>3. /\ cands \in SUBSET BusyType /\ doomed \in SUBSET BusyType
      /\ claimed \in BusyType \cup {None} /\ idle \in SUBSET IdleType
  BY DEF Init
<1> QED
  BY <1>1, <1>2, <1>3, EmptyTyped DEF Init, TypeOK

-----------------------------------------------------------------------------
\* Cancelling a context moves no goroutine.
LEMMA CancelKeepsPc ==
  ASSUME NEW t \in ThreadType
  PROVE  Detach(t).pc = t.pc /\ Kill(t).pc = t.pc
  BY DEF Detach, Kill, Cancelled, ThreadType

\* A step that leaves the workers' control, their VMs and the host alone and
\* starts no slot goroutine keeps the ownership of VMs.
LEMMA ControlFrame ==
  ASSUME WorkerControl,
         UNCHANGED <<started, vm, warming, wvm, wpc, booted>>,
         \A w \in Workers, s \in Slots : thread'[w][s].pc # "off" => thread[w][s].pc # "off"
  PROVE  WorkerControl'
  BY DEF WorkerControl

\* A slot goroutine moves only itself, and only while it runs.
LEMMA SlotLoopFrame ==
  ASSUME TypeOK, NEW w \in Workers, NEW s \in Slots, SlotLoop(w, s)
  PROVE  /\ UNCHANGED <<started, vm, warming, wvm, wpc, booted>>
         /\ thread[w][s].pc # "off"
         /\ \E t : thread' = [thread EXCEPT ![w][s] = t]
<1>1. CASE ClaimResumeSlot(w, s)  BY <1>1 DEF ClaimResumeSlot
<1>2. CASE SlotExits(w, s)  BY <1>2 DEF SlotExits
<1>3. CASE BindJob(w, s)  BY <1>3 DEF BindJob, Take
<1>4. CASE DispatchAccepted(w, s)  BY <1>4 DEF DispatchAccepted
<1>5. CASE DispatchFailed(w, s)  BY <1>5 DEF DispatchFailed, NotDispatched, ReturnTo
<1>6. CASE DispatchLost(w, s)  BY <1>6 DEF DispatchLost, ReturnTo
<1>7. CASE DrainTerminal(w, s)  BY <1>7 DEF DrainTerminal, Draining, ReturnTo
<1>8. CASE DrainDetached(w, s)  BY <1>8 DEF DrainDetached, Draining, ReturnTo
<1>9. CASE DrainKilled(w, s)  BY <1>9 DEF DrainKilled, Draining
<1>10. CASE DrainStalled(w, s)  BY <1>10 DEF DrainStalled, ReturnTo
<1>11. CASE RecycleStalled(w, s)  BY <1>11 DEF RecycleStalled
<1>12. CASE ResumeFailed(w, s)  BY <1>12 DEF ResumeFailed
<1> QED
  BY <1>1, <1>2, <1>3, <1>4, <1>5, <1>6, <1>7, <1>8, <1>9, <1>10, <1>11, <1>12 DEF SlotLoop

\* CancelSlot starts and stops no goroutine.
LEMMA CancelSlotFrame ==
  ASSUME TypeOK, NEW w \in Workers, NEW s \in Slots, CancelSlot(w, s)
  PROVE  \A x \in Workers, r \in Slots : thread'[x][r].pc = thread[x][r].pc
<1> DEFINE thr == IF slot[w][s].cancel THEN Kill(thread[w][s]) ELSE thread[w][s]
<1>1. thread' = [thread EXCEPT ![w] = [thread[w] EXCEPT ![s] = thr]]
  BY DEF CancelSlot, TypeOK
<1>2. thr.pc = thread[w][s].pc
  BY CancelKeepsPc DEF TypeOK
<1> HIDE DEF thr
<1> QED
  BY <1>1, <1>2 DEF TypeOK

\* The reconciler leaves control, VMs and goroutines alone.
LEMMA ReconcileFrame ==
  ASSUME TypeOK, Reconcile
  PROVE  /\ UNCHANGED <<started, vm, warming, wvm, wpc, booted>>
         /\ \A x \in Workers, r \in Slots : thread'[x][r].pc = thread[x][r].pc
<1>1. CASE ReconcileBegins  BY <1>1 DEF ReconcileBegins
<1>2. ASSUME NEW c \in cands, PastMaxBind(c)
      PROVE UNCHANGED <<started, vm, warming, wvm, wpc, booted, thread>>
  BY <1>2 DEF PastMaxBind, Condemn
<1>3. ASSUME NEW v \in VMs, PastPickupTimeout(v)
      PROVE UNCHANGED <<started, vm, warming, wvm, wpc, booted, thread>>
  BY <1>3 DEF PastPickupTimeout
<1>4. ASSUME NEW c \in doomed, ClaimSlotReapWarning(c)
      PROVE UNCHANGED <<started, vm, warming, wvm, wpc, booted, thread>>
  BY <1>4 DEF ClaimSlotReapWarning
<1>5. CASE RequestBusyRecycle
  <2>1. claimed \in BusyType /\ claimed.w \in Workers /\ claimed.s \in Slots
    BY <1>5 DEF RequestBusyRecycle, BusyType, TypeOK
  <2> QED
    BY <1>5, <2>1, CancelSlotFrame DEF RequestBusyRecycle
<1>6. CASE ReapEnds  BY <1>6 DEF ReapEnds
<1>7. ASSUME NEW c \in idle, ReconcileIdle(c)
      PROVE UNCHANGED <<started, vm, warming, wvm, wpc, booted, thread>>
  BY <1>7 DEF ReconcileIdle
<1>8. CASE ReconcileEnds  BY <1>8 DEF ReconcileEnds
<1> QED
  BY <1>1, <1>2, <1>3, <1>4, <1>5, <1>6, <1>7, <1>8 DEF Reconcile

\* Every step keeps the ownership of VMs consistent with workerLoop's control.
LEMMA ControlStep == ASSUME TypeOK, WorkerControl, [Next]_vars PROVE WorkerControl'
<1>1. CASE UNCHANGED vars
  BY <1>1, ControlFrame
<1>2. ASSUME NEW d \in Deliveries, Enqueue(d) PROVE WorkerControl'
  BY <1>2, ControlFrame DEF Enqueue
<1>3. ASSUME NEW d \in Deliveries, CancelRun(d) PROVE WorkerControl'
  BY <1>3, ControlFrame, CancelSlotFrame DEF CancelRun
<1>4. ASSUME NEW n \in Requests, Reconfigure(n) PROVE WorkerControl'
  BY <1>4, ControlFrame DEF Reconfigure
<1>5. CASE Start
  <2>1. /\ started' = TRUE /\ wpc' = [w \in Workers |-> "claim"]
        /\ UNCHANGED <<warming, wvm, thread>>
        /\ \A w \in Workers : wpc[w] = "exited"
    BY <1>5 DEF Start, WorkerControl
  <2>2. /\ \A w \in Workers : vm'[w] # None => vm'[w] \in booted'
        /\ \A w, x \in Workers : w # x /\ vm'[w] # None => vm'[w] # vm'[x]
    BY <1>5 DEF Start, TypeOK
  <2> QED
    BY <2>1, <2>2 DEF WorkerControl
<1>6. CASE Restart
  BY <1>6 DEF Restart, WorkerControl, AllOff, Off, At
<1>7. CASE Shutdown
  BY <1>7, ControlFrame, CancelKeepsPc DEF Shutdown, TypeOK
<1>8. CASE ContextDone
  BY <1>8, ControlFrame, CancelKeepsPc DEF ContextDone, TypeOK
<1>9. CASE ContextWatcher
  BY <1>9, ControlFrame DEF ContextWatcher
<1>10. ASSUME NEW w \in Workers, WorkerLoop(w) PROVE WorkerControl'
  <2> USE DEF TypeOK, WorkerControl
  <2>1. CASE ClaimWorker(w)
    <3>1. CASE vm[w] # None /\ ~warming[w]
      <4>1. /\ wpc[w] = "claim"
            /\ wpc' = [wpc EXCEPT ![w] = "run"]
            /\ wvm' = [wvm EXCEPT ![w] = vm[w]]
            /\ UNCHANGED <<started, vm, warming, booted>>
            /\ \A x \in Workers : x # w => thread'[x] = thread[x]
        BY <2>1, <3>1 DEF ClaimWorker
      <4>2. wvm'[w] \in booted' /\ vm'[w] = wvm'[w]
        BY <3>1, <4>1
      <4> QED
        BY <3>1, <4>1, <4>2
    <3>2. CASE vm[w] = None
      BY <2>1, <3>2 DEF ClaimWorker
    <3>3. CASE vm[w] # None /\ warming[w]
      BY <2>1, <3>3 DEF ClaimWorker
    <3> QED
      BY <3>1, <3>2, <3>3
  <2>2. CASE MarkWarming(w)  BY <2>2 DEF MarkWarming
  <2>3. CASE WarmRequest(w)  BY <2>3 DEF WarmRequest
  <2>4. CASE ActivateWorker(w)  BY <2>4 DEF ActivateWorker, Remembered
  <2>5. CASE MarkWarmError(w)  BY <2>5 DEF MarkWarmError
  <2>6. CASE WarmRetry(w)  BY <2>6 DEF WarmRetry
  <2>7. CASE StopForShutdown(w)  BY <2>7, CancelKeepsPc DEF StopForShutdown
  <2>8. CASE StopForRecycle(w)
    BY <2>8, CancelKeepsPc DEF StopForRecycle, OutOfService
  <2>9. CASE SlotsJoined(w)  BY <2>9 DEF SlotsJoined, Leave
  <2>10. CASE TeardownDrain(w)  BY <2>10 DEF TeardownDrain
  <2>11. CASE TeardownDelete(w)
    <3>1. CASE booted' = booted
      BY <2>11, <3>1 DEF TeardownDelete
    <3>2. CASE booted' = booted \ {wvm[w]}
      BY <2>11, <3>2, PoolAssumption DEF TeardownDelete
    <3> QED
      BY <2>11, <3>1, <3>2 DEF TeardownDelete
  <2>12. CASE ClearWorker(w)  BY <2>12 DEF ClearWorker
  <2> QED
    BY <1>10, <2>1, <2>2, <2>3, <2>4, <2>5, <2>6, <2>7, <2>8, <2>9, <2>10, <2>11, <2>12
       DEF WorkerLoop
<1>11. ASSUME NEW w \in Workers, NEW s \in Slots, SlotLoop(w, s) PROVE WorkerControl'
  <2>1. PICK t : thread' = [thread EXCEPT ![w][s] = t]
    BY <1>11, SlotLoopFrame
  <2>2. \A x \in Workers, r \in Slots : thread'[x][r].pc # "off" => thread[x][r].pc # "off"
    BY <1>11, <2>1, SlotLoopFrame DEF TypeOK
  <2> QED
    BY <1>11, <2>2, SlotLoopFrame, ControlFrame
<1>12. CASE Reconcile
  BY <1>12, ReconcileFrame, ControlFrame
<1>13. ASSUME NEW v \in VMs, NEW s \in Slots, GuestExit(v, s) PROVE WorkerControl'
  BY <1>13, ControlFrame DEF GuestExit
<1> QED
  BY <1>1, <1>2, <1>3, <1>4, <1>5, <1>6, <1>7, <1>8, <1>9, <1>10, <1>11, <1>12, <1>13
     DEF Next

\* Types and VM ownership hold in every reachable state.
LEMMA ControlInvariant == Spec => [](TypeOK /\ WorkerControl)
<1>1. Init => WorkerControl
  BY DEF Init, WorkerControl, AllOff, Off, At
<1> QED
  BY <1>1, TypeInit, TypeStep, ControlStep, PTL DEF Spec

\* The pool's, the goroutines' and the guests' state is always well typed.
THEOREM TypeCorrect == Spec => []TypeOK
  BY ControlInvariant, PTL

\* Workers and slot goroutines agree on who owns which VM, for any number of
\* workers and slots: no two workers ever hold one VM, and a slot goroutine
\* never outlives its worker's hold on the VM it serves.
THEOREM OwnershipHolds == Spec => []VMOwnership
<1>1. TypeOK /\ WorkerControl => VMOwnership
  BY DEF TypeOK, WorkerControl, VMOwnership
<1> QED
  BY <1>1, ControlInvariant, PTL

-----------------------------------------------------------------------------
\* What cancelling a context does to a goroutine, and what it leaves alone.
LEMMA CancelFacts ==
  ASSUME NEW t \in ThreadType, NEW cause \in {"plain", "kill"}
  PROVE  /\ InJob(Cancelled(t, cause)) <=> InJob(t)
         /\ Cancelled(t, cause).job = t.job
         /\ IF InJob(t) /\ t.cause = "none"
              THEN Cancelled(t, cause).cause = cause
              ELSE Cancelled(t, cause) = t
         /\ InJob(t) => Cancelled(t, cause).cause # "none"
  BY DEF Cancelled, InJob, ThreadType

\* The goroutines that are not inside a job say nothing about contexts.
LEMMA NotInJob ==
  /\ \A pc \in {"off", "start", "wait", "stalled"} : ~InJob(At(pc)) /\ At(pc).cause = "none"
  /\ ~InJob(Off) /\ Off.cause = "none"
  /\ \A n, s : s \in Slots =>
       ~InJob(Launched(n)[s]) /\ Launched(n)[s].cause = "none"
  BY DEF InJob, At, Off, Launched

\* CancelSlot cancels with the custom cause whatever context it can still reach.
LEMMA CancelSlotContexts ==
  ASSUME TypeOK, JobContexts, NEW w \in Workers, NEW s \in Slots, CancelSlot(w, s),
         UNCHANGED <<shuttingDown, ctxDone, wpc>>
  PROVE  JobContexts'
<1> DEFINE old == thread[w][s]
           new == IF slot[w][s].adopted /\ ~slot[w][s].cancel
                    THEN EmptySlot ELSE WithCancel(slot[w][s], FALSE)
           thr == IF slot[w][s].cancel THEN Cancelled(old, "kill") ELSE old
<1>1. slot' = [slot EXCEPT ![w] = [slot[w] EXCEPT ![s] = new]]
  BY DEF CancelSlot, TypeOK
<1>2. thread' = [thread EXCEPT ![w] = [thread[w] EXCEPT ![s] = thr]]
  BY DEF CancelSlot, TypeOK, Kill
<1>3. old \in ThreadType
  BY DEF TypeOK
<1>4. /\ InJob(thr) => thr.job \in Deliveries
      /\ InJob(thr) => thr.cause # "none"
      /\ thr.cause = "plain" => ctxDone
  BY <1>3, CancelFacts DEF JobContexts
<1> HIDE DEF old, new, thr
<1> QED
  BY <1>1, <1>2, <1>4 DEF JobContexts, TypeOK

\* A slot goroutine that leaves its job, or stays put, keeps the contexts of the
\* other goroutines what they are.
LEMMA SlotContexts ==
  ASSUME TypeOK, WorkerControl, JobContexts,
         NEW w \in Workers, NEW s \in Slots, SlotLoop(w, s)
  PROVE  JobContexts'
<1>1. UNCHANGED <<shuttingDown, ctxDone, wpc>>
  BY DEF SlotLoop, ClaimResumeSlot, SlotExits, BindJob, Take, DispatchAccepted,
         DispatchFailed, NotDispatched, DispatchLost, DrainTerminal, DrainDetached,
         DrainKilled, DrainStalled, RecycleStalled, ResumeFailed
<1>2. \A x \in Workers, r \in Slots : <<x, r>> # <<w, s>> =>
        FinishedSlot(w, s)[x][r] = slot[x][r]
  BY DEF FinishedSlot, TypeOK
<1>3. ASSUME NEW t, thread' = [thread EXCEPT ![w][s] = t], ~InJob(t), t.cause = "none",
             \A x \in Workers, r \in Slots : <<x, r>> # <<w, s>> => slot'[x][r] = slot[x][r]
      PROVE JobContexts'
  BY <1>1, <1>3 DEF JobContexts, TypeOK
<1>4. CASE ClaimResumeSlot(w, s)
  <2>1. CASE Resumable(w, s)
    <3>1. wpc[w] = "run"
      BY <1>4, <2>1 DEF ClaimResumeSlot, Resumable, SlotCtxDone, WorkerControl
    <3>2. slot' = [slot EXCEPT ![w][s] = WithCancel(slot[w][s], TRUE)]
      BY <1>4, <2>1 DEF ClaimResumeSlot
    <3>3. thread' = [thread EXCEPT ![w][s] =
                      [pc |-> "resume", job |-> slot[w][s].job, cause |-> "none"]]
      BY <1>4, <2>1 DEF ClaimResumeSlot
    <3>4. slot[w][s].job \in Deliveries
      BY <2>1 DEF Resumable, TypeOK, SlotType
    <3>5. slot'[w][s].job = slot[w][s].job /\ slot'[w][s].cancel
      BY <3>2 DEF WithCancel, TypeOK
    <3> QED
      BY <1>1, <3>1, <3>2, <3>3, <3>4, <3>5, ZenonT(60) DEF JobContexts, TypeOK
  <2>2. CASE ~Resumable(w, s)
    BY <1>3, <1>4, <2>2, NotInJob DEF ClaimResumeSlot
  <2> QED
    BY <2>1, <2>2
<1>5. CASE BindJob(w, s)
  <2>1. wpc[w] = "run"
    BY <1>5 DEF BindJob, Take, MustStop, SlotCtxDone, WorkerControl
  <2>2. Head(queue) \in Deliveries
    BY <1>5 DEF BindJob, TypeOK
  <2> QED
    BY <1>1, <1>5, <2>1, <2>2 DEF BindJob, Take, JobContexts, TypeOK
<1>6. CASE DispatchAccepted(w, s)
  <2>1. thread' = [thread EXCEPT ![w][s] =
                    [pc |-> "drain", job |-> thread[w][s].job, cause |-> thread[w][s].cause]]
    BY <1>6 DEF DispatchAccepted, TypeOK
  <2>2. slot' = slot /\ InJob(thread[w][s])
    BY <1>6 DEF DispatchAccepted, InJob
  <2> QED
    BY <1>1, <2>1, <2>2 DEF JobContexts, TypeOK
<1>7. CASE SlotExits(w, s)  BY <1>3, <1>7, NotInJob DEF SlotExits
<1>8. CASE DispatchFailed(w, s)
  BY <1>2, <1>3, <1>8, NotInJob DEF DispatchFailed, NotDispatched, ReturnTo
<1>9. CASE DispatchLost(w, s)  BY <1>2, <1>3, <1>9, NotInJob DEF DispatchLost, ReturnTo
<1>10. CASE DrainTerminal(w, s)  BY <1>2, <1>3, <1>10, NotInJob DEF DrainTerminal, ReturnTo
<1>11. CASE DrainDetached(w, s)  BY <1>2, <1>3, <1>11, NotInJob DEF DrainDetached, ReturnTo
<1>12. CASE DrainStalled(w, s)  BY <1>2, <1>3, <1>12, NotInJob DEF DrainStalled, ReturnTo
<1>13. CASE DrainKilled(w, s)
  BY <1>2, <1>3, <1>13, NotInJob DEF DrainKilled, RecycledFreeing
<1>14. CASE RecycleStalled(w, s)
  BY <1>2, <1>3, <1>14, NotInJob DEF RecycleStalled, RecycledFreeing
<1>15. CASE ResumeFailed(w, s)
  BY <1>2, <1>3, <1>15, NotInJob DEF ResumeFailed, RecycledFreeing
<1> QED
  BY <1>4, <1>5, <1>6, <1>7, <1>8, <1>9, <1>10, <1>11, <1>12, <1>13, <1>14, <1>15
     DEF SlotLoop

\* workerLoop resets slots only where no goroutine is inside a job, and takes a
\* VM out of service only when no context without a cause is left on it.
LEMMA WorkerContexts ==
  ASSUME TypeOK, WorkerControl, JobContexts, NEW w \in Workers, WorkerLoop(w)
  PROVE  JobContexts'
<1>1. ASSUME wpc[w] \notin {"run", "joinRecycle", "joinStop"}, NEW s \in Slots
      PROVE  ~InJob(thread[w][s])
  BY <1>1 DEF WorkerControl, InJob
<1>2. ASSUME UNCHANGED <<shuttingDown, ctxDone>>,
             \A x \in Workers \ {w} :
                wpc'[x] = wpc[x] /\ slot'[x] = slot[x] /\ thread'[x] = thread[x],
             \A s \in Slots :
                /\ InJob(thread'[w][s]) => /\ thread'[w][s].job \in Deliveries
                                           /\ thread'[w][s].cause # "none"
                /\ thread'[w][s].cause = "plain" => ctxDone
      PROVE  JobContexts'
  BY <1>2 DEF JobContexts
<1>3. ASSUME \E p : wpc' = [wpc EXCEPT ![w] = p], UNCHANGED <<shuttingDown, ctxDone, thread>>,
             \A x \in Workers \ {w} : slot'[x] = slot[x],
             wpc[w] \notin {"run", "joinRecycle", "joinStop"}
      PROVE  JobContexts'
  BY <1>1, <1>2, <1>3 DEF JobContexts, TypeOK
<1>4. CASE ClaimWorker(w)
  <2>1. CASE thread' = thread
    BY <1>3, <1>4, <2>1 DEF ClaimWorker
  <2>2. CASE thread' = [thread EXCEPT ![w] = Launched(nslots[w])]
    BY <1>2, <1>4, <2>2, NotInJob DEF ClaimWorker, TypeOK
  <2> QED
    BY <1>4, <2>1, <2>2 DEF ClaimWorker
<1>5. CASE MarkWarming(w)  BY <1>3, <1>5 DEF MarkWarming, TypeOK
<1>6. CASE WarmRequest(w)  BY <1>3, <1>6 DEF WarmRequest
<1>7. CASE ActivateWorker(w)
  BY <1>2, <1>7, NotInJob DEF ActivateWorker, TypeOK
<1>8. CASE MarkWarmError(w)  BY <1>3, <1>8 DEF MarkWarmError, TypeOK
<1>9. CASE WarmRetry(w)  BY <1>3, <1>9 DEF WarmRetry
<1>10. CASE StopForShutdown(w)
  <2>1. ctxDone
    BY <1>10 DEF StopForShutdown, JobContexts
  <2>2. \A s \in Slots : thread'[w][s] = Cancelled(thread[w][s], "plain")
    BY <1>10 DEF StopForShutdown, Detach, TypeOK
  <2>3. \A s \in Slots : thread[w][s] \in ThreadType
    BY DEF TypeOK
  <2>4. \A s \in Slots :
          /\ InJob(thread'[w][s]) => thread'[w][s].job \in Deliveries
          /\ InJob(thread'[w][s]) => thread'[w][s].cause # "none"
    BY <2>2, <2>3, CancelFacts DEF JobContexts
  <2>5. \A x \in Workers \ {w} :
          wpc'[x] = wpc[x] /\ slot'[x] = slot[x] /\ thread'[x] = thread[x]
    BY <1>10 DEF StopForShutdown, TypeOK
  <2>6. UNCHANGED <<shuttingDown, ctxDone>>
    BY <1>10 DEF StopForShutdown
  <2> QED
    BY <1>2, <2>1, <2>4, <2>5, <2>6
<1>11. CASE StopForRecycle(w)
  <2>1. \A s \in Slots : ~(InJob(thread[w][s]) /\ thread[w][s].cause = "none")
    BY <1>11, PoolAssumption DEF StopForRecycle, OutOfService, WorkerBusy, JobContexts
  <2>2. \A s \in Slots : thread'[w][s] = Cancelled(thread[w][s], "plain")
    BY <1>11 DEF StopForRecycle, OutOfService, Detach, TypeOK
  <2>3. \A s \in Slots : thread'[w][s] = thread[w][s]
    BY <2>1, <2>2 DEF Cancelled
  <2>4. \A x \in Workers \ {w} :
          wpc'[x] = wpc[x] /\ slot'[x] = slot[x] /\ thread'[x] = thread[x]
    BY <1>11 DEF StopForRecycle, OutOfService, TypeOK
  <2>5. UNCHANGED <<shuttingDown, ctxDone>>
    BY <1>11 DEF StopForRecycle, OutOfService
  <2> QED
    BY <1>2, <2>1, <2>3, <2>4, <2>5 DEF JobContexts
<1>12. CASE SlotsJoined(w)
  <2>1. \A s \in Slots : ~InJob(thread[w][s])
    BY <1>12 DEF SlotsJoined, InJob
  <2> QED
    BY <1>2, <1>12, <2>1 DEF SlotsJoined, Leave, JobContexts, TypeOK
<1>13. CASE TeardownDrain(w)  BY <1>3, <1>13 DEF TeardownDrain
<1>14. CASE TeardownDelete(w)  BY <1>3, <1>14 DEF TeardownDelete
<1>15. CASE ClearWorker(w)  BY <1>3, <1>15 DEF ClearWorker, TypeOK
<1> QED
  BY <1>4, <1>5, <1>6, <1>7, <1>8, <1>9, <1>10, <1>11, <1>12, <1>13, <1>14, <1>15
     DEF WorkerLoop

\* When the pool's context ends, every job context has a cause.
LEMMA DetachContexts ==
  ASSUME TypeOK, JobContexts, ctxDone', UNCHANGED <<wpc, slot>>,
         thread' = [w \in Workers |-> [s \in Slots |-> Detach(thread[w][s])]]
  PROVE  JobContexts'
<1>1. ASSUME NEW w \in Workers, NEW s \in Slots
      PROVE  /\ InJob(thread'[w][s]) => thread'[w][s].job \in Deliveries
             /\ InJob(thread'[w][s]) => thread'[w][s].cause # "none"
  <2>1. thread'[w][s] = Cancelled(thread[w][s], "plain") /\ thread[w][s] \in ThreadType
    BY DEF Detach, TypeOK
  <2> QED
    BY <2>1, CancelFacts DEF JobContexts
<1> QED
  BY <1>1 DEF JobContexts

\* Every step keeps the contexts of the running jobs what JobContexts says.
LEMMA ContextsStep ==
  ASSUME TypeOK, WorkerControl, JobContexts, [Next]_vars PROVE JobContexts'
<1>1. ASSUME UNCHANGED <<shuttingDown, ctxDone, wpc, slot, thread>> PROVE JobContexts'
  BY <1>1 DEF JobContexts
<1>2. CASE UNCHANGED vars
  BY <1>1, <1>2
<1>3. ASSUME NEW d \in Deliveries, Enqueue(d) PROVE JobContexts'
  BY <1>1, <1>3 DEF Enqueue
<1>4. ASSUME NEW d \in Deliveries, CancelRun(d) PROVE JobContexts'
  BY <1>4, CancelSlotContexts DEF CancelRun
<1>5. ASSUME NEW n \in Requests, Reconfigure(n) PROVE JobContexts'
  BY <1>1, <1>5 DEF Reconfigure
<1>6. CASE Start
  <2>1. \A w \in Workers, s \in Slots : ~InJob(thread[w][s])
    BY <1>6 DEF Start, WorkerControl, InJob
  <2> QED
    BY <1>6, <2>1 DEF Start, JobContexts
<1>7. CASE Restart
  BY <1>7, NotInJob DEF Restart, JobContexts, AllOff
<1>8. CASE Shutdown
  BY <1>8, DetachContexts DEF Shutdown
<1>9. CASE ContextDone
  BY <1>9, DetachContexts DEF ContextDone
<1>10. CASE ContextWatcher
  BY <1>10 DEF ContextWatcher, JobContexts
<1>11. ASSUME NEW w \in Workers, WorkerLoop(w) PROVE JobContexts'
  BY <1>11, WorkerContexts
<1>12. ASSUME NEW w \in Workers, NEW s \in Slots, SlotLoop(w, s) PROVE JobContexts'
  BY <1>12, SlotContexts
<1>13. CASE Reconcile
  <2>1. CASE ReconcileBegins  BY <1>1, <2>1 DEF ReconcileBegins
  <2>2. ASSUME NEW c \in cands, PastMaxBind(c) PROVE JobContexts'
    BY <1>1, <2>2 DEF PastMaxBind, Condemn
  <2>3. ASSUME NEW v \in VMs, PastPickupTimeout(v) PROVE JobContexts'
    BY <1>1, <2>3 DEF PastPickupTimeout
  <2>4. ASSUME NEW c \in doomed, ClaimSlotReapWarning(c) PROVE JobContexts'
    <3>1. CASE slot' = slot
      BY <1>1, <2>4, <3>1 DEF ClaimSlotReapWarning
    <3>2. CASE slot' = [slot EXCEPT ![c.w][c.s] = Warned(slot[c.w][c.s])]
      <4>1. \A w \in Workers, s \in Slots :
              slot'[w][s].job = slot[w][s].job /\ slot'[w][s].cancel = slot[w][s].cancel
        BY <3>2 DEF TypeOK, Warned
      <4> QED
        BY <2>4, <4>1 DEF ClaimSlotReapWarning, JobContexts
    <3> QED
      BY <2>4, <3>1, <3>2 DEF ClaimSlotReapWarning
  <2>5. CASE RequestBusyRecycle
    <3>1. claimed.w \in Workers /\ claimed.s \in Slots
      BY <2>5 DEF RequestBusyRecycle, BusyType, TypeOK
    <3>2. CASE CancelSlot(claimed.w, claimed.s)
      BY <2>5, <3>1, <3>2, CancelSlotContexts DEF RequestBusyRecycle
    <3> QED
      BY <1>1, <2>5, <3>2 DEF RequestBusyRecycle
  <2>6. CASE ReapEnds  BY <1>1, <2>6 DEF ReapEnds
  <2>7. ASSUME NEW c \in idle, ReconcileIdle(c) PROVE JobContexts'
    BY <1>1, <2>7 DEF ReconcileIdle
  <2>8. CASE ReconcileEnds  BY <1>1, <2>8 DEF ReconcileEnds
  <2> QED
    BY <1>13, <2>1, <2>2, <2>3, <2>4, <2>5, <2>6, <2>7, <2>8 DEF Reconcile
<1>14. ASSUME NEW v \in VMs, NEW s \in Slots, GuestExit(v, s) PROVE JobContexts'
  BY <1>1, <1>14 DEF GuestExit
<1> QED
  BY <1>2, <1>3, <1>4, <1>5, <1>6, <1>7, <1>8, <1>9, <1>10, <1>11, <1>12, <1>13, <1>14
     DEF Next

\* Types, VM ownership and job contexts hold in every reachable state.
THEOREM ContextsHold == Spec => [](TypeOK /\ WorkerControl /\ JobContexts)
<1>1. Init => JobContexts
  BY NotInJob DEF Init, JobContexts, AllOff
<1> QED
  BY <1>1, ControlInvariant, ContextsStep, PTL DEF Spec

\* The step that lets go of a running job is a shutdown's or a restart's.
LEMMA DetachStep ==
  ASSUME TypeOK, JobContexts, [Next]_vars, NEW d \in Deliveries,
         fate[d] = "bound", fate'[d] = "detached"
  PROVE  ctxDone \/ restarts' # restarts
<1>1. CASE Restart
  BY <1>1 DEF Restart, TypeOK
<1>2. ASSUME NEW w \in Workers, NEW s \in Slots, SlotLoop(w, s)
      PROVE  ctxDone
  <2>1. CASE DispatchLost(w, s)
    BY <2>1 DEF DispatchLost, ReturnTo, JobContexts, TypeOK
  <2>2. CASE DrainDetached(w, s)
    BY <2>2 DEF DrainDetached, JobContexts
  <2>3. CASE BindJob(w, s)  BY <2>3 DEF BindJob, Take, TypeOK
  <2>4. CASE DispatchFailed(w, s)
    BY <2>4 DEF DispatchFailed, NotDispatched, ReturnTo, TypeOK
  <2>5. CASE DrainTerminal(w, s)  BY <2>5 DEF DrainTerminal, ReturnTo, TypeOK
  <2>6. CASE DrainKilled(w, s)  BY <2>6 DEF DrainKilled, TypeOK
  <2>7. CASE DrainStalled(w, s)  BY <2>7 DEF DrainStalled, ReturnTo, TypeOK
  <2>8. CASE ResumeFailed(w, s)  BY <2>8 DEF ResumeFailed, TypeOK
  <2>9. CASE ClaimResumeSlot(w, s)  BY <2>9 DEF ClaimResumeSlot
  <2>10. CASE SlotExits(w, s)  BY <2>10 DEF SlotExits
  <2>11. CASE DispatchAccepted(w, s)  BY <2>11 DEF DispatchAccepted
  <2>12. CASE RecycleStalled(w, s)  BY <2>12 DEF RecycleStalled
  <2> QED
    BY <1>2, <2>1, <2>2, <2>3, <2>4, <2>5, <2>6, <2>7, <2>8, <2>9, <2>10, <2>11, <2>12
       DEF SlotLoop
<1>3. ASSUME NEW w \in Workers, WorkerLoop(w) PROVE FALSE
  BY <1>3 DEF WorkerLoop, ClaimWorker, MarkWarming, WarmRequest, ActivateWorker,
     MarkWarmError, WarmRetry, StopForShutdown, StopForRecycle, OutOfService,
     SlotsJoined, Leave, TeardownDrain, TeardownDelete, ClearWorker
<1>4. ASSUME NEW w \in Workers, NEW s \in Slots, CancelSlot(w, s) PROVE FALSE
  BY <1>4 DEF CancelSlot, TypeOK
<1>5. CASE Reconcile
  <2>1. CASE RequestBusyRecycle
    <3>1. claimed.w \in Workers /\ claimed.s \in Slots
      BY <2>1 DEF RequestBusyRecycle, BusyType, TypeOK
    <3> QED
      BY <1>4, <2>1, <3>1 DEF RequestBusyRecycle
  <2> QED
    BY <1>5, <2>1 DEF Reconcile, ReconcileBegins, PastMaxBind, Condemn, PastPickupTimeout,
       ClaimSlotReapWarning, ReapEnds, ReconcileIdle, ReconcileEnds
<1>6. ASSUME NEW e \in Deliveries, Enqueue(e) \/ CancelRun(e) PROVE FALSE
  BY <1>4, <1>6 DEF Enqueue, CancelRun, TypeOK
<1>7. CASE Start
  BY <1>7 DEF Start
<1> QED
  BY <1>1, <1>2, <1>3, <1>5, <1>6, <1>7
     DEF Next, Reconfigure, Shutdown, ContextDone, ContextWatcher, GuestExit

\* A running job is only ever detached by a shutdown or a restart: a recycle or
\* cancel-run always reaches the guest job with its own cause, however the
\* worker's cancelSlots races it, for any number of workers and slots.
THEOREM DetachIsShutdown == Spec => DetachOnlyAtShutdown
<1>1. TypeOK /\ JobContexts /\ [Next]_vars =>
        [\A d \in Deliveries :
           fate[d] = "bound" /\ fate'[d] = "detached" => ctxDone \/ restarts' # restarts]_vars
  BY DetachStep
<1> QED
  BY <1>1, ContextsHold, PTL DEF Spec, DetachOnlyAtShutdown

-----------------------------------------------------------------------------
(* Bindings: which delivery is where *)

\* The queue holds deliveries that wait, each of them once, and nothing is
\* bound before the pool is started.
QueueControl ==
  /\ \A i \in 1 .. Len(queue) : fate[queue[i]] = "queued"
  /\ \A i, j \in 1 .. Len(queue) : queue[i] = queue[j] => i = j
  /\ ~started => \A d \in Deliveries : fate[d] # "bound"

\* A slot of a VM in service and its goroutine hold one bound delivery; only a
\* second cancel frees the slot before the goroutine has come back.
SlotControl(w, s) ==
  /\ slot[w][s].job # None =>
       vm[w] # None /\ s < nslots[w] /\ fate[slot[w][s].job] = "bound"
  /\ InJob(thread[w][s]) => fate[thread[w][s].job] = "bound"
  /\ InJob(thread[w][s]) /\ Owns(w, s) =>
       \/ slot[w][s].job = thread[w][s].job
       \/ slot[w][s].job = None /\ recycle[w]
  /\ thread[w][s].pc = "stalled" => slot[w][s].job = None
  /\ InJob(thread[w][s]) /\ thread[w][s].cause = "kill" /\ vm[w] # None => recycle[w]

\* Two slots and their goroutines hold different deliveries.
Apart(w, s, x, t) ==
  /\ slot[w][s].job # None => slot[w][s].job # slot[x][t].job
  /\ InJob(thread[w][s]) => thread[w][s].job # slot[x][t].job
  /\ InJob(thread[w][s]) /\ InJob(thread[x][t]) => thread[w][s].job # thread[x][t].job

BindingControl ==
  /\ \A w \in Workers, s \in Slots : SlotControl(w, s)
  /\ \A w, x \in Workers, s, t \in Slots : w # x \/ s # t => Apart(w, s, x, t)

\* What runs on slot t of VM v has been dispatched and is not over, and the
\* goroutine or the slot that holds it is the one of that place.
Placed(v, t) ==
  /\ fate[guest[v][t]] \notin {"new", "queued", "over"}
  /\ \A w \in Workers, s \in Slots :
       /\ thread[w][s].pc = "dispatch" => guest[v][t] # thread[w][s].job
       /\ InJob(thread[w][s]) /\ guest[v][t] = thread[w][s].job => v = wvm[w] /\ t = s
       /\ guest[v][t] = slot[w][s].job => v = vm[w] /\ t = s

\* A delivery runs in one place at most, and a VM that is not there runs none.
GuestControl ==
  /\ \A v \in VMs : v \notin booted => v \notin draining /\ \A s \in Slots : guest[v][s] = None
  /\ \A u, v \in VMs, s, t \in Slots :
       guest[v][s] # None /\ (u # v \/ s # t) => guest[v][s] # guest[u][t]
  /\ \A v \in VMs, t \in Slots : guest[v][t] # None => Placed(v, t)

\* The kinds of steps a slot goroutine takes: it binds the head of the queue,
\* resumes an adopted job, has its dispatch accepted, returns from its job,
\* moves on without one, or marks its worker after a stall.
Binds(w, s) ==
  LET d == Head(queue) IN
  /\ thread[w][s].pc = "wait" /\ ~MustStop(w, s) /\ slot[w][s].job = None /\ queue # <<>>
  /\ slot'[w][s].job = d /\ slot'[w][s].cancel
  /\ thread'[w][s] = [pc |-> "dispatch", job |-> d, cause |-> "none"]
  /\ fate' = [fate EXCEPT ![d] = "bound"]
  /\ queue' = Tail(queue)
  /\ UNCHANGED <<recycle, guest>>

Resumes(w, s) ==
  /\ thread[w][s].pc = "start" /\ Resumable(w, s)
  /\ slot'[w][s].job = slot[w][s].job
  /\ thread'[w][s] = [pc |-> "resume", job |-> slot[w][s].job, cause |-> "none"]
  /\ UNCHANGED <<queue, recycle, guest, fate>>

Accepted(w, s) ==
  LET t == thread[w][s] IN
  /\ t.pc = "dispatch"
  /\ slot'[w][s] = slot[w][s]
  /\ thread'[w][s] = [pc |-> "drain", job |-> t.job, cause |-> t.cause]
  /\ guest'[wvm[w]][s] = t.job
  /\ UNCHANGED <<queue, recycle, fate>>

Returns(w, s) ==
  LET t == thread[w][s]
      v == wvm[w] IN
  /\ InJob(t)
  /\ thread'[w][s].pc \in {"off", "wait", "stalled"}
  /\ thread'[w][s].pc = "off" /\ Owns(w, s) => recycle'[w]
  /\ slot'[w][s] = IF Owns(w, s) THEN EmptySlot ELSE slot[w][s]
  /\ guest'[v][s] \in {guest[v][s], None, t.job}
  /\ guest'[v][s] = t.job => guest[v][s] = t.job \/ t.pc = "dispatch"
  /\ \E o \in {"over", "lost", "stalled", "killed", "detached"} :
       /\ fate' = [fate EXCEPT ![t.job] = o]
       /\ o = "over" => guest' = guest /\ (t.pc = "dispatch" \/ guest[v][s] # t.job)
       /\ o = "killed" => t.cause = "kill"
       /\ o = "detached" => t.cause = "plain"
       /\ o = "stalled" => /\ t.cause # "kill"
                           /\ thread'[w][s].pc = "stalled" \/ (Owns(w, s) => recycle'[w])
  /\ UNCHANGED queue

Moves(w, s) ==
  /\ \/ thread[w][s].pc = "start" /\ thread'[w][s].pc = "wait"
     \/ thread[w][s].pc = "wait" /\ MustStop(w, s) /\ thread'[w][s].pc = "off"
  /\ slot'[w][s] = slot[w][s]
  /\ UNCHANGED <<queue, recycle, guest, fate>>

Marks(w, s) ==
  /\ thread[w][s].pc = "stalled" /\ thread'[w][s].pc = "off"
  /\ slot'[w][s] = IF Owns(w, s) THEN EmptySlot ELSE slot[w][s]
  /\ Owns(w, s) => recycle'[w]
  /\ UNCHANGED <<queue, guest, fate>>

\* What a slot goroutine's step leaves alone.
SlotFrame(w, s) ==
  /\ UNCHANGED <<jobsPerVM, started, ctxDone, shuttingDown, vm, nslots, wpc, wvm,
                 booted, draining, restarts>>
  /\ \A x \in Workers, r \in Slots : x # w \/ r # s =>
       slot'[x][r] = slot[x][r] /\ thread'[x][r] = thread[x][r]
  /\ \A x \in Workers : recycle[x] \/ x # w => recycle'[x] = recycle[x]
  /\ \A v \in VMs, t \in Slots : v # wvm[w] \/ t # s => guest'[v][t] = guest[v][t]

\* Freeing a slot touches no other one, and the slot only while it is owned.
LEMMA FinishedFacts ==
  ASSUME TypeOK, NEW w \in Workers, NEW s \in Slots
  PROVE  /\ FinishedSlot(w, s)[w][s] = IF Owns(w, s) THEN EmptySlot ELSE slot[w][s]
         /\ \A x \in Workers, r \in Slots : x # w \/ r # s =>
              FinishedSlot(w, s)[x][r] = slot[x][r]
  BY DEF FinishedSlot, TypeOK

\* A slot goroutine that runs serves a VM that runs, its worker's own.
LEMMA AtVM ==
  ASSUME TypeOK, WorkerControl, NEW w \in Workers, NEW s \in Slots, thread[w][s].pc # "off"
  PROVE  /\ wvm[w] \in VMs /\ wvm[w] \in booted /\ vm[w] \in {None, wvm[w]}
         /\ wpc[w] \in {"run", "joinRecycle", "joinStop"}
  BY PoolAssumption DEF TypeOK, WorkerControl

\* Each step of a slot goroutine is of one of the kinds and within its frame.
LEMMA SlotKinds ==
  ASSUME TypeOK, WorkerControl, JobContexts,
         NEW w \in Workers, NEW s \in Slots, SlotLoop(w, s)
  PROVE  /\ SlotFrame(w, s)
         /\ Binds(w, s) \/ Resumes(w, s) \/ Accepted(w, s) \/ Returns(w, s) \/ Moves(w, s)
              \/ Marks(w, s)
<1> DEFINE P == SlotFrame(w, s) /\ (Binds(w, s) \/ Resumes(w, s) \/ Accepted(w, s)
                  \/ Returns(w, s) \/ Moves(w, s) \/ Marks(w, s))
<1> SUFFICES P
  OBVIOUS
<1>1. ASSUME NEW t, thread' = [thread EXCEPT ![w][s] = t]
      PROVE  /\ thread'[w][s] = t
             /\ \A x \in Workers, r \in Slots : x # w \/ r # s => thread'[x][r] = thread[x][r]
  BY <1>1 DEF TypeOK
<1>2. ASSUME NEW r, slot' = [slot EXCEPT ![w][s] = r]
      PROVE  /\ slot'[w][s] = r
             /\ \A x \in Workers, q \in Slots : x # w \/ q # s => slot'[x][q] = slot[x][q]
  BY <1>2 DEF TypeOK
<1>3. ASSUME NEW d, guest' = [guest EXCEPT ![wvm[w]][s] = d]
      PROVE  /\ wvm[w] \in VMs => guest'[wvm[w]][s] = d
             /\ \A v \in VMs, t \in Slots : v # wvm[w] \/ t # s => guest'[v][t] = guest[v][t]
  BY <1>3 DEF TypeOK
<1>4. ASSUME RecycledFreeing(w, s)
      PROVE  /\ Owns(w, s) => recycle'[w]
             /\ \A x \in Workers : recycle[x] \/ x # w => recycle'[x] = recycle[x]
  BY <1>4 DEF RecycledFreeing, TypeOK
<1>5. CASE ClaimResumeSlot(w, s)
  <2>1. CASE Resumable(w, s)
    <3>1. /\ slot' = [slot EXCEPT ![w][s] = WithCancel(slot[w][s], TRUE)]
          /\ thread' = [thread EXCEPT ![w][s] =
                          [pc |-> "resume", job |-> slot[w][s].job, cause |-> "none"]]
      BY <1>5, <2>1 DEF ClaimResumeSlot
    <3>2. /\ slot'[w][s] = WithCancel(slot[w][s], TRUE)
          /\ \A x \in Workers, r \in Slots : x # w \/ r # s => slot'[x][r] = slot[x][r]
      BY <1>2, <3>1
    <3>3. /\ thread'[w][s] = [pc |-> "resume", job |-> slot[w][s].job, cause |-> "none"]
          /\ \A x \in Workers, r \in Slots : x # w \/ r # s => thread'[x][r] = thread[x][r]
      BY <1>1, <3>1
    <3>4. Resumes(w, s)
      BY <1>5, <2>1, <3>2, <3>3 DEF ClaimResumeSlot, Resumes, WithCancel
    <3>5. SlotFrame(w, s)
      BY <1>5, <3>2, <3>3 DEF ClaimResumeSlot, SlotFrame
    <3> QED
      BY <3>4, <3>5
  <2>2. CASE ~Resumable(w, s)
    <3>1. slot' = slot /\ thread' = [thread EXCEPT ![w][s] = At("wait")]
      BY <1>5, <2>2 DEF ClaimResumeSlot
    <3>2. thread'[w][s] = At("wait")
      BY <1>1, <3>1
    <3>3. Moves(w, s)
      BY <1>5, <3>1, <3>2 DEF ClaimResumeSlot, Moves, At
    <3>4. SlotFrame(w, s)
      BY <1>1, <1>5, <3>1 DEF ClaimResumeSlot, SlotFrame
    <3> QED
      BY <3>3, <3>4
  <2> QED
    BY <2>1, <2>2
<1>6. CASE SlotExits(w, s)
  <2>1. thread'[w][s] = Off
    BY <1>1, <1>6 DEF SlotExits
  <2>2. Moves(w, s)
    BY <1>6, <2>1 DEF SlotExits, Moves, Off, At
  <2>3. SlotFrame(w, s)
    BY <1>1, <1>6 DEF SlotExits, SlotFrame
  <2> QED
    BY <2>2, <2>3
<1>7. CASE BindJob(w, s)
  <2>1. /\ slot'[w][s] = [job |-> Head(queue), adopted |-> FALSE, cancel |-> TRUE,
                           warned |-> FALSE]
        /\ thread'[w][s] = [pc |-> "dispatch", job |-> Head(queue), cause |-> "none"]
    BY <1>1, <1>2, <1>7 DEF BindJob, Take
  <2>2. Binds(w, s)
    BY <1>7, <2>1 DEF BindJob, Take, Binds
  <2>3. SlotFrame(w, s)
    BY <1>1, <1>2, <1>7 DEF BindJob, Take, SlotFrame
  <2> QED
    BY <2>2, <2>3
<1>8. CASE DispatchAccepted(w, s)
  <2>1. /\ guest' = [guest EXCEPT ![wvm[w]][s] = thread[w][s].job]
        /\ thread' = [thread EXCEPT ![w][s] =
                        [pc |-> "drain", job |-> thread[w][s].job, cause |-> thread[w][s].cause]]
    BY <1>8 DEF DispatchAccepted, TypeOK
  <2>2. /\ thread'[w][s] =
             [pc |-> "drain", job |-> thread[w][s].job, cause |-> thread[w][s].cause]
        /\ \A x \in Workers, r \in Slots : x # w \/ r # s => thread'[x][r] = thread[x][r]
    BY <1>1, <2>1
  <2>3. /\ guest'[wvm[w]][s] = thread[w][s].job
        /\ \A v \in VMs, t \in Slots : v # wvm[w] \/ t # s => guest'[v][t] = guest[v][t]
    BY <1>3, <2>1, AtVM, <1>8 DEF DispatchAccepted
  <2>4. Accepted(w, s)
    BY <1>8, <2>2, <2>3 DEF DispatchAccepted, Accepted
  <2>5. SlotFrame(w, s)
    BY <1>8, <2>2, <2>3 DEF DispatchAccepted, SlotFrame
  <2> QED
    BY <2>4, <2>5
<1> DEFINE Parked == {"off", "wait", "stalled"}
<1>9. ASSUME NEW pc \in Parked, thread' = [thread EXCEPT ![w][s] = At(pc)],
             slot' = FinishedSlot(w, s)
      PROVE  /\ thread'[w][s].pc = pc
             /\ \A x \in Workers, r \in Slots : x # w \/ r # s => thread'[x][r] = thread[x][r]
             /\ slot'[w][s] = IF Owns(w, s) THEN EmptySlot ELSE slot[w][s]
             /\ \A x \in Workers, r \in Slots : x # w \/ r # s => slot'[x][r] = slot[x][r]
  <2>1. /\ thread'[w][s] = At(pc)
        /\ \A x \in Workers, r \in Slots : x # w \/ r # s => thread'[x][r] = thread[x][r]
    BY <1>1, <1>9
  <2> QED
    BY <1>9, <2>1, FinishedFacts DEF At
<1>10. CASE DispatchFailed(w, s)
  <2>1. slot' = FinishedSlot(w, s) /\ \E pc \in Parked : thread' = [thread EXCEPT ![w][s] = At(pc)]
    BY <1>10 DEF DispatchFailed, NotDispatched, ReturnTo
  <2>2. SlotFrame(w, s)
    BY <1>9, <1>10, <2>1, ZenonT(60) DEF DispatchFailed, NotDispatched, SlotFrame
  <2>3. Returns(w, s)
    BY <1>9, <1>10 DEF DispatchFailed, NotDispatched, ReturnTo, Returns, InJob
  <2> QED
    BY <2>2, <2>3
<1>11. CASE DispatchLost(w, s)
  <2>1. slot' = FinishedSlot(w, s) /\ thread' = [thread EXCEPT ![w][s] = At("wait")]
    BY <1>11 DEF DispatchLost, ReturnTo
  <2>2. /\ guest'[wvm[w]][s] = thread[w][s].job
        /\ \A v \in VMs, t \in Slots : v # wvm[w] \/ t # s => guest'[v][t] = guest[v][t]
    BY <1>3, <1>11, AtVM DEF DispatchLost
  <2>3. SlotFrame(w, s)
    BY <1>9, <1>11, <2>1, <2>2 DEF DispatchLost, SlotFrame
  <2>4. \E o \in {"lost", "killed", "detached"} :
          /\ fate' = [fate EXCEPT ![thread[w][s].job] = o]
          /\ o = "killed" => thread[w][s].cause = "kill"
          /\ o = "detached" => thread[w][s].cause = "plain"
    <3>1. CASE thread[w][s].cause = "none"
      BY <1>11, <3>1 DEF DispatchLost, ReturnTo
    <3>2. CASE thread[w][s].cause = "plain"
      BY <1>11, <3>2 DEF DispatchLost, ReturnTo
    <3>3. CASE thread[w][s].cause = "kill"
      BY <1>11, <3>3 DEF DispatchLost, ReturnTo
    <3> QED
      BY <3>1, <3>2, <3>3 DEF TypeOK, ThreadType
  <2>5. /\ thread'[w][s].pc = "wait"
        /\ slot'[w][s] = IF Owns(w, s) THEN EmptySlot ELSE slot[w][s]
        /\ InJob(thread[w][s]) /\ thread[w][s].pc = "dispatch" /\ queue' = queue
    BY <1>9, <1>11, <2>1 DEF DispatchLost, InJob
  <2>6. Returns(w, s)
    BY <2>2, <2>4, <2>5 DEF Returns
  <2> QED
    BY <2>3, <2>6
<1>12. CASE DrainTerminal(w, s)
  <2>1. slot' = FinishedSlot(w, s) /\ \E pc \in Parked : thread' = [thread EXCEPT ![w][s] = At(pc)]
    BY <1>12 DEF DrainTerminal, Draining, ReturnTo
  <2>2. SlotFrame(w, s)
    BY <1>9, <1>12, <2>1, ZenonT(60) DEF DrainTerminal, Draining, SlotFrame
  <2>3. Returns(w, s)
    BY <1>9, <1>12 DEF DrainTerminal, Draining, ReturnTo, Returns, InJob
  <2> QED
    BY <2>2, <2>3
<1>13. CASE DrainDetached(w, s)
  <2>1. slot' = FinishedSlot(w, s) /\ \E pc \in Parked : thread' = [thread EXCEPT ![w][s] = At(pc)]
    BY <1>13 DEF DrainDetached, Draining, ReturnTo
  <2>2. SlotFrame(w, s)
    BY <1>9, <1>13, <2>1 DEF DrainDetached, Draining, SlotFrame
  <2>3. Returns(w, s)
    BY <1>9, <1>13 DEF DrainDetached, Draining, ReturnTo, Returns, InJob
  <2> QED
    BY <2>2, <2>3
<1>14. CASE DrainStalled(w, s)
  <2>1. slot' = FinishedSlot(w, s) /\ \E pc \in Parked : thread' = [thread EXCEPT ![w][s] = At(pc)]
    BY <1>14 DEF DrainStalled, ReturnTo
  <2>2. SlotFrame(w, s)
    BY <1>9, <1>14, <2>1 DEF DrainStalled, SlotFrame
  <2>3. Returns(w, s)
    BY <1>9, <1>14 DEF DrainStalled, ReturnTo, Returns, InJob
  <2> QED
    BY <2>2, <2>3
<1>15. CASE DrainKilled(w, s)
  <2>1. /\ slot' = FinishedSlot(w, s)
        /\ \E pc \in {"wait", "off"} :
             /\ thread' = [thread EXCEPT ![w][s] = At(pc)]
             /\ pc = "off" => RecycledFreeing(w, s)
             /\ pc = "wait" => recycle' = recycle
    BY <1>15 DEF DrainKilled, RecycledFreeing, Off
  <2>2. PICK pc \in {"wait", "off"} :
             /\ thread' = [thread EXCEPT ![w][s] = At(pc)]
             /\ pc = "off" => RecycledFreeing(w, s)
             /\ pc = "wait" => recycle' = recycle
    BY <2>1
  <2>3. /\ pc = "off" /\ Owns(w, s) => recycle'[w]
        /\ \A x \in Workers : recycle[x] \/ x # w => recycle'[x] = recycle[x]
    BY <1>4, <2>2
  <2>4. /\ guest'[wvm[w]][s] \in {guest[wvm[w]][s], None}
        /\ \A v \in VMs, t \in Slots : v # wvm[w] \/ t # s => guest'[v][t] = guest[v][t]
    <3>1. CASE guest' = guest
      BY <3>1
    <3>2. CASE guest' = [guest EXCEPT ![wvm[w]][s] = None]
      BY <1>3, <1>15, <3>2, AtVM DEF DrainKilled, Draining
    <3> QED
      BY <1>15, <3>1, <3>2 DEF DrainKilled
  <2>5. /\ thread'[w][s].pc = pc
        /\ \A x \in Workers, r \in Slots : x # w \/ r # s => thread'[x][r] = thread[x][r]
        /\ slot'[w][s] = IF Owns(w, s) THEN EmptySlot ELSE slot[w][s]
        /\ \A x \in Workers, r \in Slots : x # w \/ r # s => slot'[x][r] = slot[x][r]
    BY <1>9, <2>1, <2>2
  <2>6. thread[w][s].job # None
    BY <1>15, PoolAssumption DEF DrainKilled, Draining, JobContexts, InJob
  <2>7. SlotFrame(w, s)
    BY <1>15, <2>3, <2>4, <2>5 DEF DrainKilled, SlotFrame
  <2>8. Returns(w, s)
    BY <1>15, <2>3, <2>4, <2>5, <2>6 DEF DrainKilled, Draining, Returns, InJob
  <2> QED
    BY <2>7, <2>8
<1>16. CASE RecycleStalled(w, s)
  <2>1. slot' = FinishedSlot(w, s) /\ thread' = [thread EXCEPT ![w][s] = At("off")]
    BY <1>16 DEF RecycleStalled, RecycledFreeing, Off
  <2>2. SlotFrame(w, s)
    BY <1>4, <1>9, <1>16, <2>1, ZenonT(60) DEF RecycleStalled, SlotFrame
  <2>3. Marks(w, s)
    BY <1>4, <1>9, <1>16, <2>1 DEF RecycleStalled, Marks
  <2> QED
    BY <2>2, <2>3
<1>17. CASE ResumeFailed(w, s)
  <2>1. slot' = FinishedSlot(w, s) /\ thread' = [thread EXCEPT ![w][s] = At("off")]
    BY <1>17 DEF ResumeFailed, RecycledFreeing, Off
  <2>2. SlotFrame(w, s)
    BY <1>4, <1>9, <1>17, <2>1, ZenonT(60) DEF ResumeFailed, SlotFrame
  <2>3. Returns(w, s)
    BY <1>4, <1>9, <1>17, <2>1 DEF ResumeFailed, Returns, InJob
  <2> QED
    BY <2>2, <2>3
<1> QED
  BY <1>5, <1>6, <1>7, <1>8, <1>10, <1>11, <1>12, <1>13, <1>14, <1>15, <1>16, <1>17 DEF SlotLoop

\* A pool with a slot goroutine was started.
LEMMA StartedWithSlots ==
  ASSUME TypeOK, WorkerControl, NEW w \in Workers, NEW s \in Slots, thread[w][s].pc # "off"
  PROVE  started
  BY AtVM DEF WorkerControl

\* A busy slot whose goroutine runs is one the goroutine may free.
LEMMA BusyOwned ==
  ASSUME TypeOK, WorkerControl, BindingControl, NEW w \in Workers, NEW s \in Slots,
         thread[w][s].pc # "off", slot[w][s].job # None
  PROVE  Owns(w, s)
  BY AtVM DEF BindingControl, SlotControl, Owns

\* The queue stays one of waiting deliveries when its head is bound.
LEMMA SlotQueue ==
  ASSUME TypeOK, WorkerControl, JobContexts, QueueControl, BindingControl,
         NEW w \in Workers, NEW s \in Slots, SlotLoop(w, s)
  PROVE  QueueControl'
<1>1. SlotFrame(w, s) /\ thread[w][s].pc # "off" /\ started /\ started'
  BY SlotKinds, SlotLoopFrame, StartedWithSlots DEF SlotFrame
<1>2. CASE Binds(w, s)
  <2>1. /\ queue \in Seq(Deliveries) /\ queue # <<>> /\ queue' = Tail(queue)
        /\ fate' = [fate EXCEPT ![Head(queue)] = "bound"]
        /\ fate \in [Deliveries -> Fates]
    BY <1>2 DEF Binds, TypeOK
  <2>2. /\ Len(queue) \in Nat \ {0} /\ Len(queue') = Len(queue) - 1
        /\ Head(queue) = queue[1]
        /\ \A i \in 1 .. Len(queue') : queue'[i] = queue[i + 1] /\ i + 1 \in 1 .. Len(queue)
    BY <2>1
  <2>3. \A i \in 1 .. Len(queue') : queue'[i] # Head(queue) /\ queue'[i] \in Deliveries
    BY <2>1, <2>2 DEF QueueControl
  <2>4. \A i \in 1 .. Len(queue') : fate'[queue'[i]] = "queued"
    BY <2>1, <2>2, <2>3 DEF QueueControl
  <2>5. \A i, j \in 1 .. Len(queue') : queue'[i] = queue'[j] => i = j
    <3> SUFFICES ASSUME NEW i \in 1 .. Len(queue'), NEW j \in 1 .. Len(queue'),
                        queue'[i] = queue'[j]
                 PROVE  i = j
      OBVIOUS
    <3>1. i + 1 = j + 1
      BY <2>2 DEF QueueControl
    <3> QED
      BY <2>2, <3>1
  <2> QED
    BY <1>1, <2>4, <2>5 DEF QueueControl
<1>3. CASE Returns(w, s)
  <2>1. /\ queue' = queue /\ fate[thread[w][s].job] = "bound" /\ queue \in Seq(Deliveries)
        /\ \E o : fate' = [fate EXCEPT ![thread[w][s].job] = o]
        /\ fate \in [Deliveries -> Fates]
    BY <1>3 DEF Returns, BindingControl, SlotControl, TypeOK
  <2>2. \A i \in 1 .. Len(queue) : fate'[queue[i]] = fate[queue[i]]
    BY <2>1 DEF QueueControl
  <2> QED
    BY <1>1, <2>1, <2>2 DEF QueueControl
<1>4. CASE queue' = queue /\ fate' = fate
  BY <1>1, <1>4 DEF QueueControl
<1> QED
  BY <1>2, <1>3, <1>4, SlotKinds DEF Resumes, Accepted, Moves, Marks

\* A slot goroutine's step keeps the bindings.
LEMMA SlotBindings ==
  ASSUME TypeOK, WorkerControl, JobContexts, QueueControl, BindingControl,
         NEW w \in Workers, NEW s \in Slots, SlotLoop(w, s)
  PROVE  BindingControl'
<1>1. SlotFrame(w, s) /\ thread[w][s].pc # "off" /\ fate \in [Deliveries -> Fates]
  BY SlotKinds, SlotLoopFrame DEF TypeOK
<1>2. /\ SlotControl(w, s)
      /\ \A x \in Workers, r \in Slots : SlotControl(x, r)
      /\ \A x \in Workers, r \in Slots : x # w \/ r # s => Apart(w, s, x, r) /\ Apart(x, r, w, s)
  BY DEF BindingControl
<1>3. \A x \in Workers, r \in Slots : Owns(x, r)' = Owns(x, r)
  BY <1>1 DEF SlotFrame, Owns
<1>4. ASSUME \A d \in Deliveries : fate[d] = "bound" /\ fate'[d] # "bound" =>
                InJob(thread[w][s]) /\ d = thread[w][s].job,
             NEW x \in Workers, NEW r \in Slots, x # w \/ r # s
      PROVE  SlotControl(x, r)'
  <2>1. /\ slot'[x][r] = slot[x][r] /\ thread'[x][r] = thread[x][r]
        /\ vm' = vm /\ nslots' = nslots /\ (recycle[x] => recycle'[x])
    BY <1>1, <1>4 DEF SlotFrame
  <2>2. /\ slot[x][r].job \in Deliveries \cup {None}
        /\ InJob(thread[x][r]) => thread[x][r].job \in Deliveries
    BY DEF TypeOK, SlotType, JobContexts
  <2>3. slot[x][r].job # None => fate'[slot[x][r].job] = "bound"
    BY <1>2, <1>4, <2>2 DEF SlotControl, Apart
  <2>4. InJob(thread[x][r]) => fate'[thread[x][r].job] = "bound"
    BY <1>2, <1>4, <2>2 DEF SlotControl, Apart
  <2> QED
    BY <1>2, <1>3, <2>1, <2>3, <2>4 DEF SlotControl
<1>5. ASSUME NEW x \in Workers, NEW r \in Slots, NEW y \in Workers, NEW q \in Slots,
             x # y \/ r # q, x # w \/ r # s, y # w \/ q # s
      PROVE  Apart(x, r, y, q)'
  BY <1>1, <1>5 DEF SlotFrame, BindingControl, Apart
<1>6. ASSUME \A d \in Deliveries : fate[d] = "bound" /\ fate'[d] # "bound" =>
                InJob(thread[w][s]) /\ d = thread[w][s].job,
             SlotControl(w, s)',
             \A x \in Workers, r \in Slots : x # w \/ r # s =>
                Apart(w, s, x, r)' /\ Apart(x, r, w, s)'
      PROVE  BindingControl'
  <2>1. ASSUME NEW x \in Workers, NEW r \in Slots PROVE SlotControl(x, r)'
    BY <1>4, <1>6
  <2>2. ASSUME NEW x \in Workers, NEW y \in Workers, NEW r \in Slots, NEW q \in Slots,
               x # y \/ r # q
        PROVE  Apart(x, r, y, q)'
    BY <1>5, <1>6, <2>2
  <2> QED
    BY <2>1, <2>2 DEF BindingControl
<1>7. ASSUME slot'[w][s].job \in {slot[w][s].job, None},
             InJob(thread'[w][s]) => InJob(thread[w][s]) /\ thread'[w][s].job = thread[w][s].job,
             NEW x \in Workers, NEW r \in Slots, x # w \/ r # s
      PROVE  Apart(w, s, x, r)' /\ Apart(x, r, w, s)'
  <2>1. slot'[x][r] = slot[x][r] /\ thread'[x][r] = thread[x][r]
    BY <1>1, <1>7 DEF SlotFrame
  <2>2. Apart(w, s, x, r) /\ Apart(x, r, w, s)
    BY <1>2, <1>7
  <2>3. InJob(thread[x][r]) => thread[x][r].job # None
    BY PoolAssumption DEF JobContexts
  <2> QED
    BY <1>7, <2>1, <2>2, <2>3 DEF Apart
<1>8. CASE Binds(w, s)
  <2>1. /\ Head(queue) \in Deliveries /\ fate[Head(queue)] = "queued"
        /\ fate'[Head(queue)] = "bound" /\ \A d \in Deliveries : fate[d] = "bound" => fate'[d] = "bound"
    <3>1. queue # <<>> /\ fate' = [fate EXCEPT ![Head(queue)] = "bound"] /\ queue \in Seq(Deliveries)
      BY <1>8 DEF Binds, TypeOK
    <3>2. Head(queue) = queue[1] /\ 1 \in 1 .. Len(queue) /\ Head(queue) \in Deliveries
      BY <3>1
    <3> QED
      BY <1>1, <3>1, <3>2 DEF QueueControl
  <2>2. /\ slot'[w][s].job = Head(queue) /\ InJob(thread'[w][s]) /\ thread'[w][s].job = Head(queue)
        /\ thread'[w][s].pc = "dispatch" /\ thread'[w][s].cause = "none"
        /\ Owns(w, s)
    BY <1>8 DEF Binds, InJob, MustStop
  <2>3. SlotControl(w, s)'
    BY <1>1, <2>1, <2>2 DEF SlotControl, Owns, SlotFrame
  <2>4. ASSUME NEW x \in Workers, NEW r \in Slots, x # w \/ r # s
        PROVE  Apart(w, s, x, r)' /\ Apart(x, r, w, s)'
    <3>1. slot'[x][r] = slot[x][r] /\ thread'[x][r] = thread[x][r]
      BY <1>1, <2>4 DEF SlotFrame
    <3>2. /\ slot[x][r].job # Head(queue)
          /\ InJob(thread[x][r]) => thread[x][r].job # Head(queue)
      BY <1>2, <2>1, PoolAssumption DEF SlotControl
    <3> QED
      BY <2>2, <3>1, <3>2 DEF Apart
  <2> QED
    BY <1>6, <2>1, <2>3, <2>4
<1>9. CASE Resumes(w, s)
  <2>1. /\ slot'[w][s].job = slot[w][s].job /\ slot[w][s].job # None
        /\ InJob(thread'[w][s]) /\ thread'[w][s].job = slot[w][s].job
        /\ thread'[w][s].pc = "resume" /\ thread'[w][s].cause = "none" /\ fate' = fate
    BY <1>9 DEF Resumes, InJob, Resumable
  <2>2. SlotControl(w, s)'
    BY <1>1, <1>2, <2>1 DEF SlotControl, SlotFrame
  <2>3. ASSUME NEW x \in Workers, NEW r \in Slots, x # w \/ r # s
        PROVE  Apart(w, s, x, r)' /\ Apart(x, r, w, s)'
    <3>1. slot'[x][r] = slot[x][r] /\ thread'[x][r] = thread[x][r]
      BY <1>1, <2>3 DEF SlotFrame
    <3> QED
      BY <1>2, <2>1, <2>3, <3>1 DEF Apart
  <2> QED
    BY <1>6, <2>1, <2>2, <2>3
<1>10. CASE Accepted(w, s)
  <2>1. /\ slot'[w][s] = slot[w][s] /\ InJob(thread[w][s]) /\ InJob(thread'[w][s])
        /\ thread'[w][s].job = thread[w][s].job /\ thread'[w][s].cause = thread[w][s].cause
        /\ thread'[w][s].pc = "drain" /\ fate' = fate /\ recycle' = recycle
    BY <1>10 DEF Accepted, InJob
  <2>2. SlotControl(w, s)'
    BY <1>1, <1>2, <1>3, <2>1 DEF SlotControl, SlotFrame
  <2> QED
    BY <1>6, <1>7, <2>1, <2>2
<1>11. CASE Returns(w, s)
  <2>1. /\ InJob(thread[w][s]) /\ ~InJob(thread'[w][s])
        /\ slot'[w][s] = IF Owns(w, s) THEN EmptySlot ELSE slot[w][s]
        /\ \E o : fate' = [fate EXCEPT ![thread[w][s].job] = o]
    BY <1>11 DEF Returns, InJob
  <2>2. slot'[w][s].job = None
    BY <1>1, <2>1, BusyOwned DEF EmptySlot
  <2>3. SlotControl(w, s)'
    BY <2>1, <2>2 DEF SlotControl
  <2> QED
    BY <1>1, <1>6, <1>7, <2>1, <2>2, <2>3
<1>12. CASE Moves(w, s)
  <2>1. /\ slot'[w][s] = slot[w][s] /\ ~InJob(thread'[w][s]) /\ thread'[w][s].pc # "stalled"
        /\ fate' = fate
    BY <1>12 DEF Moves, InJob
  <2>2. SlotControl(w, s)'
    BY <1>1, <1>2, <2>1 DEF SlotControl, SlotFrame
  <2> QED
    BY <1>6, <1>7, <2>1, <2>2
<1>13. CASE Marks(w, s)
  <2>1. slot'[w][s].job = None /\ ~InJob(thread'[w][s]) /\ fate' = fate
    BY <1>2, <1>13 DEF Marks, InJob, EmptySlot, SlotControl
  <2>2. SlotControl(w, s)'
    BY <2>1 DEF SlotControl
  <2> QED
    BY <1>6, <1>7, <2>1, <2>2
<1> QED
  BY <1>8, <1>9, <1>10, <1>11, <1>12, <1>13, SlotKinds

\* A slot goroutine's step keeps each delivery in the place it runs in.
LEMMA SlotGuests ==
  ASSUME TypeOK, WorkerControl, JobContexts, QueueControl, BindingControl, GuestControl,
         NEW w \in Workers, NEW s \in Slots, SlotLoop(w, s)
  PROVE  GuestControl'
<1> DEFINE h == wvm[w]
<1>1. /\ SlotFrame(w, s) /\ thread[w][s].pc # "off" /\ fate \in [Deliveries -> Fates]
      /\ h \in VMs /\ h \in booted /\ vm[w] \in {None, h}
  BY SlotKinds, SlotLoopFrame, AtVM DEF TypeOK
<1>2. /\ SlotControl(w, s)
      /\ \A x \in Workers, r \in Slots : x # w \/ r # s => Apart(w, s, x, r) /\ Apart(x, r, w, s)
  BY DEF BindingControl
<1>3. \A v \in VMs, t \in Slots : guest[v][t] \in Deliveries \cup {None}
  BY DEF TypeOK
<1>4. \A v \in VMs : v \notin booted' => v \notin draining' /\ \A t \in Slots : guest'[v][t] = None
  BY <1>1 DEF SlotFrame, GuestControl
<1>5. ASSUME guest' = guest,
             \A v \in VMs, t \in Slots : guest[v][t] # None => Placed(v, t)'
      PROVE  GuestControl'
  BY <1>4, <1>5 DEF GuestControl
<1>6. \A x \in Workers, r \in Slots : x # w \/ r # s =>
        slot'[x][r] = slot[x][r] /\ thread'[x][r] = thread[x][r]
  BY <1>1 DEF SlotFrame
<1>7. wvm' = wvm /\ vm' = vm
  BY <1>1 DEF SlotFrame
<1> HIDE DEF h
<1>8. CASE Binds(w, s)
  <2>1. /\ guest' = guest /\ fate' = [fate EXCEPT ![Head(queue)] = "bound"]
        /\ thread'[w][s].job = Head(queue) /\ slot'[w][s].job = Head(queue)
    BY <1>8 DEF Binds
  <2>2. fate[Head(queue)] = "queued"
    <3>1. queue # <<>> /\ queue \in Seq(Deliveries)
      BY <1>8 DEF Binds, TypeOK
    <3>2. Head(queue) = queue[1] /\ 1 \in 1 .. Len(queue)
      BY <3>1
    <3> QED
      BY <3>2 DEF QueueControl
  <2>3. ASSUME NEW v \in VMs, NEW t \in Slots, guest[v][t] # None PROVE Placed(v, t)'
    <3>1. Placed(v, t) /\ guest[v][t] # Head(queue) /\ guest[v][t] \in Deliveries
      BY <1>3, <2>2, <2>3 DEF GuestControl, Placed
    <3> QED
      BY <1>1, <1>6, <1>7, <2>1, <3>1 DEF Placed
  <2> QED
    BY <1>5, <2>1, <2>3
<1>9. CASE Resumes(w, s)
  <2>1. /\ guest' = guest /\ fate' = fate /\ thread'[w][s].pc = "resume"
        /\ thread'[w][s].job = slot[w][s].job /\ slot'[w][s].job = slot[w][s].job
        /\ vm[w] = wvm[w]
    BY <1>9 DEF Resumes, Resumable, Owns
  <2>2. ASSUME NEW v \in VMs, NEW t \in Slots, guest[v][t] # None PROVE Placed(v, t)'
    <3>1. Placed(v, t)
      BY <2>2 DEF GuestControl
    <3> QED
      BY <1>6, <1>7, <2>1, <3>1 DEF Placed
  <2> QED
    BY <1>5, <2>1, <2>2
<1>10. CASE Accepted(w, s)
  <2> DEFINE d == thread[w][s].job
  <2>1. /\ thread[w][s].pc = "dispatch" /\ InJob(thread[w][s]) /\ d \in Deliveries /\ d # None
        /\ slot'[w][s] = slot[w][s] /\ thread'[w][s].job = d /\ thread'[w][s].pc = "drain"
        /\ guest'[h][s] = d /\ fate' = fate /\ fate[d] = "bound"
    BY <1>2, <1>10, PoolAssumption DEF Accepted, InJob, JobContexts, SlotControl, h
  <2>2. \A v \in VMs, t \in Slots : guest[v][t] # d
    BY <2>1 DEF GuestControl, Placed
  <2>3. \A v \in VMs, t \in Slots : v # h \/ t # s => guest'[v][t] = guest[v][t]
    BY <1>1 DEF SlotFrame, h
  <2>4. slot[w][s].job = d => vm[w] = h
    BY <1>1, <1>2, <2>1 DEF SlotControl
  <2>5. \A x \in Workers, r \in Slots : x # w \/ r # s =>
          /\ slot[x][r].job # d
          /\ InJob(thread[x][r]) => thread[x][r].job # d
    BY <1>2, <2>1 DEF Apart
  <2> HIDE DEF d
  <2>6. ASSUME NEW v \in VMs, NEW t \in Slots, guest'[v][t] # None PROVE Placed(v, t)'
    <3>1. CASE v = h /\ t = s
      BY <1>6, <1>7, <2>1, <2>4, <2>5, <3>1 DEF Placed, InJob, h
    <3>2. CASE v # h \/ t # s
      <4>1. Placed(v, t) /\ guest'[v][t] = guest[v][t] /\ guest[v][t] # d
        BY <2>2, <2>3, <2>6, <3>2 DEF GuestControl
      <4> QED
        BY <1>6, <1>7, <2>1, <4>1 DEF Placed
    <3> QED
      BY <3>1, <3>2
  <2>7. ASSUME NEW u \in VMs, NEW v \in VMs, NEW r \in Slots, NEW t \in Slots,
               guest'[v][r] # None, u # v \/ r # t
        PROVE  guest'[v][r] # guest'[u][t]
    BY <2>1, <2>2, <2>3, <2>7 DEF GuestControl
  <2> QED
    BY <1>4, <2>6, <2>7 DEF GuestControl
<1>11. CASE Returns(w, s)
  <2> DEFINE d == thread[w][s].job
  <2>1. /\ InJob(thread[w][s]) /\ ~InJob(thread'[w][s]) /\ thread'[w][s].pc # "dispatch"
        /\ d \in Deliveries /\ d # None /\ fate[d] = "bound"
    BY <1>2, <1>11, PoolAssumption DEF Returns, InJob, JobContexts, SlotControl
  <2>2. slot'[w][s].job = None
    BY <1>1, <1>11, BusyOwned DEF Returns, EmptySlot
  <2>3. /\ \A v \in VMs, t \in Slots : v # h \/ t # s => guest'[v][t] = guest[v][t]
        /\ guest'[h][s] \in {guest[h][s], None, d}
        /\ guest'[h][s] = d => guest[h][s] = d \/ thread[w][s].pc = "dispatch"
    BY <1>1, <1>11 DEF SlotFrame, Returns, h
  <2>4. \A x \in Workers, r \in Slots : x # w \/ r # s =>
          /\ slot[x][r].job # d
          /\ InJob(thread[x][r]) => thread[x][r].job # d
    BY <1>2, <2>1 DEF Apart
  <2>5. \A v \in VMs, t \in Slots : v # h \/ t # s => guest[v][t] # d
    BY <2>1 DEF GuestControl, Placed, h
  <2>6. PICK o \in {"over", "lost", "stalled", "killed", "detached"} :
          /\ fate' = [fate EXCEPT ![d] = o]
          /\ o = "over" => guest' = guest /\ (thread[w][s].pc = "dispatch" \/ guest[h][s] # d)
    BY <1>11 DEF Returns, h
  <2>7. ASSUME NEW v \in VMs, NEW t \in Slots, guest'[v][t] = d PROVE o # "over"
    BY <1>1, <2>1, <2>3, <2>5, <2>6, <2>7 DEF GuestControl, Placed
  <2> HIDE DEF d
  <2>8. ASSUME NEW v \in VMs, NEW t \in Slots, guest'[v][t] # None PROVE Placed(v, t)'
    <3>1. CASE guest'[v][t] = d
      <4>1. v = h /\ t = s
        BY <2>3, <2>5, <3>1
      <4>2. fate'[d] = o /\ o # "over"
        BY <1>1, <2>1, <2>6, <2>7, <2>8, <3>1
      <4> QED
        BY <1>6, <2>1, <2>2, <2>4, <2>8, <3>1, <4>1, <4>2 DEF Placed, InJob
    <3>2. CASE guest'[v][t] # d
      <4>1. guest'[v][t] = guest[v][t]
        BY <2>3, <2>8, <3>2
      <4>2. Placed(v, t) /\ guest[v][t] \in Deliveries
        BY <1>3, <2>8, <4>1 DEF GuestControl
      <4> QED
        BY <1>1, <1>6, <1>7, <2>1, <2>2, <2>6, <2>8, <3>2, <4>1, <4>2 DEF Placed
    <3> QED
      BY <3>1, <3>2
  <2>9. ASSUME NEW u \in VMs, NEW v \in VMs, NEW r \in Slots, NEW t \in Slots,
               guest'[v][r] # None, u # v \/ r # t
        PROVE  guest'[v][r] # guest'[u][t]
    BY <2>1, <2>3, <2>5, <2>9 DEF GuestControl
  <2> QED
    BY <1>4, <2>8, <2>9 DEF GuestControl
<1>12. CASE Moves(w, s) \/ Marks(w, s)
  <2>1. /\ guest' = guest /\ fate' = fate /\ thread'[w][s].pc \in {"off", "wait"}
        /\ slot'[w][s].job \in {slot[w][s].job, None}
    BY <1>12 DEF Moves, Marks, EmptySlot
  <2>2. ASSUME NEW v \in VMs, NEW t \in Slots, guest[v][t] # None PROVE Placed(v, t)'
    <3>1. Placed(v, t)
      BY <2>2 DEF GuestControl
    <3> QED
      BY <1>6, <1>7, <2>1, <2>2, <3>1 DEF Placed, InJob
  <2> QED
    BY <1>5, <2>1, <2>2
<1> QED
  BY <1>8, <1>9, <1>10, <1>11, <1>12, SlotKinds

\* A step that binds nothing at slot r of worker x: a goroutine in a job stays
\* with it, on its VM, and a busy slot keeps its job or is freed.
Steady(x, r) ==
  /\ InJob(thread'[x][r]) =>
       /\ InJob(thread[x][r]) /\ thread'[x][r].job = thread[x][r].job
       /\ thread'[x][r].pc = thread[x][r].pc /\ wvm'[x] = wvm[x]
       /\ vm'[x] # None =>
            /\ vm'[x] = vm[x] /\ nslots'[x] = nslots[x] /\ (recycle[x] => recycle'[x])
            /\ slot'[x][r].job = slot[x][r].job \/ (slot'[x][r].job = None /\ recycle'[x])
            /\ thread'[x][r].cause = "kill" => thread[x][r].cause = "kill" \/ recycle'[x]
  /\ slot'[x][r].job # None =>
       slot'[x][r].job = slot[x][r].job /\ vm'[x] = vm[x] /\ nslots'[x] = nslots[x]
  /\ thread'[x][r].pc = "stalled" => thread[x][r].pc = "stalled"

\* Steps that bind nothing and end no binding that a slot or a goroutine still
\* holds keep the bindings.
LEMMA SteadyBindings ==
  ASSUME JobContexts, BindingControl,
         \A x \in Workers, r \in Slots :
           /\ Steady(x, r)
           /\ slot'[x][r].job # None /\ fate[slot'[x][r].job] = "bound"
                => fate'[slot'[x][r].job] = "bound"
           /\ InJob(thread'[x][r]) /\ fate[thread'[x][r].job] = "bound"
                => fate'[thread'[x][r].job] = "bound"
  PROVE  BindingControl'
<1>1. ASSUME NEW x \in Workers, NEW r \in Slots PROVE SlotControl(x, r)'
  <2>1. Steady(x, r) /\ SlotControl(x, r)
    BY DEF BindingControl
  <2>2. InJob(thread'[x][r]) /\ Owns(x, r)' => Owns(x, r)
    BY <2>1 DEF Steady, Owns
  <2> QED
    BY <2>1, <2>2 DEF Steady, SlotControl, Owns
<1>2. ASSUME NEW x \in Workers, NEW y \in Workers, NEW r \in Slots, NEW q \in Slots,
             x # y \/ r # q
      PROVE  Apart(x, r, y, q)'
  <2>1. Steady(x, r) /\ Steady(y, q) /\ Apart(x, r, y, q) /\ Apart(y, q, x, r)
    BY <1>2 DEF BindingControl
  <2>2. InJob(thread'[x][r]) => thread'[x][r].job # slot'[y][q].job
    <3>1. CASE slot'[y][q].job = None
      BY <2>1, <3>1, PoolAssumption DEF Steady, JobContexts
    <3>2. CASE slot'[y][q].job # None
      BY <2>1, <3>2 DEF Steady, Apart
    <3> QED
      BY <3>1, <3>2
  <2> QED
    BY <2>1, <2>2 DEF Steady, Apart
<1> QED
  BY <1>1, <1>2 DEF BindingControl

\* Such steps keep each delivery in the place it runs in, too, when they start
\* none and forget none.
LEMMA SteadyGuests ==
  ASSUME TypeOK, GuestControl,
         \A x \in Workers, r \in Slots : Steady(x, r),
         \A v \in VMs, t \in Slots : guest'[v][t] \in {guest[v][t], None},
         \A d \in Deliveries : fate[d] \notin {"new", "queued", "over"}
                                 => fate'[d] \notin {"new", "queued", "over"},
         \A v \in VMs : v \notin booted' =>
            v \notin draining' /\ \A t \in Slots : guest'[v][t] = None
  PROVE  GuestControl'
<1>1. ASSUME NEW v \in VMs, NEW t \in Slots, guest'[v][t] # None PROVE Placed(v, t)'
  <2>1. guest'[v][t] = guest[v][t] /\ Placed(v, t) /\ guest[v][t] \in Deliveries
    BY <1>1 DEF GuestControl, TypeOK
  <2>2. fate'[guest'[v][t]] \notin {"new", "queued", "over"}
    BY <2>1 DEF Placed
  <2>3. ASSUME NEW x \in Workers, NEW r \in Slots
        PROVE  /\ thread'[x][r].pc = "dispatch" => guest'[v][t] # thread'[x][r].job
               /\ InJob(thread'[x][r]) /\ guest'[v][t] = thread'[x][r].job => v = wvm'[x] /\ t = r
               /\ guest'[v][t] = slot'[x][r].job => v = vm'[x] /\ t = r
    <3>1. Steady(x, r)
      OBVIOUS
    <3> QED
      BY <1>1, <2>1, <3>1 DEF Steady, Placed, InJob
  <2> QED
    BY <2>2, <2>3 DEF Placed
<1>2. ASSUME NEW u \in VMs, NEW v \in VMs, NEW r \in Slots, NEW t \in Slots,
             guest'[v][r] # None, u # v \/ r # t
      PROVE  guest'[v][r] # guest'[u][t]
  BY <1>2 DEF GuestControl
<1> QED
  BY <1>1, <1>2 DEF GuestControl

\* CancelSlot frees a slot at most, and ends only a binding no goroutine holds.
LEMMA CancelSteady ==
  ASSUME TypeOK, JobContexts, BindingControl, NEW w \in Workers, NEW s \in Slots,
         CancelSlot(w, s), slot[w][s].job # None, UNCHANGED <<vm, nslots, wvm>>
  PROVE  \A x \in Workers, r \in Slots :
           /\ Steady(x, r)
           /\ slot'[x][r].job # None /\ fate[slot'[x][r].job] = "bound"
                => fate'[slot'[x][r].job] = "bound"
           /\ InJob(thread'[x][r]) /\ fate[thread'[x][r].job] = "bound"
                => fate'[thread'[x][r].job] = "bound"
<1> DEFINE old == thread[w][s]
           d == slot[w][s].job
           new == IF slot[w][s].adopted /\ ~slot[w][s].cancel
                    THEN EmptySlot ELSE WithCancel(slot[w][s], FALSE)
           thr == IF slot[w][s].cancel THEN Cancelled(old, "kill") ELSE old
           o == IF slot[w][s].adopted /\ ~slot[w][s].cancel /\ ~InJob(old)
                  THEN "killed" ELSE fate[d]
<1>1. /\ slot' = [slot EXCEPT ![w] = [slot[w] EXCEPT ![s] = new]]
      /\ thread' = [thread EXCEPT ![w] = [thread[w] EXCEPT ![s] = thr]]
      /\ recycle' = [recycle EXCEPT ![w] = TRUE]
      /\ fate' = [fate EXCEPT ![d] = o]
  BY DEF CancelSlot, TypeOK, Kill
<1>2. old \in ThreadType /\ d \in Deliveries /\ fate \in [Deliveries -> Fates]
  BY DEF TypeOK, SlotType
<1>3. /\ new.job \in {d, None}
      /\ slot[w][s].adopted /\ ~slot[w][s].cancel => new.job = None
      /\ thr.job = old.job /\ thr.pc = old.pc /\ (InJob(thr) <=> InJob(old))
  <2>1. new.job \in {d, None} /\ (slot[w][s].adopted /\ ~slot[w][s].cancel => new.job = None)
    BY DEF EmptySlot, WithCancel
  <2>2. thr.job = old.job /\ thr.pc = old.pc /\ (InJob(thr) <=> InJob(old))
    BY <1>2, CancelFacts, CancelKeepsPc DEF Kill
  <2> QED
    BY <2>1, <2>2
<1>4. o = fate[d] \/ (new.job = None /\ ~InJob(old))
  BY <1>3
<1> HIDE DEF old, d, new, thr, o
<1>5. ASSUME NEW x \in Workers, NEW r \in Slots, x # w \/ r # s
      PROVE  /\ slot'[x][r] = slot[x][r] /\ thread'[x][r] = thread[x][r]
             /\ slot[x][r].job # d
             /\ InJob(thread[x][r]) => thread[x][r].job # d
  <2>1. slot'[x][r] = slot[x][r] /\ thread'[x][r] = thread[x][r]
    BY <1>1, <1>5 DEF TypeOK
  <2>2. Apart(w, s, x, r) /\ Apart(x, r, w, s)
    BY <1>5 DEF BindingControl
  <2> QED
    BY <2>1, <2>2 DEF Apart, d
<1>6. slot'[w][s] = new /\ thread'[w][s] = thr
  BY <1>1 DEF TypeOK
<1>7. /\ recycle'[w] /\ \A x \in Workers : recycle[x] => recycle'[x]
      /\ \A e \in Deliveries : e # d => fate'[e] = fate[e]
      /\ fate'[d] = o
  BY <1>1, <1>2 DEF TypeOK
<1>8. \A x \in Workers, r \in Slots :
        /\ slot[x][r].job \in Deliveries \cup {None}
        /\ InJob(thread[x][r]) => thread[x][r].job \in Deliveries
  BY DEF TypeOK, SlotType, JobContexts
<1>9. ASSUME NEW x \in Workers, NEW r \in Slots
      PROVE  /\ Steady(x, r)
             /\ slot'[x][r].job # None /\ fate[slot'[x][r].job] = "bound"
                  => fate'[slot'[x][r].job] = "bound"
             /\ InJob(thread'[x][r]) /\ fate[thread'[x][r].job] = "bound"
                  => fate'[thread'[x][r].job] = "bound"
  <2>1. CASE x # w \/ r # s
    <3>1. /\ slot'[x][r] = slot[x][r] /\ thread'[x][r] = thread[x][r]
          /\ slot[x][r].job # d
          /\ InJob(thread[x][r]) => thread[x][r].job # d
      BY <1>5, <2>1
    <3>2. (recycle[x] => recycle'[x]) /\ vm'[x] = vm[x] /\ nslots'[x] = nslots[x] /\ wvm'[x] = wvm[x]
      BY <1>7
    <3>3. Steady(x, r)
      BY <3>1, <3>2 DEF Steady
    <3> QED
      BY <1>7, <1>8, <3>1, <3>3
  <2>2. CASE x = w /\ r = s
    <3>1. Steady(w, s)
      BY <1>3, <1>6, <1>7 DEF Steady, old, d
    <3>2. slot'[w][s].job # None => fate'[slot'[w][s].job] = fate[slot'[w][s].job]
      BY <1>3, <1>4, <1>6, <1>7
    <3>3. InJob(thread'[w][s]) => fate'[thread'[w][s].job] = fate[thread'[w][s].job]
      <4>1. thread'[w][s].job = old.job
        BY <1>3, <1>6
      <4>2. InJob(old) => old.job \in Deliveries
        BY <1>8 DEF old
      <4> QED
        BY <1>3, <1>4, <1>6, <1>7, <4>1, <4>2
    <3> QED
      BY <2>2, <3>1, <3>2, <3>3
  <2> QED
    BY <2>1, <2>2
<1> QED
  BY <1>9

\* workerLoop changes its own worker's entries only, and fate and queue not at all.
LEMMA WorkerFrame ==
  ASSUME TypeOK, NEW w \in Workers, WorkerLoop(w)
  PROVE  /\ UNCHANGED <<queue, jobsPerVM, started, ctxDone, shuttingDown, fate, restarts>>
         /\ \A x \in Workers \ {w} :
              /\ vm'[x] = vm[x] /\ recycle'[x] = recycle[x] /\ nslots'[x] = nslots[x]
              /\ slot'[x] = slot[x] /\ thread'[x] = thread[x]
              /\ wpc'[x] = wpc[x] /\ wvm'[x] = wvm[x]
<1> USE DEF TypeOK
<1>1. CASE ClaimWorker(w)  BY <1>1 DEF ClaimWorker
<1>2. CASE MarkWarming(w)  BY <1>2 DEF MarkWarming
<1>3. CASE WarmRequest(w)  BY <1>3 DEF WarmRequest
<1>4. CASE ActivateWorker(w)  BY <1>4 DEF ActivateWorker
<1>5. CASE MarkWarmError(w)  BY <1>5 DEF MarkWarmError
<1>6. CASE WarmRetry(w)  BY <1>6 DEF WarmRetry
<1>7. CASE StopForShutdown(w)  BY <1>7 DEF StopForShutdown
<1>8. CASE StopForRecycle(w)  BY <1>8 DEF StopForRecycle, OutOfService
<1>9. CASE SlotsJoined(w)  BY <1>9 DEF SlotsJoined, Leave
<1>10. CASE TeardownDrain(w)  BY <1>10 DEF TeardownDrain
<1>11. CASE TeardownDelete(w)  BY <1>11 DEF TeardownDelete
<1>12. CASE ClearWorker(w)  BY <1>12 DEF ClearWorker
<1> QED
  BY <1>1, <1>2, <1>3, <1>4, <1>5, <1>6, <1>7, <1>8, <1>9, <1>10, <1>11, <1>12 DEF WorkerLoop

\* workerLoop binds nothing, and resets slots only away from running jobs.
LEMMA WorkerSteady ==
  ASSUME TypeOK, WorkerControl, NEW w \in Workers, WorkerLoop(w)
  PROVE  \A x \in Workers, r \in Slots : Steady(x, r)
<1>1. ASSUME NEW x \in Workers \ {w}, NEW r \in Slots PROVE Steady(x, r)
  <2>1. /\ slot'[x][r] = slot[x][r] /\ thread'[x][r] = thread[x][r] /\ vm'[x] = vm[x]
        /\ recycle'[x] = recycle[x] /\ nslots'[x] = nslots[x] /\ wvm'[x] = wvm[x]
    BY WorkerFrame
  <2> QED
    BY <2>1 DEF Steady
<1>2. ASSUME NEW r \in Slots PROVE Steady(w, r)
  <2>1. thread[w][r].pc # "off" => wpc[w] \in {"run", "joinRecycle", "joinStop"}
    BY DEF WorkerControl
  <2>2. ASSUME ~InJob(thread'[w][r]), thread'[w][r].pc # "stalled",
               slot'[w][r].job = None \/ (slot'[w] = slot[w] /\ vm'[w] = vm[w] /\ nslots'[w] = nslots[w])
        PROVE  Steady(w, r)
    BY <2>2 DEF Steady
  <2>3. ASSUME thread' = thread, wpc[w] \notin {"run", "joinRecycle", "joinStop"},
               slot'[w][r].job = None \/ (slot'[w] = slot[w] /\ vm'[w] = vm[w] /\ nslots'[w] = nslots[w])
        PROVE  Steady(w, r)
    BY <2>1, <2>2, <2>3 DEF InJob
  <2>4. AllEmpty[r].job = None /\ \A n : Launched(n)[r].pc \in {"start", "off"}
    BY DEF AllEmpty, EmptySlot, Launched, At, Off
  <2>5. Detach(thread[w][r]).pc = thread[w][r].pc /\ Detach(thread[w][r]).job = thread[w][r].job
        /\ (InJob(Detach(thread[w][r])) <=> InJob(thread[w][r]))
        /\ (Detach(thread[w][r]).cause = "kill" => thread[w][r].cause = "kill")
    <3>1. thread[w][r] \in ThreadType
      BY DEF TypeOK
    <3> QED
      BY <3>1 DEF Detach, Cancelled, InJob, ThreadType
  <2> USE DEF TypeOK
  <2>6. CASE ClaimWorker(w)
    <3>1. CASE thread' = thread
      BY <2>3, <2>6, <3>1 DEF ClaimWorker
    <3>2. CASE thread' = [thread EXCEPT ![w] = Launched(nslots[w])]
      <4>1. thread'[w][r] = Launched(nslots[w])[r]
        BY <3>2
      <4> QED
        BY <2>2, <2>4, <2>6, <4>1 DEF ClaimWorker, InJob
    <3> QED
      BY <2>6, <3>1, <3>2 DEF ClaimWorker
  <2>7. CASE MarkWarming(w)  BY <2>3, <2>4, <2>7 DEF MarkWarming
  <2>8. CASE WarmRequest(w)  BY <2>3, <2>8 DEF WarmRequest
  <2>9. CASE ActivateWorker(w)
    <3>1. thread'[w][r] = Launched(wcount[w])[r] /\ slot'[w] = AllEmpty
      BY <2>9 DEF ActivateWorker
    <3> QED
      BY <2>2, <2>4, <3>1 DEF InJob
  <2>10. CASE MarkWarmError(w)  BY <2>3, <2>4, <2>10 DEF MarkWarmError
  <2>11. CASE WarmRetry(w)  BY <2>3, <2>11 DEF WarmRetry
  <2>12. CASE StopForShutdown(w)
    <3>1. thread'[w][r] = Detach(thread[w][r])
      BY <2>12 DEF StopForShutdown
    <3>2. UNCHANGED <<slot, vm, recycle, nslots, wvm>>
      BY <2>12 DEF StopForShutdown
    <3> HIDE DEF TypeOK
    <3> QED
      BY <2>5, <3>1, <3>2 DEF Steady
  <2>13. CASE StopForRecycle(w)
    <3>1. thread'[w][r] = Detach(thread[w][r]) /\ slot'[w] = AllEmpty /\ vm'[w] = None /\ wvm' = wvm
      BY <2>13 DEF StopForRecycle, OutOfService
    <3> HIDE DEF TypeOK
    <3> QED
      BY <2>4, <2>5, <3>1 DEF Steady
  <2>14. CASE SlotsJoined(w)
    <3>1. thread'[w][r].pc = "off" /\ UNCHANGED <<slot, vm, nslots>>
      BY <2>14 DEF SlotsJoined, Leave
    <3> QED
      BY <2>2, <3>1 DEF InJob
  <2>15. CASE TeardownDrain(w)  BY <2>3, <2>15 DEF TeardownDrain
  <2>16. CASE TeardownDelete(w)  BY <2>3, <2>16 DEF TeardownDelete
  <2>17. CASE ClearWorker(w)  BY <2>3, <2>4, <2>17 DEF ClearWorker
  <2> QED
    BY <2>6, <2>7, <2>8, <2>9, <2>10, <2>11, <2>12, <2>13, <2>14, <2>15, <2>16, <2>17
       DEF WorkerLoop
<1> QED
  BY <1>1, <1>2

\* The bindings of the pool as a whole: queue, slots and goroutines, guests.
Bound == QueueControl /\ BindingControl /\ GuestControl

\* workerLoop starts no execution, and leaves nothing of a VM it deletes.
LEMMA WorkerGuests ==
  ASSUME TypeOK, WorkerControl, GuestControl, NEW w \in Workers, WorkerLoop(w)
  PROVE  /\ \A v \in VMs, t \in Slots : guest'[v][t] \in {guest[v][t], None}
         /\ \A v \in VMs : v \notin booted' =>
              v \notin draining' /\ \A t \in Slots : guest'[v][t] = None
<1>1. \A v \in VMs : v \notin booted => v \notin draining /\ \A t \in Slots : guest[v][t] = None
  BY DEF GuestControl
<1>2. CASE UNCHANGED guestVars
  BY <1>1, <1>2 DEF guestVars
<1>3. CASE ActivateWorker(w)
  BY <1>1, <1>3 DEF ActivateWorker
<1>4. CASE TeardownDrain(w)
  BY <1>1, <1>4 DEF TeardownDrain, WorkerControl
<1>5. CASE TeardownDelete(w) /\ ~UNCHANGED guestVars
  <2>1. /\ booted' = booted \ {wvm[w]} /\ draining' = draining \ {wvm[w]}
        /\ guest' = [guest EXCEPT ![wvm[w]] = NoGuest]
    BY <1>5 DEF TeardownDelete
  <2>2. guest \in [VMs -> [Slots -> Deliveries \cup {None}]]
    BY DEF TypeOK
  <2>3. \A v \in VMs : guest'[v] = IF v = wvm[w] THEN NoGuest ELSE guest[v]
    BY <2>1, <2>2
  <2>4. \A t \in Slots : NoGuest[t] = None
    BY DEF NoGuest
  <2> QED
    BY <1>1, <2>1, <2>3, <2>4
<1> QED
  BY <1>2, <1>3, <1>4, <1>5 DEF WorkerLoop, ClaimWorker, MarkWarming, WarmRequest, MarkWarmError,
     WarmRetry, StopForShutdown, StopForRecycle, OutOfService, SlotsJoined, Leave, ClearWorker

\* workerLoop keeps the bindings.
LEMMA WorkerBound ==
  ASSUME TypeOK, WorkerControl, JobContexts, Bound, NEW w \in Workers, WorkerLoop(w)
  PROVE  Bound'
<1>1. UNCHANGED <<queue, started, fate>>
  BY WorkerFrame
<1>2. \A x \in Workers, r \in Slots : Steady(x, r)
  BY WorkerSteady
<1>3. QueueControl'
  BY <1>1 DEF Bound, QueueControl
<1>4. BindingControl'
  BY <1>1, <1>2, SteadyBindings DEF Bound
<1>5. /\ \A v \in VMs, t \in Slots : guest'[v][t] \in {guest[v][t], None}
      /\ \A v \in VMs : v \notin booted' => v \notin draining' /\ \A t \in Slots : guest'[v][t] = None
  BY WorkerGuests DEF Bound
<1>6. GuestControl'
  BY <1>1, <1>2, <1>5, SteadyGuests DEF Bound
<1> QED
  BY <1>3, <1>4, <1>6 DEF Bound

\* A step that moves no VM and no job, and at most detaches goroutines, binds
\* nothing.
LEMMA StillSteady ==
  ASSUME TypeOK, UNCHANGED <<vm, nslots, wvm>>,
         \A x \in Workers : recycle[x] => recycle'[x],
         NEW x \in Workers, NEW r \in Slots, slot'[x][r].job = slot[x][r].job,
         thread'[x][r] \in {thread[x][r], Detach(thread[x][r])}
  PROVE  Steady(x, r)
<1>1. thread[x][r] \in ThreadType
  BY DEF TypeOK
<1>2. /\ thread'[x][r].pc = thread[x][r].pc /\ thread'[x][r].job = thread[x][r].job
      /\ thread'[x][r].cause = "kill" => thread[x][r].cause = "kill"
  BY <1>1 DEF Detach, Cancelled, ThreadType
<1> QED
  BY <1>2 DEF Steady, InJob

\* Cancelling the job of a slot keeps the bindings.
LEMMA CancelBound ==
  ASSUME TypeOK, JobContexts, Bound, NEW w \in Workers, NEW s \in Slots,
         CancelSlot(w, s), slot[w][s].job # None,
         UNCHANGED <<queue, started, vm, nslots, wvm, guestVars>>
  PROVE  Bound'
<1>1. slot[w][s].job \in Deliveries /\ fate[slot[w][s].job] = "bound" /\ fate \in [Deliveries -> Fates]
  BY DEF Bound, BindingControl, SlotControl, TypeOK, SlotType
<1>2. \E o \in {"bound", "killed"} : fate' = [fate EXCEPT ![slot[w][s].job] = o]
  BY <1>1 DEF CancelSlot
<1>3. /\ \A d \in Deliveries : fate[d] # "bound" => fate'[d] = fate[d]
      /\ \A d \in Deliveries : fate[d] = "bound" => fate'[d] \in {"bound", "killed"}
  BY <1>1, <1>2
<1>4. QueueControl'
  <2>1. queue \in Seq(Deliveries) /\ \A i \in 1 .. Len(queue) : queue[i] \in Deliveries
    BY DEF TypeOK
  <2> QED
    BY <1>1, <1>3, <2>1 DEF Bound, QueueControl
<1>5. BindingControl'
  BY CancelSteady, SteadyBindings DEF Bound
<1>6. GuestControl'
  <2>1. \A x \in Workers, r \in Slots : Steady(x, r)
    BY CancelSteady DEF Bound
  <2>2. \A d \in Deliveries : fate[d] \notin {"new", "queued", "over"}
                                 => fate'[d] \notin {"new", "queued", "over"}
    BY <1>3
  <2>3. \A v \in VMs : v \notin booted' => v \notin draining' /\ \A t \in Slots : guest'[v][t] = None
    BY DEF Bound, GuestControl, guestVars
  <2>4. \A v \in VMs, t \in Slots : guest'[v][t] \in {guest[v][t], None}
    BY DEF guestVars
  <2> QED
    BY <2>1, <2>2, <2>3, <2>4, SteadyGuests DEF Bound
<1> QED
  BY <1>4, <1>5, <1>6 DEF Bound

\* So does a step that binds nothing, ends nothing, and starts nothing.
LEMMA StillBound ==
  ASSUME TypeOK, JobContexts, Bound,
         UNCHANGED <<queue, started, vm, nslots, wvm, booted, draining, fate>>,
         \A x \in Workers : recycle[x] => recycle'[x],
         \A x \in Workers, r \in Slots :
           /\ slot'[x][r].job = slot[x][r].job
           /\ thread'[x][r] \in {thread[x][r], Detach(thread[x][r])},
         \A v \in VMs, t \in Slots : guest'[v][t] \in {guest[v][t], None}
  PROVE  Bound'
<1>1. \A x \in Workers, r \in Slots : Steady(x, r)
  BY StillSteady
<1>2. QueueControl'
  BY DEF Bound, QueueControl
<1>3. BindingControl'
  BY <1>1, SteadyBindings DEF Bound
<1>4. \A v \in VMs : v \notin booted' => v \notin draining' /\ \A t \in Slots : guest'[v][t] = None
  BY DEF Bound, GuestControl
<1>5. GuestControl'
  BY <1>1, <1>4, SteadyGuests DEF Bound
<1> QED
  BY <1>2, <1>3, <1>5 DEF Bound

\* A delivery that arrives is in no slot and no guest.
LEMMA EnqueueBound ==
  ASSUME TypeOK, JobContexts, Bound, NEW d \in Deliveries, Enqueue(d)
  PROVE  Bound'
<1>1. /\ queue \in Seq(Deliveries) /\ queue' = Append(queue, d)
      /\ fate[d] = "new" /\ fate' = [fate EXCEPT ![d] = "queued"]
      /\ fate \in [Deliveries -> Fates]
      /\ UNCHANGED <<started, vm, recycle, nslots, slot, wvm, thread, booted, draining, guest>>
  BY DEF Enqueue, TypeOK, stateVars, loopVars, guestVars
<1>2. /\ \A e \in Deliveries : e # d => fate'[e] = fate[e]
      /\ fate'[d] = "queued"
  BY <1>1
<1>3. /\ Len(queue) \in Nat /\ Len(queue') = Len(queue) + 1
      /\ queue'[Len(queue) + 1] = d
      /\ \A i \in 1 .. Len(queue) : queue'[i] = queue[i] /\ queue[i] \in Deliveries
  BY <1>1
<1>4. \A i \in 1 .. Len(queue) : queue[i] # d /\ fate[queue[i]] = "queued"
  BY <1>1 DEF Bound, QueueControl
<1>5. \A i \in 1 .. Len(queue') : i \in 1 .. Len(queue) \/ i = Len(queue) + 1
  BY <1>3
<1>6. QueueControl'
  <2>1. \A i \in 1 .. Len(queue') : fate'[queue'[i]] = "queued"
    BY <1>2, <1>3, <1>4, <1>5
  <2>2. \A i, j \in 1 .. Len(queue') : queue'[i] = queue'[j] => i = j
    BY <1>3, <1>4, <1>5 DEF Bound, QueueControl
  <2>3. ~started' => \A e \in Deliveries : fate'[e] # "bound"
    BY <1>1, <1>2 DEF Bound, QueueControl
  <2> QED
    BY <2>1, <2>2, <2>3 DEF QueueControl
<1>7. \A x \in Workers, r \in Slots : Steady(x, r)
  BY <1>1 DEF Steady
<1>8. BindingControl'
  <2>1. \A x \in Workers, r \in Slots :
          /\ slot'[x][r].job \in Deliveries \cup {None}
          /\ InJob(thread'[x][r]) => thread'[x][r].job \in Deliveries
    BY <1>1 DEF TypeOK, SlotType, JobContexts
  <2> QED
    BY <1>1, <1>2, <1>7, <2>1, SteadyBindings DEF Bound
<1>9. GuestControl'
  <2>1. \A v \in VMs : v \notin booted' => v \notin draining' /\ \A t \in Slots : guest'[v][t] = None
    BY <1>1 DEF Bound, GuestControl
  <2> QED
    BY <1>1, <1>2, <1>7, <2>1, SteadyGuests DEF Bound
<1> QED
  BY <1>6, <1>8, <1>9 DEF Bound

\* A new process starts with nothing bound.
LEMMA RestartBound ==
  ASSUME TypeOK, Bound, Restart
  PROVE  Bound'
<1>1. /\ queue' = <<>>
      /\ slot' = [w \in Workers |-> AllEmpty] /\ thread' = [w \in Workers |-> AllOff]
      /\ UNCHANGED <<booted, draining, guest>>
      /\ fate' = [d \in Deliveries |-> IF fate[d] = "queued" THEN "over"
                                       ELSE IF fate[d] = "bound" THEN "detached" ELSE fate[d]]
  BY DEF Restart, guestVars
<1>2. \A w \in Workers, s \in Slots : slot'[w][s].job = None /\ thread'[w][s] = Off
  BY <1>1 DEF AllEmpty, EmptySlot, AllOff
<1>3. \A w \in Workers, s \in Slots : ~InJob(thread'[w][s]) /\ thread'[w][s].pc = "off"
  BY <1>2 DEF InJob, Off, At
<1>4. QueueControl'
  BY <1>1 DEF QueueControl
<1>5. BindingControl'
  BY <1>2, <1>3 DEF BindingControl, SlotControl, Apart
<1>6. GuestControl'
  <2>1. ASSUME NEW v \in VMs, NEW t \in Slots, guest'[v][t] # None PROVE Placed(v, t)'
    <3>1. guest'[v][t] = guest[v][t] /\ Placed(v, t) /\ guest[v][t] \in Deliveries
      BY <1>1, <2>1 DEF Bound, GuestControl, TypeOK
    <3> QED
      BY <1>1, <1>2, <1>3, <2>1, <3>1 DEF Placed
  <2>2. \A v \in VMs : v \notin booted' => v \notin draining' /\ \A t \in Slots : guest'[v][t] = None
    BY <1>1 DEF Bound, GuestControl
  <2>3. \A u, v \in VMs, s, t \in Slots :
          guest'[v][s] # None /\ (u # v \/ s # t) => guest'[v][s] # guest'[u][t]
    BY <1>1 DEF Bound, GuestControl
  <2> QED
    BY <2>1, <2>2, <2>3 DEF GuestControl
<1> QED
  BY <1>4, <1>5, <1>6 DEF Bound

\* What a start does to the VMs it takes over: each slot that it fills holds
\* the execution of the same slot of its VM, and what it deletes is idle.
Adopts(w, s) ==
  /\ vm'[w] \in VMs /\ s < nslots'[w]
  /\ slot'[w][s].job = guest[vm'[w]][s] /\ guest[vm'[w]][s] # None
  /\ slot'[w][s].adopted /\ ~slot'[w][s].cancel

LEMMA StartFacts ==
  ASSUME TypeOK, WorkerControl, Start
  PROVE  /\ vm' \in [Workers -> VMs \cup {None}]
         /\ \A w \in Workers : vm'[w] # None => vm'[w] \in booted /\ vm'[w] \in booted'
         /\ \A w, x \in Workers : w # x /\ vm'[w] # None => vm'[w] # vm'[x]
         /\ \A w \in Workers : nslots'[w] = jobsPerVM
         /\ \A w \in Workers, s \in Slots : slot'[w][s].job # None => Adopts(w, s)
         /\ \A w \in Workers, s \in Slots :
              vm'[w] # None /\ s < jobsPerVM /\ guest[vm'[w]][s] # None => slot'[w][s].job # None
         /\ \A w \in Workers, s \in Slots : thread'[w][s].pc = "off"
         /\ \A v \in VMs : v \notin booted' =>
              v \notin booted \/ (v \notin draining' /\ \A s \in Slots : guest'[v][s] = None)
         /\ booted' \subseteq booted /\ draining' \subseteq draining
         /\ \A v \in VMs, s \in Slots : guest'[v][s] \in {guest[v][s], None}
         /\ \A v \in VMs : v \in booted' \/ v \notin booted => guest'[v] = guest[v]
         /\ \A v \in booted \ booted', s \in Slots : s < jobsPerVM => guest[v][s] = None
         /\ fate' = [d \in Deliveries |->
               IF \E w \in Workers, s \in Slots : slot'[w][s].job = d THEN "bound" ELSE fate[d]]
         /\ started' /\ ~started
         /\ UNCHANGED <<queue, jobsPerVM, ctxDone, wvm, thread, recycle, restarts>>
         /\ wpc' = [w \in Workers |-> "claim"]
<1>0. PICK reach \in SUBSET booted : \E place \in [Workers -> reach \cup {None}] :
        LET busyVMs == {v \in reach : Bindings(v) # {}}
            chosen  == {place[w] : w \in Workers} \ {None}
            excess  == (reach \ busyVMs) \ chosen
        IN /\ \A w, x \in Workers : place[w] = place[x] /\ w # x => place[w] = None
           /\ vm' = place
           /\ nslots' = [w \in Workers |-> jobsPerVM]
           /\ slot' = [w \in Workers |->
                 IF place[w] = None THEN AllEmpty
                 ELSE [s \in Slots |-> IF s \in Bindings(place[w])
                                         THEN AdoptedSlot(guest[place[w]][s])
                                         ELSE EmptySlot]]
           /\ booted' = booted \ excess
           /\ draining' = draining \ excess
           /\ guest' = [v \in VMs |-> IF v \in excess THEN NoGuest ELSE guest[v]]
           /\ fate' = [d \in Deliveries |->
                 IF \E w \in Workers, s \in Slots : slot'[w][s].job = d
                   THEN "bound" ELSE fate[d]]
  BY DEF Start
<1>1. PICK place \in [Workers -> reach \cup {None}] :
        LET busyVMs == {v \in reach : Bindings(v) # {}}
            chosen  == {place[w] : w \in Workers} \ {None}
            excess  == (reach \ busyVMs) \ chosen
        IN /\ \A w, x \in Workers : place[w] = place[x] /\ w # x => place[w] = None
           /\ vm' = place
           /\ nslots' = [w \in Workers |-> jobsPerVM]
           /\ slot' = [w \in Workers |->
                 IF place[w] = None THEN AllEmpty
                 ELSE [s \in Slots |-> IF s \in Bindings(place[w])
                                         THEN AdoptedSlot(guest[place[w]][s])
                                         ELSE EmptySlot]]
           /\ booted' = booted \ excess
           /\ draining' = draining \ excess
           /\ guest' = [v \in VMs |-> IF v \in excess THEN NoGuest ELSE guest[v]]
           /\ fate' = [d \in Deliveries |->
                 IF \E w \in Workers, s \in Slots : slot'[w][s].job = d
                   THEN "bound" ELSE fate[d]]
  BY <1>0
<1> DEFINE busyVMs == {v \in reach : Bindings(v) # {}}
           chosen  == {place[w] : w \in Workers} \ {None}
           excess  == (reach \ busyVMs) \ chosen
<1>2. /\ \A w, x \in Workers : place[w] = place[x] /\ w # x => place[w] = None
      /\ vm' = place
      /\ nslots' = [w \in Workers |-> jobsPerVM]
      /\ booted' = booted \ excess
      /\ draining' = draining \ excess
      /\ guest' = [v \in VMs |-> IF v \in excess THEN NoGuest ELSE guest[v]]
      /\ fate' = [d \in Deliveries |->
            IF \E w \in Workers, s \in Slots : slot'[w][s].job = d
              THEN "bound" ELSE fate[d]]
  BY <1>1
<1>3. \A w \in Workers, s \in Slots :
        slot'[w][s] = IF place[w] # None /\ s \in Bindings(place[w])
                        THEN AdoptedSlot(guest[place[w]][s]) ELSE EmptySlot
  BY <1>1 DEF AllEmpty
<1>4. /\ ~started /\ started' /\ wpc' = [w \in Workers |-> "claim"]
      /\ UNCHANGED <<queue, jobsPerVM, ctxDone, wvm, thread, recycle, restarts>>
  BY DEF Start
<1>5. /\ booted \subseteq VMs /\ draining \subseteq VMs /\ jobsPerVM \in SlotCounts
      /\ guest \in [VMs -> [Slots -> Deliveries \cup {None}]]
  BY DEF TypeOK
<1>6. \A w \in Workers : place[w] # None => place[w] \in booted /\ place[w] \in VMs /\ place[w] \notin excess
  BY <1>5
<1>7. \A v \in excess : Bindings(v) = {} /\ v \in booted
  OBVIOUS
<1> HIDE DEF excess, busyVMs, chosen
<1>8. \A w \in Workers, s \in Slots : thread'[w][s].pc = "off"
  BY <1>4 DEF WorkerControl
<1>9. \A w \in Workers, s \in Slots :
        s \in Bindings(place[w]) <=> s < jobsPerVM /\ guest[place[w]][s] # None
  BY DEF Bindings
<1>10. /\ \A w \in Workers : vm'[w] = place[w] /\ nslots'[w] = jobsPerVM
       /\ \A d : AdoptedSlot(d).job = d /\ AdoptedSlot(d).adopted /\ ~AdoptedSlot(d).cancel
       /\ EmptySlot.job = None
  BY <1>2 DEF AdoptedSlot, EmptySlot
<1>11. ASSUME NEW w \in Workers, NEW s \in Slots, slot'[w][s].job # None PROVE Adopts(w, s)
  <2>1. place[w] # None /\ s \in Bindings(place[w]) /\ slot'[w][s] = AdoptedSlot(guest[place[w]][s])
    BY <1>3, <1>10, <1>11
  <2> QED
    BY <1>6, <1>9, <1>10, <2>1 DEF Adopts
<1>12. ASSUME NEW w \in Workers, NEW s \in Slots,
              vm'[w] # None, s < jobsPerVM, guest[vm'[w]][s] # None
       PROVE  slot'[w][s].job # None
  <2>1. place[w] # None /\ s \in Bindings(place[w]) /\ guest[place[w]][s] # None
    BY <1>9, <1>10, <1>12
  <2>2. slot'[w][s] = AdoptedSlot(guest[place[w]][s])
    BY <1>3, <2>1
  <2> QED
    BY <1>10, <2>1, <2>2
<1>13. \A v \in VMs : guest'[v] = IF v \in excess THEN NoGuest ELSE guest[v]
  BY <1>2
<1>14. \A v \in booted \ booted', s \in Slots : s < jobsPerVM => guest[v][s] = None
  BY <1>2, <1>7 DEF Bindings
<1>15. \A v \in VMs, s \in Slots : guest'[v][s] \in {guest[v][s], None}
  BY <1>13 DEF NoGuest
<1>16. \A v \in VMs : v \notin booted' =>
              v \notin booted \/ (v \notin draining' /\ \A s \in Slots : guest'[v][s] = None)
  BY <1>2, <1>13 DEF NoGuest
<1>17. \A v \in VMs : v \in booted' \/ v \notin booted => guest'[v] = guest[v]
  BY <1>2, <1>7, <1>13
<1>18. vm' \in [Workers -> VMs \cup {None}]
  BY <1>2, <1>5
<1>19. \A w \in Workers : vm'[w] # None => vm'[w] \in booted /\ vm'[w] \in booted'
  BY <1>2, <1>6
<1> QED
  BY <1>2, <1>4, <1>8, <1>10, <1>11, <1>12, <1>14, <1>15, <1>16, <1>17, <1>18, <1>19

\* Adoption binds each running execution at most once.
LEMMA StartBound ==
  ASSUME TypeOK, WorkerControl, Bound, Start
  PROVE  Bound'
<1>1. \A w \in Workers, s \in Slots : slot'[w][s].job # None => Adopts(w, s)
  BY StartFacts
<1>2. \A w \in Workers, s \in Slots : ~InJob(thread'[w][s]) /\ thread'[w][s].pc = "off"
  BY StartFacts DEF InJob
<1>3. \A u, v \in VMs, s, t \in Slots :
        guest[v][s] # None /\ (u # v \/ s # t) => guest[v][s] # guest[u][t]
  BY DEF Bound, GuestControl
<1>4. /\ \A d \in Deliveries : fate'[d] \in {fate[d], "bound"}
      /\ \A w \in Workers, s \in Slots : slot'[w][s].job \in Deliveries => fate'[slot'[w][s].job] = "bound"
      /\ \A d \in Deliveries : fate'[d] # fate[d] => \E w \in Workers, s \in Slots : slot'[w][s].job = d
  BY StartFacts
<1>5. \A v \in VMs, t \in Slots : guest[v][t] # None => Placed(v, t) /\ guest[v][t] \in Deliveries
  BY DEF Bound, GuestControl, TypeOK
<1>6. \A w, x \in Workers : w # x /\ vm'[w] # None => vm'[w] # vm'[x]
  BY StartFacts
<1>7. QueueControl'
  <2>1. queue' = queue /\ started' /\ \A i \in 1 .. Len(queue) : queue[i] \in Deliveries
    BY StartFacts DEF TypeOK
  <2>2. ASSUME NEW i \in 1 .. Len(queue) PROVE fate'[queue[i]] = "queued"
    <3>1. fate[queue[i]] = "queued" /\ queue[i] \in Deliveries
      BY <2>1 DEF Bound, QueueControl
    <3>2. SUFFICES ASSUME NEW w \in Workers, NEW s \in Slots, slot'[w][s].job = queue[i] PROVE FALSE
      BY <1>4, <3>1
    <3>3. Adopts(w, s)
      BY <1>1, <3>1, <3>2, PoolAssumption
    <3> QED
      BY <1>5, <3>1, <3>2, <3>3 DEF Adopts, Placed
  <2> QED
    BY <2>1, <2>2 DEF Bound, QueueControl
<1>8. BindingControl'
  <2>1. ASSUME NEW w \in Workers, NEW s \in Slots PROVE SlotControl(w, s)'
    BY <1>1, <1>2, <1>4, <1>5, PoolAssumption DEF SlotControl, Adopts
  <2>2. ASSUME NEW w \in Workers, NEW x \in Workers, NEW s \in Slots, NEW t \in Slots,
               w # x \/ s # t, slot'[w][s].job # None
        PROVE  slot'[w][s].job # slot'[x][t].job
    <3>1. CASE slot'[x][t].job = None
      BY <2>2, <3>1
    <3>2. CASE slot'[x][t].job # None
      <4>1. Adopts(w, s) /\ Adopts(x, t)
        BY <1>1, <2>2, <3>2
      <4>2. vm'[w] # vm'[x] \/ s # t
        BY <1>6, <2>2, <4>1, PoolAssumption DEF Adopts
      <4> QED
        BY <1>3, <4>1, <4>2 DEF Adopts
    <3> QED
      BY <3>1, <3>2
  <2> QED
    BY <1>2, <2>1, <2>2 DEF BindingControl, Apart
<1>9. GuestControl'
  <2>1. ASSUME NEW v \in VMs, NEW t \in Slots, guest'[v][t] # None PROVE Placed(v, t)'
    <3>1. guest'[v][t] = guest[v][t] /\ Placed(v, t) /\ guest[v][t] \in Deliveries
      BY <1>5, <2>1, StartFacts
    <3>2. fate'[guest'[v][t]] \notin {"new", "queued", "over"}
      BY <1>4, <3>1 DEF Placed
    <3>3. ASSUME NEW w \in Workers, NEW s \in Slots, guest'[v][t] = slot'[w][s].job
          PROVE  v = vm'[w] /\ t = s
      <4>1. Adopts(w, s)
        BY <1>1, <2>1, <3>3
      <4> QED
        <5>1. vm'[w] \in VMs /\ guest[v][t] = guest[vm'[w]][s] /\ guest[v][t] # None
          BY <2>1, <3>1, <3>3, <4>1 DEF Adopts
        <5> QED
          BY <1>3, <5>1
    <3> QED
      BY <1>2, <3>2, <3>3 DEF Placed
  <2>2. \A v \in VMs : v \notin booted' => v \notin draining' /\ \A t \in Slots : guest'[v][t] = None
    <3>1. \A v \in VMs : v \notin booted => v \notin draining /\ \A t \in Slots : guest[v][t] = None
      BY DEF Bound, GuestControl
    <3>2. \A v \in VMs, t \in Slots : guest'[v][t] \in {guest[v][t], None}
      BY StartFacts
    <3> QED
      BY <3>1, <3>2, StartFacts
  <2>3. \A u, v \in VMs, s, t \in Slots :
          guest'[v][s] # None /\ (u # v \/ s # t) => guest'[v][s] # guest'[u][t]
    <3>1. \A v \in VMs, t \in Slots : guest'[v][t] \in {guest[v][t], None}
      BY StartFacts
    <3> QED
      BY <1>3, <3>1
  <2> QED
    BY <2>1, <2>2, <2>3 DEF GuestControl
<1> QED
  BY <1>7, <1>8, <1>9 DEF Bound

\* Warning about a slot leaves its job alone.
LEMMA WarnedJobs ==
  ASSUME TypeOK, NEW c \in doomed, ClaimSlotReapWarning(c)
  PROVE  \A x \in Workers, r \in Slots : slot'[x][r].job = slot[x][r].job
<1>1. c.w \in Workers /\ c.s \in Slots
  BY DEF TypeOK, BusyType
<1>2. Warned(slot[c.w][c.s]).job = slot[c.w][c.s].job
  BY DEF Warned
<1>3. CASE slot' = [slot EXCEPT ![c.w][c.s] = Warned(@)]
  BY <1>1, <1>2, <1>3 DEF TypeOK
<1> QED
  BY <1>3 DEF ClaimSlotReapWarning

\* The reconciler cancels jobs of slots, and otherwise only marks.
LEMMA ReconcileBound ==
  ASSUME TypeOK, JobContexts, Bound, Reconcile
  PROVE  Bound'
<1>1. CASE RequestBusyRecycle
  <2>1. claimed \in BusyType /\ claimed.w \in Workers /\ claimed.s \in Slots
        /\ claimed.job \in Deliveries
    BY <1>1 DEF RequestBusyRecycle, BusyType, TypeOK
  <2>2. CASE SameBinding(claimed) /\ CancelSlot(claimed.w, claimed.s)
    <3>1. slot[claimed.w][claimed.s].job # None
      BY <2>1, <2>2, PoolAssumption DEF SameBinding
    <3>2. UNCHANGED <<queue, started, vm, nslots, wvm, guestVars>>
      BY <1>1 DEF RequestBusyRecycle, poolVars, loopVars
    <3> QED
      BY <2>1, <2>2, <3>1, <3>2, CancelBound
  <2>3. CASE UNCHANGED <<recycle, slot, thread, fate>>
    BY <1>1, <2>3, StillBound DEF RequestBusyRecycle, poolVars, loopVars, guestVars
  <2> QED
    BY <1>1, <2>2, <2>3 DEF RequestBusyRecycle
<1>2. ASSUME NEW c \in doomed, ClaimSlotReapWarning(c) PROVE Bound'
  <2>1. UNCHANGED <<queue, started, vm, nslots, recycle, wvm, thread, booted, draining, guest, fate>>
    BY <1>2 DEF ClaimSlotReapWarning, poolVars, loopVars, guestVars
  <2>2. \A x \in Workers, r \in Slots : slot'[x][r].job = slot[x][r].job
    BY <1>2, WarnedJobs
  <2> QED
    BY <2>1, <2>2, StillBound
<1>3. ASSUME NEW c \in idle, ReconcileIdle(c) PROVE Bound'
  <2>1. c.w \in Workers
    BY DEF TypeOK, IdleType
  <2>2. UNCHANGED <<queue, started, vm, nslots, slot, wvm, thread, booted, draining, guest, fate>>
    BY <1>3 DEF ReconcileIdle, poolVars, loopVars, guestVars
  <2>3. \A x \in Workers : recycle[x] => recycle'[x]
    BY <1>3, <2>1 DEF ReconcileIdle, TypeOK
  <2> QED
    BY <2>2, <2>3, StillBound
<1>4. CASE UNCHANGED <<poolVars, stateVars, loopVars, thread, guestVars, fate>>
  BY <1>4, StillBound DEF poolVars, stateVars, loopVars, guestVars
<1> QED
  BY <1>1, <1>2, <1>3, <1>4 DEF Reconcile, ReconcileBegins, PastMaxBind, Condemn,
     PastPickupTimeout, ReapEnds, ReconcileEnds

\* Every step keeps the bindings.
LEMMA BoundStep ==
  ASSUME TypeOK, WorkerControl, JobContexts, Bound, [Next]_vars
  PROVE  Bound'
<1>1. ASSUME NEW d \in Deliveries, CancelRun(d) PROVE Bound'
  <2>1. PICK w \in Workers, s \in Slots : slot[w][s].job # None /\ CancelSlot(w, s)
    BY <1>1 DEF CancelRun
  <2>2. UNCHANGED <<queue, started, vm, nslots, wvm, guestVars>>
    BY <1>1 DEF CancelRun, poolVars, loopVars
  <2> QED
    BY <2>1, <2>2, CancelBound
<1>2. CASE Shutdown \/ ContextDone
  <2>1. /\ thread' = [w \in Workers |-> [s \in Slots |-> Detach(thread[w][s])]]
        /\ UNCHANGED <<queue, started, stateVars, loopVars, guestVars, fate>>
    BY <1>2 DEF Shutdown, ContextDone
  <2>2. \A x \in Workers, r \in Slots : thread'[x][r] = Detach(thread[x][r])
    BY <2>1
  <2> QED
    BY <2>1, <2>2, StillBound DEF stateVars, loopVars, guestVars
<1>3. CASE UNCHANGED <<queue, started, stateVars, loopVars, thread, guestVars, fate>>
  BY <1>3, StillBound DEF stateVars, loopVars, guestVars
<1>4. ASSUME NEW n \in Requests, Reconfigure(n) PROVE Bound'
  BY <1>3, <1>4 DEF Reconfigure
<1>5. CASE ContextWatcher
  BY <1>3, <1>5 DEF ContextWatcher
<1>6. CASE UNCHANGED vars
  BY <1>3, <1>6 DEF vars, poolVars
<1>7. ASSUME NEW v \in VMs, NEW s \in Slots, GuestExit(v, s) PROVE Bound'
  <2>1. \A u \in VMs, t \in Slots : guest'[u][t] \in {guest[u][t], None}
    BY <1>7 DEF GuestExit, TypeOK
  <2> QED
    BY <1>7, <2>1, StillBound DEF GuestExit, poolVars, stateVars, loopVars
<1>8. ASSUME NEW w \in Workers, NEW s \in Slots, SlotLoop(w, s) PROVE Bound'
  BY <1>8, SlotQueue, SlotBindings, SlotGuests DEF Bound
<1>9. ASSUME NEW w \in Workers, WorkerLoop(w) PROVE Bound'
  BY <1>9, WorkerBound
<1>10. ASSUME NEW d \in Deliveries, Enqueue(d) PROVE Bound'
  BY <1>10, EnqueueBound
<1>11. CASE Start
  BY <1>11, StartBound
<1>12. CASE Restart
  BY <1>12, RestartBound
<1>13. CASE Reconcile
  BY <1>13, ReconcileBound
<1> QED
  BY <1>1, <1>2, <1>4, <1>5, <1>6, <1>7, <1>8, <1>9, <1>10, <1>11, <1>12, <1>13 DEF Next

LEMMA BoundInit == Init => Bound
<1> SUFFICES ASSUME Init PROVE Bound
  OBVIOUS
<1>1. \A w \in Workers, s \in Slots :
        slot[w][s].job = None /\ ~InJob(thread[w][s]) /\ thread[w][s].pc = "off"
  BY DEF Init, AllEmpty, EmptySlot, AllOff, Off, At, InJob
<1>2. \A v \in VMs, s \in Slots : guest[v][s] = None
  BY DEF Init, NoGuest
<1>3. /\ queue = <<>> /\ booted = {} /\ draining = {}
      /\ \A d \in Deliveries : fate[d] = "new"
  BY DEF Init
<1> QED
  BY <1>1, <1>2, <1>3 DEF Bound, QueueControl, BindingControl, SlotControl, Apart, GuestControl

\* In every state the queue, the slots with their goroutines, and the guests
\* agree on where each delivery is.
LEMMA BoundInvariant == Spec => [](TypeOK /\ WorkerControl /\ JobContexts /\ Bound)
<1>1. Init => Bound
  BY BoundInit
<1>2. TypeOK /\ WorkerControl /\ JobContexts /\ Bound /\ [Next]_vars => Bound'
  BY BoundStep
<1> QED
  BY <1>1, <1>2, ContextsHold, PTL DEF Spec

\* For any number of workers, slots and deliveries, a delivery is worked on by
\* at most one slot goroutine, and the slot of that goroutine names it until a
\* second cancel frees the slot of a worker marked for recycle
\* (waitForSlotJob, claimResumeSlot, CancelRun, requestBusyRecycle).
THEOREM BindingsHold == Spec => []BindingConsistent
<1>1. Bound => BindingConsistent
  BY DEF Bound, BindingControl, SlotControl, Apart, BindingConsistent
<1> QED
  BY <1>1, BoundInvariant, PTL

-----------------------------------------------------------------------------
(* The pool implements the abstract job queue *)

\* The phases of JobQueue, before and after a step of the pool.
Phase == [d \in Deliveries |-> PhaseOf(fate[d])]

\* A change of one fate changes one phase.
LEMMA PhaseChange ==
  ASSUME fate \in [Deliveries -> Fates], NEW d \in Deliveries, NEW o,
         fate' = [fate EXCEPT ![d] = o]
  PROVE  Phase' = [Phase EXCEPT ![d] = PhaseOf(o)]
<1>1. Phase' = [e \in Deliveries |-> PhaseOf(fate'[e])]
  BY DEF Phase
<1>2. \A e \in Deliveries : fate'[e] = IF e = d THEN o ELSE fate[e]
  OBVIOUS
<1> QED
  BY <1>1, <1>2 DEF Phase

\* A step that touches neither queue nor fates is a stutter of the queue.
LEMMA Stutters ==
  ASSUME UNCHANGED <<queue, fate, started>>
  PROVE  [Jobs!Next]_(Jobs!jobVars)
  BY DEF Jobs!jobVars

\* A bound job that ends or is let go leaves, and it leaves once.
LEMMA Leaves ==
  ASSUME fate \in [Deliveries -> Fates], NEW d \in Deliveries, fate[d] = "bound",
         NEW o \in {"bound", "over", "lost", "stalled", "killed", "detached"},
         fate' = [fate EXCEPT ![d] = o], UNCHANGED <<queue, started>>
  PROVE  [Jobs!Next]_(Jobs!jobVars)
<1>1. CASE o = "bound"
  <2>1. fate' = fate
    BY <1>1
  <2> QED
    BY <2>1, Stutters
<1>2. CASE o # "bound"
  <2>1. PhaseOf(o) \in {"ended", "released"} /\ Phase[d] = "bound"
    BY <1>2 DEF PhaseOf, Phase
  <2>2. Phase' = [Phase EXCEPT ![d] = PhaseOf(o)]
    BY PhaseChange
  <2>3. Jobs!Leave(d)
    BY <2>1, <2>2 DEF Jobs!Leave, Phase
  <2> QED
    BY <2>3 DEF Jobs!Next
<1> QED
  BY <1>1, <1>2

\* A slot goroutine takes the head of the queue, lets its job go, or does
\* nothing the queue can see.
LEMMA SlotRefines ==
  ASSUME TypeOK, WorkerControl, JobContexts, Bound, NEW w \in Workers, NEW s \in Slots,
         SlotLoop(w, s)
  PROVE  [Jobs!Next]_(Jobs!jobVars)
<1>1. started /\ started' /\ fate \in [Deliveries -> Fates] /\ queue \in Seq(Deliveries)
  BY SlotKinds, SlotLoopFrame, StartedWithSlots DEF SlotFrame, TypeOK
<1>2. CASE Binds(w, s)
  <2>1. /\ queue # <<>> /\ queue' = Tail(queue) /\ fate' = [fate EXCEPT ![Head(queue)] = "bound"]
    BY <1>2 DEF Binds
  <2>2. Head(queue) \in Deliveries /\ fate[Head(queue)] = "queued"
    <3>1. Len(queue) \in Nat \ {0} /\ Head(queue) = queue[1] /\ Head(queue) \in Deliveries
      BY <1>1, <2>1
    <3> QED
      BY <3>1 DEF Bound, QueueControl
  <2>3. Phase' = [Phase EXCEPT ![Head(queue)] = "bound"] /\ Phase[Head(queue)] = "queued"
    <3>1. Phase' = [Phase EXCEPT ![Head(queue)] = PhaseOf("bound")]
      BY <1>1, <2>1, <2>2, PhaseChange
    <3> QED
      BY <2>2, <3>1 DEF PhaseOf, Phase
  <2>4. Jobs!Bind
    BY <1>1, <2>1, <2>3 DEF Jobs!Bind, Phase
  <2> QED
    BY <2>4 DEF Jobs!Next
<1>3. CASE Returns(w, s)
  <2>1. PICK o \in {"over", "lost", "stalled", "killed", "detached"} :
          fate' = [fate EXCEPT ![thread[w][s].job] = o]
    BY <1>3 DEF Returns
  <2>2. thread[w][s].job \in Deliveries /\ fate[thread[w][s].job] = "bound" /\ UNCHANGED queue
    BY <1>3 DEF Returns, Bound, BindingControl, SlotControl, JobContexts
  <2> QED
    BY <1>1, <2>1, <2>2, Leaves
<1>4. CASE UNCHANGED <<queue, fate>>
  BY <1>1, <1>4, Stutters
<1> QED
  BY <1>2, <1>3, <1>4, SlotKinds DEF Resumes, Accepted, Moves, Marks

\* Cancelling the job of a slot ends it at most once.
LEMMA CancelRefines ==
  ASSUME TypeOK, Bound, NEW w \in Workers, NEW s \in Slots, CancelSlot(w, s),
         slot[w][s].job # None, UNCHANGED <<queue, started>>
  PROVE  [Jobs!Next]_(Jobs!jobVars)
<1>1. slot[w][s].job \in Deliveries /\ fate[slot[w][s].job] = "bound" /\ fate \in [Deliveries -> Fates]
  BY DEF Bound, BindingControl, SlotControl, TypeOK, SlotType
<1>2. \E o \in {"bound", "killed"} : fate' = [fate EXCEPT ![slot[w][s].job] = o]
  BY <1>1 DEF CancelSlot
<1> QED
  BY <1>1, <1>2, Leaves

\* A restart forgets the queue and lets go of every bound job.
LEMMA RestartRefines ==
  ASSUME TypeOK, Restart
  PROVE  Jobs!Next
<1>1. /\ started /\ started' = FALSE /\ queue' = <<>>
      /\ fate' = [d \in Deliveries |-> IF fate[d] = "queued" THEN "over"
                                       ELSE IF fate[d] = "bound" THEN "detached" ELSE fate[d]]
  BY DEF Restart
<1>2. \A d \in Deliveries : PhaseOf(fate'[d]) =
         CASE PhaseOf(fate[d]) = "queued" -> "ended"
           [] PhaseOf(fate[d]) = "bound"  -> "released"
           [] OTHER                       -> PhaseOf(fate[d])
  <2> SUFFICES ASSUME NEW d \in Deliveries
               PROVE  PhaseOf(fate'[d]) =
                        CASE PhaseOf(fate[d]) = "queued" -> "ended"
                          [] PhaseOf(fate[d]) = "bound"  -> "released"
                          [] OTHER                       -> PhaseOf(fate[d])
    OBVIOUS
  <2>1. fate[d] \in Fates
    BY DEF TypeOK
  <2>2. fate'[d] = IF fate[d] = "queued" THEN "over"
                   ELSE IF fate[d] = "bound" THEN "detached" ELSE fate[d]
    BY <1>1
  <2> QED
    BY <2>1, <2>2 DEF PhaseOf, Fates
<1>3. /\ Phase' = [d \in Deliveries |-> PhaseOf(fate'[d])]
      /\ \A d \in Deliveries : Phase[d] = PhaseOf(fate[d])
  BY DEF Phase
<1>4. Phase' = [d \in Deliveries |->
                  CASE Phase[d] = "queued" -> "ended"
                    [] Phase[d] = "bound"  -> "released"
                    [] OTHER               -> Phase[d]]
  BY <1>2, <1>3
<1>5. Jobs!GoDown
  BY <1>1, <1>4 DEF Jobs!GoDown, Phase
<1> QED
  BY <1>5 DEF Jobs!Next

\* A start binds again only what still runs and was let go.
LEMMA StartRefines ==
  ASSUME TypeOK, WorkerControl, Bound, Start
  PROVE  Jobs!Next
<1> DEFINE adopted == {d \in Deliveries : \E w \in Workers, s \in Slots : slot'[w][s].job = d}
<1>1. /\ ~started /\ started' = TRUE /\ queue' = queue
      /\ fate' = [d \in Deliveries |-> IF d \in adopted THEN "bound" ELSE fate[d]]
  BY StartFacts DEF Start
<1>2. ASSUME NEW d \in adopted PROVE d \in Deliveries /\ Phase[d] \in {"ended", "released"}
  <2>1. PICK w \in Workers, s \in Slots : slot'[w][s].job = d
    BY <1>2
  <2>2. Adopts(w, s)
    BY <2>1, StartFacts, PoolAssumption
  <2>3. fate[d] \notin {"new", "queued", "over"} /\ fate[d] # "bound"
    BY <1>1, <2>1, <2>2 DEF Adopts, Bound, GuestControl, Placed, QueueControl
  <2> QED
    BY <1>2, <2>3 DEF Phase, PhaseOf
<1> HIDE DEF adopted
<1>3. \A d \in Deliveries : PhaseOf(fate'[d]) = IF d \in adopted THEN "bound" ELSE PhaseOf(fate[d])
  BY <1>1 DEF PhaseOf
<1>4. Phase' = [d \in Deliveries |-> IF d \in adopted THEN "bound" ELSE Phase[d]]
  <2>1. /\ Phase' = [d \in Deliveries |-> PhaseOf(fate'[d])]
        /\ \A d \in Deliveries : Phase[d] = PhaseOf(fate[d])
    BY DEF Phase
  <2> QED
    BY <1>3, <2>1
<1>5. adopted \in SUBSET {d \in Deliveries : Phase[d] \in {"ended", "released"}}
  BY <1>2
<1>6. Jobs!ComeUp
  BY <1>1, <1>4, <1>5 DEF Jobs!ComeUp, Phase
<1> QED
  BY <1>6 DEF Jobs!Next

\* Every step of the pool is a step of the queue or a stutter.
LEMMA StepRefines ==
  ASSUME TypeOK, WorkerControl, JobContexts, Bound, [Next]_vars
  PROVE  [Jobs!Next]_(Jobs!jobVars)
<1>1. ASSUME NEW d \in Deliveries, Enqueue(d) PROVE [Jobs!Next]_(Jobs!jobVars)
  <2>1. /\ fate \in [Deliveries -> Fates] /\ fate[d] = "new" /\ UNCHANGED started
        /\ fate' = [fate EXCEPT ![d] = "queued"] /\ queue' = Append(queue, d)
    BY <1>1 DEF Enqueue, TypeOK
  <2>2. Phase' = [Phase EXCEPT ![d] = PhaseOf("queued")]
    BY <2>1, PhaseChange
  <2>3. Phase[d] = "new" /\ PhaseOf("queued") = "queued"
    BY <2>1 DEF Phase, PhaseOf
  <2>4. Jobs!Arrive(d)
    BY <2>1, <2>2, <2>3 DEF Jobs!Arrive, Phase
  <2> QED
    BY <2>4 DEF Jobs!Next
<1>2. ASSUME NEW d \in Deliveries, CancelRun(d) PROVE [Jobs!Next]_(Jobs!jobVars)
  <2>1. PICK w \in Workers, s \in Slots : slot[w][s].job # None /\ CancelSlot(w, s)
    BY <1>2 DEF CancelRun
  <2>2. UNCHANGED <<queue, started>>
    BY <1>2 DEF CancelRun, poolVars
  <2> QED
    BY <2>1, <2>2, CancelRefines
<1>3. CASE RequestBusyRecycle
  <2>1. claimed \in BusyType /\ claimed.w \in Workers /\ claimed.s \in Slots
        /\ claimed.job \in Deliveries /\ UNCHANGED <<queue, started>>
    BY <1>3 DEF RequestBusyRecycle, BusyType, TypeOK, poolVars
  <2>2. CASE SameBinding(claimed) /\ CancelSlot(claimed.w, claimed.s)
    <3>1. slot[claimed.w][claimed.s].job # None
      BY <2>1, <2>2, PoolAssumption DEF SameBinding
    <3> QED
      BY <2>1, <2>2, <3>1, CancelRefines
  <2>3. CASE UNCHANGED fate
    BY <2>1, <2>3, Stutters
  <2> QED
    BY <1>3, <2>2, <2>3 DEF RequestBusyRecycle
<1>4. CASE Reconcile /\ ~RequestBusyRecycle
  <2>1. UNCHANGED <<queue, fate, started>>
    BY <1>4 DEF Reconcile, ReconcileBegins, PastMaxBind, Condemn, PastPickupTimeout, poolVars,
       ClaimSlotReapWarning, ReapEnds, ReconcileIdle, ReconcileEnds
  <2> QED
    BY <2>1, Stutters
<1>5. ASSUME NEW w \in Workers, WorkerLoop(w) PROVE [Jobs!Next]_(Jobs!jobVars)
  BY <1>5, WorkerFrame, Stutters
<1>6. ASSUME NEW w \in Workers, NEW s \in Slots, SlotLoop(w, s) PROVE [Jobs!Next]_(Jobs!jobVars)
  BY <1>6, SlotRefines
<1>7. CASE Start
  BY <1>7, StartRefines
<1>8. CASE Restart
  BY <1>8, RestartRefines
<1>9. CASE UNCHANGED <<queue, fate, started>>
  BY <1>9, Stutters
<1> QED
  BY <1>1, <1>2, <1>3, <1>4, <1>5, <1>6, <1>7, <1>8, <1>9
     DEF Next, vars, poolVars, Reconfigure, Shutdown, ContextDone, ContextWatcher, GuestExit

\* The pool, whatever its size, implements the abstract job queue: between two
\* starts every delivery is bound at most once, in order of arrival, and ends
\* at most once, and a start binds again only executions that still run
\* (waitForSlotJob, finishSlotJob, CancelRun, requestBusyRecycle, Start).
THEOREM PoolImplementsQueue == Spec => ImplementsJobQueue
<1>1. Init => Jobs!Init
  BY DEF Init, Jobs!Init, PhaseOf
<1>2. TypeOK /\ WorkerControl /\ JobContexts /\ Bound /\ [Next]_vars => [Jobs!Next]_(Jobs!jobVars)
  BY StepRefines
<1> QED
  BY <1>1, <1>2, BoundInvariant, PTL DEF Spec, ImplementsJobQueue, Jobs!Spec

-----------------------------------------------------------------------------
(* Idle capacity is usable *)

\* A worker leaves for a shutdown only once the context has ended; before the
\* first restart nothing ran at the start, and no VM in service is draining.
ServiceControl ==
  /\ \A w \in Workers : wpc[w] \in {"joinStop", "clearStop"} => ctxDone
  /\ restarts = 0 /\ ~started => booted = {}
  /\ restarts = 0 => \A w \in Workers : vm[w] \notin draining

\* While the context lives, a slot in service has its goroutine, and what runs
\* on it in the guest is its job, a dispatch that was lost, or an execution whose
\* stalled goroutine is about to mark the worker.
Serves(w, s) ==
  ~ctxDone /\ Alive(w) /\ s < nslots[w] =>
    /\ wpc[w] = "run" => thread[w][s].pc # "off"
    /\ guest[vm[w]][s] # None =>
         \/ guest[vm[w]][s] = slot[w][s].job
         \/ fate[guest[vm[w]][s]] = "lost"
         \/ thread[w][s].pc = "stalled"

InService == ServiceControl /\ \A w \in Workers, s \in Slots : Serves(w, s)

\* Steps that launch and stop no goroutine and bind nothing keep a slot in
\* service as it is, or take its worker out of service.
LEMMA StillServes ==
  ASSUME TypeOK, InService, NEW x \in Workers, NEW r \in Slots,
         ctxDone => ctxDone',
         Alive(x)' =>
            /\ Alive(x) /\ vm'[x] = vm[x] /\ nslots'[x] = nslots[x]
            /\ wpc'[x] = "run" => wpc[x] = "run"
            /\ slot'[x][r].job = slot[x][r].job /\ thread'[x][r].pc = thread[x][r].pc,
         \A v \in VMs, t \in Slots : guest'[v][t] \in {guest[v][t], None},
         \A d \in Deliveries : fate[d] = "lost" => fate'[d] = "lost"
  PROVE  Serves(x, r)'
<1> SUFFICES ASSUME ~ctxDone', Alive(x)', (r < nslots[x])'
             PROVE  /\ wpc'[x] = "run" => thread'[x][r].pc # "off"
                    /\ guest'[vm'[x]][r] # None =>
                         \/ guest'[vm'[x]][r] = slot'[x][r].job
                         \/ fate'[guest'[vm'[x]][r]] = "lost"
                         \/ thread'[x][r].pc = "stalled"
  BY DEF Serves
<1>1. Serves(x, r) /\ ~ctxDone /\ Alive(x) /\ r < nslots[x] /\ vm'[x] = vm[x]
  BY DEF InService
<1>2. vm[x] \in VMs /\ (guest[vm[x]][r] # None => guest[vm[x]][r] \in Deliveries)
  BY <1>1 DEF Alive, TypeOK
<1> QED
  BY <1>1, <1>2 DEF Serves

\* A slot goroutine's step keeps its slot, and every other one, in service.
LEMMA SlotServes ==
  ASSUME TypeOK, WorkerControl, JobContexts, Bound, InService,
         NEW w \in Workers, NEW s \in Slots, SlotLoop(w, s)
  PROVE  InService'
<1>1. SlotFrame(w, s) /\ thread[w][s].pc # "off" /\ fate \in [Deliveries -> Fates]
  BY SlotKinds, SlotLoopFrame DEF TypeOK
<1>2. /\ wvm[w] \in VMs /\ wvm[w] \in booted /\ vm[w] \in {None, wvm[w]}
      /\ wpc[w] \in {"run", "joinRecycle", "joinStop"}
  BY <1>1, AtVM
<1>3. ServiceControl'
  BY <1>1 DEF InService, ServiceControl, SlotFrame
<1>4. SlotControl(w, s) /\ Serves(w, s)
  BY DEF Bound, BindingControl, InService
<1>5. ASSUME NEW e \in Deliveries, fate[e] = "lost" PROVE fate'[e] = "lost"
  <2>1. CASE Binds(w, s)
    <3>1. Head(queue) \in Deliveries /\ fate[Head(queue)] = "queued"
      <4>1. Len(queue) \in Nat \ {0} /\ Head(queue) = queue[1] /\ Head(queue) \in Deliveries
        BY <2>1 DEF Binds, TypeOK
      <4> QED
        BY <4>1 DEF Bound, QueueControl
    <3> QED
      BY <1>1, <1>5, <2>1, <3>1 DEF Binds
  <2>2. CASE Returns(w, s)
    <3>1. fate[thread[w][s].job] = "bound"
      BY <1>4, <2>2 DEF Returns, SlotControl
    <3> QED
      BY <1>1, <1>5, <2>2, <3>1 DEF Returns
  <2> QED
    BY <1>5, <2>1, <2>2, SlotKinds DEF Resumes, Accepted, Moves, Marks
<1>6. ASSUME NEW x \in Workers, NEW r \in Slots, x # w \/ r # s PROVE Serves(x, r)'
  <2> SUFFICES ASSUME ~ctxDone', Alive(x)', (r < nslots[x])'
               PROVE  /\ wpc'[x] = "run" => thread'[x][r].pc # "off"
                      /\ guest'[vm'[x]][r] # None =>
                           \/ guest'[vm'[x]][r] = slot'[x][r].job
                           \/ fate'[guest'[vm'[x]][r]] = "lost"
                           \/ thread'[x][r].pc = "stalled"
    BY DEF Serves
  <2>1. /\ vm'[x] = vm[x] /\ nslots'[x] = nslots[x] /\ wpc'[x] = wpc[x] /\ ~ctxDone
        /\ slot'[x][r] = slot[x][r] /\ thread'[x][r] = thread[x][r]
    BY <1>1, <1>6 DEF SlotFrame
  <2>2. Alive(x) /\ vm[x] \in VMs /\ r < nslots[x]
    BY <1>1, <2>1 DEF Alive, TypeOK, SlotFrame
  <2>3. vm[x] # wvm[w] \/ r # s
    BY <1>2, <1>6, <2>2, PoolAssumption DEF WorkerControl
  <2>4. guest'[vm[x]][r] = guest[vm[x]][r]
    BY <1>1, <2>2, <2>3 DEF SlotFrame
  <2>5. Serves(x, r)
    BY DEF InService
  <2>6. guest[vm[x]][r] \in Deliveries \cup {None}
    BY <2>2 DEF TypeOK
  <2> QED
    BY <1>5, <2>1, <2>2, <2>4, <2>5, <2>6 DEF Serves
<1>7. Serves(w, s)'
  <2> SUFFICES ASSUME ~ctxDone', Alive(w)', (s < nslots[w])'
               PROVE  /\ wpc'[w] = "run" => thread'[w][s].pc # "off"
                      /\ guest'[vm'[w]][s] # None =>
                           \/ guest'[vm'[w]][s] = slot'[w][s].job
                           \/ fate'[guest'[vm'[w]][s]] = "lost"
                           \/ thread'[w][s].pc = "stalled"
    BY DEF Serves
  <2>1. /\ vm'[w] = vm[w] /\ nslots'[w] = nslots[w] /\ wpc'[w] = wpc[w] /\ ~ctxDone
        /\ ~recycle[w] /\ ~recycle'[w]
    BY <1>1 DEF SlotFrame, Alive
  <2>2. Alive(w) /\ vm[w] = wvm[w] /\ vm[w] \in VMs /\ s < nslots[w] /\ Owns(w, s)
    BY <1>2, <2>1 DEF Alive, Owns
  <2>3. guest[vm[w]][s] \in Deliveries \cup {None}
    BY <2>2 DEF TypeOK
  <2>4. /\ thread[w][s].pc # "off"
        /\ guest[vm[w]][s] # None =>
             \/ guest[vm[w]][s] = slot[w][s].job
             \/ fate[guest[vm[w]][s]] = "lost"
             \/ thread[w][s].pc = "stalled"
    BY <1>1, <1>4, <2>1, <2>2 DEF Serves
  <2>5. CASE Binds(w, s)
    BY <1>5, <2>1, <2>2, <2>3, <2>4, <2>5 DEF Binds
  <2>6. CASE Resumes(w, s)
    BY <2>1, <2>2, <2>4, <2>6 DEF Resumes
  <2>7. CASE Accepted(w, s)
    BY <1>4, <2>1, <2>2, <2>7 DEF Accepted, SlotControl, InJob
  <2>8. CASE Returns(w, s)
    <3> DEFINE d == thread[w][s].job
    <3>1. /\ InJob(thread[w][s]) /\ d \in Deliveries /\ slot[w][s].job = d /\ fate[d] = "bound"
          /\ thread[w][s].cause = "none"
      <4>1. InJob(thread[w][s]) /\ d \in Deliveries
        BY <2>8 DEF Returns, JobContexts
      <4>2. slot[w][s].job = d /\ fate[d] = "bound" /\ thread[w][s].cause # "kill"
        BY <1>4, <2>1, <2>2, <4>1, PoolAssumption DEF SlotControl
      <4>3. thread[w][s].cause \in {"none", "plain", "kill"} /\ thread[w][s].cause # "plain"
        BY <2>1 DEF TypeOK, ThreadType, JobContexts
      <4> QED
        BY <4>1, <4>2, <4>3
    <3>2. thread'[w][s].pc # "off"
      BY <2>1, <2>2, <2>8 DEF Returns
    <3>3. CASE guest'[vm[w]][s] = d
      <4>1. guest[vm[w]][s] = d \/ thread[w][s].pc = "dispatch"
        BY <2>2, <2>8, <3>3 DEF Returns
      <4>2. guest[vm[w]][s] = d => thread[w][s].pc # "dispatch"
        BY <2>2, <3>1, PoolAssumption DEF Bound, GuestControl, Placed
      <4>3. PICK o \in {"over", "lost", "stalled", "killed", "detached"} :
               /\ fate' = [fate EXCEPT ![d] = o]
               /\ o = "over" => guest' = guest /\ (thread[w][s].pc = "dispatch" \/ guest[wvm[w]][s] # d)
               /\ o = "killed" => thread[w][s].cause = "kill"
               /\ o = "detached" => thread[w][s].cause = "plain"
               /\ o = "stalled" => thread'[w][s].pc = "stalled" \/ (Owns(w, s) => recycle'[w])
        BY <2>8 DEF Returns
      <4>4. o \in {"lost", "stalled"}
        BY <2>2, <3>1, <3>3, <4>1, <4>2, <4>3
      <4>5. fate'[d] = o
        BY <1>1, <3>1, <4>3
      <4> QED
        BY <2>1, <2>2, <3>2, <3>3, <4>3, <4>4, <4>5
    <3>4. CASE guest'[vm[w]][s] # d
      <4>1. guest'[vm[w]][s] = None \/ (guest'[vm[w]][s] = guest[vm[w]][s] /\ guest[vm[w]][s] # d)
        BY <2>2, <2>8, <3>4 DEF Returns
      <4>2. thread[w][s].pc # "stalled"
        BY <3>1 DEF InJob
      <4> QED
        BY <1>5, <2>1, <2>3, <2>4, <3>1, <3>2, <4>1, <4>2
    <3> QED
      BY <3>3, <3>4
  <2>9. CASE Moves(w, s)
    <3>1. ~MustStop(w, s)
      <4>1. ~shuttingDown /\ wpc[w] \notin {"joinRecycle", "joinStop"}
        BY <1>2, <2>1, <2>2, PoolAssumption DEF JobContexts, InService, ServiceControl, WorkerControl
      <4> QED
        BY <2>1, <2>2, <4>1 DEF MustStop, SlotCtxDone
    <3> QED
      BY <2>1, <2>2, <2>4, <2>9, <3>1 DEF Moves
  <2>10. CASE Marks(w, s)
    BY <2>1, <2>2, <2>10 DEF Marks
  <2> QED
    BY <2>5, <2>6, <2>7, <2>8, <2>9, <2>10, SlotKinds
<1> QED
  BY <1>3, <1>6, <1>7 DEF InService

\* workerLoop takes its worker into service with all its slot goroutines and
\* an idle guest, and out of service with none.
LEMMA WorkerServes ==
  ASSUME TypeOK, WorkerControl, JobContexts, Bound, InService, NEW w \in Workers, WorkerLoop(w)
  PROVE  InService'
<1>1. UNCHANGED <<jobsPerVM, started, ctxDone, shuttingDown, fate, restarts>>
  BY WorkerFrame
<1>2. \A v \in VMs, t \in Slots : guest'[v][t] \in {guest[v][t], None}
  BY WorkerGuests DEF Bound
<1>3. \A s \in Slots : thread[w][s].pc # "off" => wpc[w] \in {"run", "joinRecycle", "joinStop"}
  BY DEF WorkerControl
<1>4. \A s \in Slots : Detach(thread[w][s]).pc = thread[w][s].pc
  BY CancelKeepsPc DEF TypeOK
<1> USE DEF TypeOK
<1>5. wpc[w] # "exited"
  BY DEF WorkerLoop, ClaimWorker, MarkWarming, WarmRequest, ActivateWorker, MarkWarmError, WarmRetry,
     StopForShutdown, StopForRecycle, OutOfService, SlotsJoined, Leave, TeardownDrain, TeardownDelete,
     ClearWorker
<1>6. wpc'[w] \in {"joinStop", "clearStop"} => ctxDone
  <2>1. wpc[w] \in {"joinStop", "clearStop"} => ctxDone
    BY DEF InService, ServiceControl
  <2>2. shuttingDown => ctxDone
    BY DEF JobContexts
  <2>3. CASE SlotsJoined(w)
    BY <2>1, <2>3 DEF SlotsJoined, Leave
  <2>4. CASE ClearWorker(w)
    BY <2>4 DEF ClearWorker
  <2>5. CASE WarmRetry(w)
    BY <2>5 DEF WarmRetry
  <2>6. CASE StopForShutdown(w)
    BY <2>2, <2>6 DEF StopForShutdown
  <2> QED
    BY <2>3, <2>4, <2>5, <2>6 DEF WorkerLoop, ClaimWorker, MarkWarming, WarmRequest, ActivateWorker,
       MarkWarmError, StopForRecycle, OutOfService, TeardownDrain, TeardownDelete
<1>7. ASSUME restarts = 0, NEW x \in Workers PROVE vm'[x] \notin draining'
  <2>1. vm[x] \notin draining /\ None \notin draining
    BY <1>7, PoolAssumption DEF InService, ServiceControl
  <2>2. CASE vm'[x] \in {vm[x], None} /\ draining' \subseteq draining
    BY <2>1, <2>2
  <2>3. CASE ActivateWorker(w)
    <3>1. PICK v \in VMs \ Remembered : vm' = [vm EXCEPT ![w] = v]
      BY <2>3 DEF ActivateWorker
    <3>2. v \notin draining
      BY <3>1 DEF Remembered, Bound, GuestControl
    <3> QED
      BY <2>1, <2>3, <3>1, <3>2 DEF ActivateWorker
  <2>4. CASE TeardownDrain(w)
    <3>1. draining' \subseteq draining \cup {wvm[w]} /\ wpc[w] = "teardown" /\ vm' = vm
      BY <2>4 DEF TeardownDrain, stateVars
    <3>2. vm[w] = None /\ wvm[w] \in VMs
      BY <3>1 DEF WorkerControl
    <3>3. vm[x] # wvm[w]
      BY <3>2, PoolAssumption DEF WorkerControl
    <3> QED
      BY <2>1, <3>1, <3>3
  <2>5. CASE TeardownDelete(w)
    BY <2>2, <2>5 DEF TeardownDelete, guestVars, stateVars
  <2> QED
    BY <2>2, <2>3, <2>4, <2>5 DEF WorkerLoop, ClaimWorker, MarkWarming, WarmRequest, MarkWarmError,
       WarmRetry, StopForShutdown, StopForRecycle, OutOfService, SlotsJoined, Leave, ClearWorker,
       stateVars, guestVars
<1> USE <1>1, <1>2
<1>8. ServiceControl'
  <2>1. \A x \in Workers : wpc'[x] \in {"joinStop", "clearStop"} => ctxDone'
    BY <1>6, WorkerFrame DEF InService, ServiceControl
  <2>2. started'
    BY <1>5 DEF WorkerControl
  <2> QED
    BY <1>7, <2>1, <2>2 DEF ServiceControl
<1>9. ASSUME NEW x \in Workers \ {w}, NEW r \in Slots PROVE Serves(x, r)'
  <2>1. /\ vm'[x] = vm[x] /\ recycle'[x] = recycle[x] /\ nslots'[x] = nslots[x]
        /\ slot'[x] = slot[x] /\ thread'[x] = thread[x] /\ wpc'[x] = wpc[x]
    BY WorkerFrame
  <2> QED
    BY <2>1, StillServes DEF Alive
<1>10. ASSUME NEW r \in Slots PROVE Serves(w, r)'
  <2>1. ASSUME vm'[w] = None PROVE Serves(w, r)'
    BY <2>1 DEF Serves, Alive
  <2>2. ASSUME vm'[w] = vm[w], nslots'[w] = nslots[w], recycle'[w] = recycle[w], slot'[w] = slot[w],
               thread'[w][r].pc = thread[w][r].pc, wpc'[w] # "run"
        PROVE  Serves(w, r)'
    BY <2>2, StillServes DEF Alive
  <2>3. CASE ClaimWorker(w) /\ wpc'[w] = "run"
    <3>1. /\ vm' = vm /\ nslots' = nslots /\ recycle' = recycle /\ slot' = slot /\ guest' = guest
          /\ thread' = [thread EXCEPT ![w] = Launched(nslots[w])] /\ wpc[w] = "claim"
      BY <2>3 DEF ClaimWorker, stateVars, guestVars
    <3>2. thread'[w][r] = IF r < nslots[w] THEN At("start") ELSE Off
      BY <3>1 DEF Launched
    <3>3. Serves(w, r) /\ thread[w][r].pc = "off"
      BY <1>3, <3>1 DEF InService
    <3> QED
      BY <3>1, <3>2, <3>3 DEF Serves, Alive, At
  <2>4. CASE ClaimWorker(w) /\ wpc'[w] # "run"
    <3>1. UNCHANGED <<vm, nslots, recycle, slot, thread>>
      BY <2>4 DEF ClaimWorker, stateVars
    <3> QED
      BY <2>2, <2>4, <3>1
  <2>5. CASE ActivateWorker(w)
    <3>1. PICK v \in VMs \ Remembered : vm' = [vm EXCEPT ![w] = v]
      BY <2>5 DEF ActivateWorker
    <3>2. \A t \in Slots : guest[v][t] = None
      BY <3>1 DEF Remembered, Bound, GuestControl
    <3>3. vm'[w] = v /\ guest' = guest /\ nslots'[w] = wcount[w]
          /\ thread'[w][r] = IF r < wcount[w] THEN At("start") ELSE Off
      BY <2>5, <3>1 DEF ActivateWorker, Launched
    <3> QED
      BY <3>2, <3>3 DEF Serves, At
  <2>6. CASE MarkWarmError(w)
    BY <2>1, <2>6 DEF MarkWarmError, WorkerControl
  <2>7. CASE StopForShutdown(w)
    BY <1>4, <2>2, <2>7 DEF StopForShutdown, stateVars
  <2>8. CASE MarkWarming(w)  BY <2>1, <2>8 DEF MarkWarming
  <2>9. CASE WarmRequest(w)  BY <2>2, <2>9 DEF WarmRequest, stateVars
  <2>10. CASE WarmRetry(w)  BY <2>2, <2>10 DEF WarmRetry, stateVars
  <2>11. CASE StopForRecycle(w)  BY <2>1, <2>11 DEF StopForRecycle, OutOfService
  <2>12. CASE SlotsJoined(w)
    <3>1. wpc'[w] # "run" /\ UNCHANGED <<vm, nslots, recycle, slot, thread>>
      BY <2>12 DEF SlotsJoined, Leave, stateVars
    <3> QED
      BY <2>2, <3>1
  <2>13. CASE TeardownDrain(w)  BY <2>2, <2>13 DEF TeardownDrain, stateVars
  <2>14. CASE TeardownDelete(w)  BY <2>2, <2>14 DEF TeardownDelete, stateVars
  <2>15. CASE ClearWorker(w)  BY <2>1, <2>15 DEF ClearWorker
  <2> QED
    BY <2>3, <2>4, <2>5, <2>6, <2>7, <2>8, <2>9, <2>10, <2>11, <2>12, <2>13, <2>14, <2>15
       DEF WorkerLoop
<1> QED
  BY <1>8, <1>9, <1>10 DEF InService

\* A step of neither loop that changes no control, no VM and no goroutine's
\* place, and no job of a worker that stays in service.
LEMMA OutsideServes ==
  ASSUME TypeOK, InService, ctxDone => ctxDone',
         UNCHANGED <<started, vm, nslots, wpc, booted, draining, restarts>>,
         \A x \in Workers : recycle[x] => recycle'[x],
         \A x \in Workers, r \in Slots :
           ~recycle'[x] => slot'[x][r].job = slot[x][r].job /\ thread'[x][r].pc = thread[x][r].pc,
         \A v \in VMs, t \in Slots : guest'[v][t] \in {guest[v][t], None},
         \A d \in Deliveries : fate[d] = "lost" => fate'[d] = "lost"
  PROVE  InService'
<1>1. ServiceControl'
  BY DEF InService, ServiceControl
<1>2. ASSUME NEW x \in Workers, NEW r \in Slots PROVE Serves(x, r)'
  <2>1. Alive(x)' => Alive(x) /\ ~recycle'[x]
    BY DEF Alive
  <2> QED
    BY <2>1, StillServes
<1> QED
  BY <1>1, <1>2 DEF InService

\* Cancelling a job takes its worker out of service, and no other.
LEMMA CancelServes ==
  ASSUME TypeOK, Bound, InService, NEW w \in Workers, NEW s \in Slots,
         CancelSlot(w, s), slot[w][s].job # None,
         UNCHANGED <<started, ctxDone, vm, nslots, wpc, booted, draining, guest, restarts>>
  PROVE  InService'
<1>1. slot[w][s].job \in Deliveries /\ fate[slot[w][s].job] = "bound" /\ fate \in [Deliveries -> Fates]
  BY DEF Bound, BindingControl, SlotControl, TypeOK, SlotType
<1>2. \E o : fate' = [fate EXCEPT ![slot[w][s].job] = o]
  BY DEF CancelSlot
<1>3. \A d \in Deliveries : fate[d] = "lost" => fate'[d] = "lost"
  BY <1>1, <1>2
<1>4. recycle' = [recycle EXCEPT ![w] = TRUE]
  BY DEF CancelSlot
<1>5. \A x \in Workers : recycle[x] => recycle'[x]
  BY <1>4 DEF TypeOK
<1>6. ASSUME NEW x \in Workers, NEW r \in Slots, ~recycle'[x]
      PROVE  slot'[x][r].job = slot[x][r].job /\ thread'[x][r].pc = thread[x][r].pc
  <2>1. x # w
    BY <1>4, <1>6 DEF TypeOK
  <2>2. slot'[x] = slot[x] /\ thread'[x] = thread[x]
    BY <2>1 DEF CancelSlot, TypeOK
  <2> QED
    BY <2>2
<1> QED
  BY <1>3, <1>5, <1>6, OutsideServes

\* Every step keeps the slots in service usable.
LEMMA ServiceStep ==
  ASSUME TypeOK, WorkerControl, JobContexts, Bound, InService, [Next]_vars
  PROVE  InService'
<1>1. ASSUME NEW d \in Deliveries, CancelRun(d) PROVE InService'
  <2>1. PICK w \in Workers, s \in Slots : slot[w][s].job # None /\ CancelSlot(w, s)
    BY <1>1 DEF CancelRun
  <2>2. UNCHANGED <<started, ctxDone, vm, nslots, wpc, booted, draining, guest, restarts>>
    BY <1>1 DEF CancelRun, poolVars, loopVars, guestVars
  <2> QED
    BY <2>1, <2>2, CancelServes
<1>2. CASE RequestBusyRecycle
  <2>1. claimed \in BusyType /\ claimed.w \in Workers /\ claimed.s \in Slots
        /\ claimed.job \in Deliveries
    BY <1>2 DEF RequestBusyRecycle, BusyType, TypeOK
  <2>2. UNCHANGED <<started, ctxDone, vm, nslots, wpc, booted, draining, guest, restarts>>
    BY <1>2 DEF RequestBusyRecycle, poolVars, loopVars, guestVars
  <2>3. CASE SameBinding(claimed) /\ CancelSlot(claimed.w, claimed.s)
    <3>1. slot[claimed.w][claimed.s].job # None
      BY <2>1, <2>3, PoolAssumption DEF SameBinding
    <3> QED
      BY <2>1, <2>2, <2>3, <3>1, CancelServes
  <2>4. CASE UNCHANGED <<recycle, slot, thread, fate>>
    BY <2>2, <2>4, OutsideServes
  <2> QED
    BY <1>2, <2>3, <2>4 DEF RequestBusyRecycle
<1>3. ASSUME NEW c \in doomed, ClaimSlotReapWarning(c) PROVE InService'
  <2>1. UNCHANGED <<started, ctxDone, vm, recycle, nslots, wpc, thread, booted, draining, guest,
                    fate, restarts>>
    BY <1>3 DEF ClaimSlotReapWarning, poolVars, loopVars, guestVars
  <2>2. \A x \in Workers, r \in Slots : slot'[x][r].job = slot[x][r].job
    BY <1>3, WarnedJobs
  <2> QED
    BY <2>1, <2>2, OutsideServes
<1>4. ASSUME NEW c \in idle, ReconcileIdle(c) PROVE InService'
  <2>1. c.w \in Workers
    BY DEF TypeOK, IdleType
  <2>2. UNCHANGED <<started, ctxDone, vm, nslots, slot, wpc, thread, booted, draining, guest,
                    fate, restarts>>
    BY <1>4 DEF ReconcileIdle, poolVars, loopVars, guestVars
  <2>3. \A x \in Workers : recycle[x] => recycle'[x]
    BY <1>4, <2>1 DEF ReconcileIdle, TypeOK
  <2> QED
    BY <2>2, <2>3, OutsideServes
<1>5. CASE UNCHANGED <<started, ctxDone, stateVars, loopVars, thread, guestVars, fate, restarts>>
  BY <1>5, OutsideServes DEF stateVars, loopVars, guestVars
<1>6. CASE Reconcile
  BY <1>2, <1>3, <1>4, <1>5, <1>6 DEF Reconcile, ReconcileBegins, PastMaxBind, Condemn,
     PastPickupTimeout, ReapEnds, ReconcileEnds, poolVars
<1>7. CASE Shutdown \/ ContextDone
  <2>1. /\ thread' = [w \in Workers |-> [s \in Slots |-> Detach(thread[w][s])]]
        /\ ctxDone' /\ UNCHANGED <<started, stateVars, loopVars, guestVars, fate, restarts>>
    BY <1>7 DEF Shutdown, ContextDone
  <2>2. \A x \in Workers, r \in Slots : thread'[x][r].pc = thread[x][r].pc
    BY <2>1, CancelKeepsPc DEF TypeOK
  <2> QED
    BY <2>1, <2>2, OutsideServes DEF stateVars, loopVars, guestVars
<1>8. ASSUME NEW n \in Requests, Reconfigure(n) PROVE InService'
  BY <1>5, <1>8 DEF Reconfigure
<1>9. CASE ContextWatcher
  BY <1>5, <1>9 DEF ContextWatcher
<1>10. CASE UNCHANGED vars
  BY <1>5, <1>10 DEF vars, poolVars
<1>11. ASSUME NEW v \in VMs, NEW s \in Slots, GuestExit(v, s) PROVE InService'
  <2>1. \A u \in VMs, t \in Slots : guest'[u][t] \in {guest[u][t], None}
    BY <1>11 DEF GuestExit, TypeOK
  <2> QED
    BY <1>11, <2>1, OutsideServes DEF GuestExit, poolVars, stateVars, loopVars
<1>12. ASSUME NEW d \in Deliveries, Enqueue(d) PROVE InService'
  <2>1. \A e \in Deliveries : fate[e] = "lost" => fate'[e] = "lost"
    BY <1>12 DEF Enqueue, TypeOK
  <2> QED
    BY <1>12, <2>1, OutsideServes DEF Enqueue, stateVars, loopVars, guestVars
<1>13. CASE Start
  <2>1. ServiceControl'
    <3>1. /\ \A x \in Workers : wpc'[x] = "claim"
          /\ started' /\ UNCHANGED restarts
      BY <1>13, StartFacts
    <3>2. restarts = 0 => booted = {}
      BY <1>13, StartFacts DEF InService, ServiceControl
    <3>3. draining \subseteq VMs
      BY DEF TypeOK
    <3>4. restarts = 0 => \A x \in Workers : vm'[x] \notin draining'
      BY <1>13, <3>2, <3>3, StartFacts, PoolAssumption
    <3> QED
      BY <3>1, <3>4 DEF ServiceControl
  <2>2. ASSUME NEW w \in Workers, NEW s \in Slots, Alive(w)', (s < nslots[w])',
               guest'[vm'[w]][s] # None
        PROVE  guest'[vm'[w]][s] = slot'[w][s].job
    <3>1. vm'[w] \in VMs /\ vm'[w] \in booted' /\ s < jobsPerVM
      BY <1>13, <2>2, StartFacts DEF Alive
    <3>2. guest'[vm'[w]][s] = guest[vm'[w]][s]
      BY <1>13, <2>2, <3>1, StartFacts
    <3>3. slot'[w][s].job # None
      BY <1>13, <2>2, <3>1, <3>2, StartFacts, PoolAssumption
    <3>4. Adopts(w, s)
      BY <1>13, <3>3, StartFacts
    <3> QED
      BY <3>2, <3>4 DEF Adopts
  <2>3. \A w \in Workers : wpc'[w] = "claim"
    BY <1>13, StartFacts
  <2> QED
    BY <2>1, <2>2, <2>3 DEF InService, Serves
<1>14. CASE Restart
  <2>1. /\ \A w \in Workers : vm'[w] = None /\ wpc'[w] = "exited"
        /\ restarts' # 0
    BY <1>14 DEF Restart, TypeOK
  <2> QED
    BY <2>1 DEF InService, ServiceControl, Serves, Alive
<1>15. ASSUME NEW w \in Workers, WorkerLoop(w) PROVE InService'
  BY <1>15, WorkerServes
<1>16. ASSUME NEW w \in Workers, NEW s \in Slots, SlotLoop(w, s) PROVE InService'
  BY <1>16, SlotServes
<1> QED
  BY <1>1, <1>6, <1>7, <1>8, <1>9, <1>10, <1>11, <1>12, <1>13, <1>14, <1>15, <1>16 DEF Next

LEMMA ServiceInit == Init => InService
  BY DEF Init, InService, ServiceControl, Serves, Alive

\* The slots in service are usable in every state.
LEMMA ServiceInvariant ==
  Spec => [](TypeOK /\ WorkerControl /\ JobContexts /\ Bound /\ InService)
<1>1. TypeOK /\ WorkerControl /\ JobContexts /\ Bound /\ InService /\ [Next]_vars => InService'
  BY ServiceStep
<1> QED
  BY <1>1, ServiceInit, BoundInvariant, PTL DEF Spec

\* For any pool, a slot that the snapshot counts as idle can take the next job:
\* its goroutine is there, and the guest runs nothing on it and accepts work
\* (snapshotLocked, Ready), but for the exceptions IdleMeansUsable names.
THEOREM IdleHolds == Spec => []IdleMeansUsable
<1>1. ASSUME TypeOK, WorkerControl, JobContexts, Bound, InService PROVE IdleMeansUsable
  <2> SUFFICES ASSUME ~ctxDone, NEW x \in IdleSlots,
                      thread[x[1]][x[2]].pc # "stalled"
               PROVE  /\ thread[x[1]][x[2]].pc \in {"start", "wait"} \/ wpc[x[1]] = "claim"
                      /\ \/ guest[vm[x[1]]][x[2]] = None
                         \/ fate[guest[vm[x[1]]][x[2]]] = "lost"
                      /\ vm[x[1]] \notin draining \/ restarts > 0
    BY DEF IdleMeansUsable
  <2> DEFINE w == x[1]
             s == x[2]
  <2>1. w \in Workers /\ s \in Slots /\ Alive(w) /\ s < nslots[w] /\ slot[w][s].job = None
    BY DEF IdleSlots
  <2> HIDE DEF w, s
  <2>2. wpc[w] \in {"run", "claim"} /\ (wpc[w] = "run" => vm[w] = wvm[w]) /\ vm[w] # None
    BY <1>1, <2>1 DEF WorkerControl, InService, ServiceControl, Alive
  <2>3. thread[w][s].pc # "stalled"
    BY DEF w, s
  <2>4. /\ wpc[w] = "run" => thread[w][s].pc # "off"
        /\ guest[vm[w]][s] = None \/ fate[guest[vm[w]][s]] = "lost"
    BY <1>1, <2>1, <2>3 DEF InService, Serves
  <2>5. wpc[w] = "run" => thread[w][s].pc \in {"start", "wait"}
    <3>1. wpc[w] = "run" => ~InJob(thread[w][s])
      BY <1>1, <2>1, <2>2, PoolAssumption
         DEF Bound, BindingControl, SlotControl, JobContexts, Owns, Alive
    <3>2. thread[w][s] \in ThreadType
      BY <1>1, <2>1 DEF TypeOK
    <3> QED
      BY <2>3, <2>4, <3>1, <3>2 DEF InJob, ThreadType
  <2>6. vm[w] \notin draining \/ restarts > 0
    BY <1>1, <2>1 DEF InService, ServiceControl, TypeOK
  <2> QED
    BY <2>2, <2>4, <2>5, <2>6 DEF w, s
<1> QED
  BY <1>1, ServiceInvariant, PTL

-----------------------------------------------------------------------------
(* Only what was given up is torn down *)

\* Start adopts the slots below the configured count: all of them when
\* jobs_per_vm is the same in every life of the broker, or it lives once.
FixedCapacity == Restarts = 0 \/ \A m, n \in SlotCounts : m = n

\* The goroutine of the slot is cancelling delivery d in the guest.
BeingKilled(w, s, d) ==
  InJob(thread[w][s]) /\ thread[w][s].job = d /\ thread[w][s].cause = "kill"

\* What runs on slot s of VM v was given up, or the goroutine is cancelling it.
Forsaken(w, s, v) ==
  guest[v][s] # None => fate[guest[v][s]] \in GivenUp \/ BeingKilled(w, s, guest[v][s])

\* A VM in service runs the jobs of its slots and what was given up, a VM that
\* is being taken down only the latter.
TearSlot(w, s) ==
  /\ wpc[w] = "run" => vm[w] # None
  /\ thread[w][s].pc # "off" /\ vm[w] # None => s < nslots[w]
  /\ wpc[w] = "joinRecycle" /\ InJob(thread[w][s]) => thread[w][s].cause = "kill"
  /\ ~ctxDone /\ vm[w] # None =>
       guest[vm[w]][s] = slot[w][s].job \/ Forsaken(w, s, vm[w])
  /\ wpc[w] \in {"joinRecycle", "teardown", "delete"} => Forsaken(w, s, wvm[w])

TearControl ==
  /\ restarts <= Restarts
  /\ \A w \in Workers, s \in Slots : TearSlot(w, s)

\* A step that takes slot r of worker x no nearer to its end.
LEMMA StillTears ==
  ASSUME TypeOK, WorkerControl, NEW x \in Workers, NEW r \in Slots, TearSlot(x, r),
         ctxDone => ctxDone',
         vm'[x] # None =>
           vm'[x] = vm[x] /\ nslots'[x] = nslots[x] /\ slot'[x][r].job = slot[x][r].job,
         wpc'[x] \in {"joinRecycle", "teardown", "delete"} =>
           /\ wvm'[x] = wvm[x] /\ wpc[x] \in {"joinRecycle", "teardown", "delete"}
           /\ wpc'[x] = "joinRecycle" => wpc[x] = "joinRecycle",
         wpc'[x] = "run" => wpc[x] = "run" /\ vm'[x] = vm[x],
         thread'[x][r].pc = thread[x][r].pc, thread'[x][r].job = thread[x][r].job,
         thread[x][r].cause = "kill" => thread'[x][r].cause = "kill",
         \A v \in VMs : v \in {vm[x], wvm[x]} => guest'[v][r] \in {guest[v][r], None},
         \A d \in Deliveries : fate[d] \in GivenUp => fate'[d] \in GivenUp
  PROVE  TearSlot(x, r)'
<1>1. InJob(thread'[x][r]) <=> InJob(thread[x][r])
  BY DEF InJob
<1>2. ASSUME NEW v \in VMs, v \in {vm[x], wvm[x]}, Forsaken(x, r, v)
      PROVE  Forsaken(x, r, v)'
  <2>1. guest[v][r] \in Deliveries \cup {None}
    BY DEF TypeOK
  <2> QED
    BY <1>1, <1>2, <2>1 DEF Forsaken, BeingKilled
<1>3. ASSUME ~ctxDone', vm'[x] # None
      PROVE  guest'[vm'[x]][r] = slot'[x][r].job \/ Forsaken(x, r, vm[x])'
  <2>1. vm[x] \in VMs /\ vm'[x] = vm[x] /\ slot'[x][r].job = slot[x][r].job /\ ~ctxDone
    BY <1>3 DEF TypeOK
  <2>2. CASE guest[vm[x]][r] = slot[x][r].job
    BY <2>1, <2>2 DEF Forsaken
  <2>3. CASE Forsaken(x, r, vm[x])
    BY <1>2, <2>1, <2>3 DEF Forsaken
  <2> QED
    BY <1>3, <2>1, <2>2, <2>3 DEF TearSlot
<1>4. ASSUME wpc'[x] \in {"joinRecycle", "teardown", "delete"} PROVE Forsaken(x, r, wvm[x])'
  <2>1. wvm[x] \in VMs /\ Forsaken(x, r, wvm[x]) /\ wvm'[x] = wvm[x]
    BY <1>4, PoolAssumption DEF TypeOK, WorkerControl, TearSlot
  <2> QED
    BY <1>2, <2>1 DEF Forsaken
<1>5. wpc'[x] = "joinRecycle" /\ InJob(thread'[x][r]) => thread'[x][r].cause = "kill"
  BY <1>1 DEF TearSlot
<1> QED
  BY <1>3, <1>4, <1>5 DEF TearSlot

\* A slot goroutine's step frees a slot only of a job that left the guest, was
\* given up, or is being cancelled.
LEMMA SlotTears ==
  ASSUME TypeOK, WorkerControl, JobContexts, Bound, TearControl,
         NEW w \in Workers, NEW s \in Slots, SlotLoop(w, s)
  PROVE  TearControl'
<1>1. SlotFrame(w, s) /\ thread[w][s].pc # "off" /\ fate \in [Deliveries -> Fates]
  BY SlotKinds, SlotLoopFrame DEF TypeOK
<1>2. /\ wvm[w] \in VMs /\ wvm[w] \in booted /\ vm[w] \in {None, wvm[w]} /\ wvm[w] # None
      /\ wpc[w] \in {"run", "joinRecycle", "joinStop"}
  BY <1>1, AtVM, PoolAssumption
<1>3. SlotControl(w, s) /\ TearSlot(w, s)
  BY DEF Bound, BindingControl, TearControl
<1>4. ASSUME NEW e \in Deliveries, fate[e] \in GivenUp PROVE fate'[e] = fate[e]
  <2>1. CASE Binds(w, s)
    <3>1. Head(queue) \in Deliveries /\ fate[Head(queue)] = "queued"
      <4>1. Len(queue) \in Nat \ {0} /\ Head(queue) = queue[1] /\ Head(queue) \in Deliveries
        BY <2>1 DEF Binds, TypeOK
      <4> QED
        BY <4>1 DEF Bound, QueueControl
    <3> QED
      BY <1>1, <1>4, <2>1, <3>1 DEF Binds, GivenUp
  <2>2. CASE Returns(w, s)
    <3>1. fate[thread[w][s].job] = "bound"
      BY <1>3, <2>2 DEF Returns, SlotControl
    <3> QED
      BY <1>1, <1>4, <2>2, <3>1 DEF Returns, GivenUp
  <2> QED
    BY <1>4, <2>1, <2>2, SlotKinds DEF Resumes, Accepted, Moves, Marks
<1>5. ASSUME NEW x \in Workers, NEW r \in Slots, x # w \/ r # s PROVE TearSlot(x, r)'
  <2>1. /\ vm'[x] = vm[x] /\ nslots'[x] = nslots[x] /\ wpc'[x] = wpc[x] /\ wvm'[x] = wvm[x]
        /\ slot'[x][r] = slot[x][r] /\ thread'[x][r] = thread[x][r] /\ ctxDone' = ctxDone
    BY <1>1, <1>5 DEF SlotFrame
  <2>2. \A v \in VMs : v \in {vm[x], wvm[x]} => v # wvm[w] \/ r # s
    BY <1>2, <1>5, PoolAssumption DEF WorkerControl
  <2>3. \A v \in VMs : v \in {vm[x], wvm[x]} => guest'[v][r] \in {guest[v][r], None}
    BY <1>1, <2>2 DEF SlotFrame
  <2>4. TearSlot(x, r)
    BY DEF TearControl
  <2> QED
    BY <1>4, <2>1, <2>3, <2>4, StillTears
<1>6. TearSlot(w, s)'
  <2>1. /\ vm'[w] = vm[w] /\ nslots'[w] = nslots[w] /\ wpc'[w] = wpc[w] /\ wvm'[w] = wvm[w]
        /\ ctxDone' = ctxDone
    BY <1>1 DEF SlotFrame
  <2>2. vm[w] # None => vm[w] = wvm[w] /\ s < nslots[w] /\ Owns(w, s)
    BY <1>1, <1>2, <1>3 DEF TearSlot, Owns
  <2>3. guest[wvm[w]][s] \in Deliveries \cup {None}
    BY <1>2 DEF TypeOK
  <2>4. SUFFICES
          /\ wpc[w] = "joinRecycle" /\ InJob(thread'[w][s]) => thread'[w][s].cause = "kill"
          /\ ~ctxDone /\ vm[w] # None =>
               guest'[wvm[w]][s] = slot'[w][s].job \/ Forsaken(w, s, wvm[w])'
          /\ wpc[w] = "joinRecycle" => Forsaken(w, s, wvm[w])'
    BY <1>2, <1>3, <2>1, <2>2 DEF TearSlot, Forsaken
  <2>5. ASSUME guest'[wvm[w]][s] = guest[wvm[w]][s], Forsaken(w, s, wvm[w]),
               ~InJob(thread[w][s])
        PROVE  Forsaken(w, s, wvm[w])'
    BY <1>4, <2>1, <2>3, <2>5 DEF Forsaken, BeingKilled
  <2>6. ~ctxDone /\ vm[w] # None =>
          guest[wvm[w]][s] = slot[w][s].job \/ Forsaken(w, s, wvm[w])
    BY <1>3, <2>2 DEF TearSlot
  <2>7. wpc[w] = "joinRecycle" => Forsaken(w, s, wvm[w])
    BY <1>3 DEF TearSlot
  <2>8. CASE Binds(w, s)
    <3>1. wpc[w] # "joinRecycle" /\ ~InJob(thread[w][s]) /\ slot[w][s].job = None /\ guest' = guest
      BY <2>8 DEF Binds, MustStop, SlotCtxDone, InJob
    <3>2. guest[wvm[w]][s] = None => Forsaken(w, s, wvm[w])
      BY DEF Forsaken
    <3> QED
      BY <2>5, <2>6, <3>1, <3>2
  <2>9. CASE Resumes(w, s)
    <3>1. wpc[w] # "joinRecycle" /\ ~InJob(thread[w][s]) /\ slot'[w][s].job = slot[w][s].job
          /\ guest' = guest
      BY <2>9 DEF Resumes, Resumable, SlotCtxDone, InJob
    <3> QED
      BY <2>5, <2>6, <3>1
  <2>10. CASE Accepted(w, s)
    <3> DEFINE d == thread[w][s].job
    <3>1. /\ InJob(thread[w][s]) /\ guest'[wvm[w]][s] = d /\ slot'[w][s] = slot[w][s]
          /\ thread'[w][s] = [pc |-> "drain", job |-> d, cause |-> thread[w][s].cause]
      BY <2>10 DEF Accepted, InJob
    <3>2. thread[w][s].cause = "kill" => Forsaken(w, s, wvm[w])'
      BY <2>1, <3>1 DEF Forsaken, BeingKilled, InJob
    <3>3. wpc[w] = "joinRecycle" => thread[w][s].cause = "kill"
      BY <1>3, <3>1 DEF TearSlot
    <3>4. thread[w][s].cause \in {"none", "plain", "kill"}
      BY DEF TypeOK, ThreadType
    <3>5. ~ctxDone => thread[w][s].cause = "kill" \/ slot[w][s].job = d
      BY <3>1, <3>4 DEF JobContexts
    <3> QED
      BY <3>1, <3>2, <3>3, <3>5
  <2>11. CASE Returns(w, s)
    <3> DEFINE d == thread[w][s].job
               v == wvm[w]
    <3>1. InJob(thread[w][s]) /\ d \in Deliveries /\ fate[d] = "bound" /\ ~InJob(thread'[w][s])
      BY <1>3, <2>11 DEF Returns, SlotControl, JobContexts, InJob
    <3>2. PICK o \in {"over", "lost", "stalled", "killed", "detached"} :
             /\ fate' = [fate EXCEPT ![d] = o]
             /\ o = "over" => guest' = guest /\ (thread[w][s].pc = "dispatch" \/ guest[v][s] # d)
             /\ o = "detached" => thread[w][s].cause = "plain"
      BY <2>11 DEF Returns
    <3>3. CASE guest'[v][s] = d
      <4>1. guest[v][s] = d \/ thread[w][s].pc = "dispatch"
        BY <2>11, <3>3 DEF Returns
      <4>2. guest[v][s] = d => thread[w][s].pc # "dispatch"
        BY <1>2, <3>1, PoolAssumption DEF Bound, GuestControl, Placed
      <4>3. o # "over"
        BY <3>2, <3>3, <4>1, <4>2
      <4>4. o # "detached" => Forsaken(w, s, wvm[w])'
        <5>1. fate'[d] = o
          BY <1>1, <3>1, <3>2
        <5> QED
          BY <2>1, <3>3, <4>3, <5>1 DEF Forsaken, GivenUp
      <4>5. o = "detached" => ctxDone /\ wpc[w] # "joinRecycle"
        BY <1>3, <3>1, <3>2 DEF JobContexts, TearSlot
      <4> QED
        BY <3>1, <4>4, <4>5
    <3>4. CASE guest'[v][s] # d
      <4>1. guest'[v][s] = None \/ (guest'[v][s] = guest[v][s] /\ guest[v][s] # d)
        BY <2>11, <3>4 DEF Returns
      <4>2. guest'[v][s] = None => Forsaken(w, s, wvm[w])'
        BY <2>1 DEF Forsaken
      <4>3. ASSUME guest'[v][s] = guest[v][s], guest[v][s] # d, Forsaken(w, s, wvm[w])
            PROVE  Forsaken(w, s, wvm[w])'
        BY <1>4, <2>1, <2>3, <4>3 DEF Forsaken, BeingKilled
      <4>4. ~ctxDone /\ vm[w] # None /\ guest[v][s] # None /\ guest[v][s] # d
              => Forsaken(w, s, wvm[w])
        <5>1. vm[w] # None => slot[w][s].job \in {d, None}
          BY <1>3, <2>2, <3>1 DEF SlotControl
        <5> QED
          BY <2>6, <5>1
      <4> QED
        BY <2>7, <3>1, <4>1, <4>2, <4>3, <4>4
    <3> QED
      BY <3>3, <3>4
  <2>12. CASE Moves(w, s)
    <3>1. ~InJob(thread[w][s]) /\ ~InJob(thread'[w][s]) /\ slot'[w][s] = slot[w][s] /\ guest' = guest
      BY <2>12 DEF Moves, InJob
    <3> QED
      BY <2>5, <2>6, <2>7, <3>1
  <2>13. CASE Marks(w, s)
    <3>1. ~InJob(thread[w][s]) /\ ~InJob(thread'[w][s]) /\ guest' = guest
      BY <2>13 DEF Marks, InJob
    <3>2. slot'[w][s].job = slot[w][s].job
      BY <1>3, <2>13 DEF Marks, SlotControl, EmptySlot
    <3> QED
      BY <2>5, <2>6, <2>7, <3>1, <3>2
  <2> QED
    BY <2>8, <2>9, <2>10, <2>11, <2>12, <2>13, SlotKinds
<1>7. restarts' = restarts
  BY <1>1 DEF SlotFrame
<1> QED
  BY <1>5, <1>6, <1>7 DEF TearControl

\* A worker begins to take its VM down only when no slot of it has a job left.
LEMMA WorkerTears ==
  ASSUME TypeOK, WorkerControl, JobContexts, Bound, TearControl, NEW w \in Workers, WorkerLoop(w)
  PROVE  TearControl'
<1>1. UNCHANGED <<ctxDone, fate, restarts>>
  BY WorkerFrame
<1>2. \A v \in VMs, t \in Slots : guest'[v][t] \in {guest[v][t], None}
  BY WorkerGuests DEF Bound
<1>3. ASSUME NEW x \in Workers \ {w}, NEW r \in Slots PROVE TearSlot(x, r)'
  <2>1. /\ vm'[x] = vm[x] /\ nslots'[x] = nslots[x] /\ wvm'[x] = wvm[x]
        /\ slot'[x] = slot[x] /\ thread'[x] = thread[x] /\ wpc'[x] = wpc[x]
    BY WorkerFrame
  <2>2. TearSlot(x, r)
    BY DEF TearControl
  <2> QED
    BY <1>1, <1>2, <2>1, <2>2, StillTears
<1>4. ASSUME NEW r \in Slots PROVE TearSlot(w, r)'
  <2>1. TearSlot(w, r) /\ thread[w][r] \in ThreadType
    BY DEF TearControl, TypeOK
  <2>2. thread[w][r].pc # "off" => wpc[w] \in {"run", "joinRecycle", "joinStop"}
    BY DEF WorkerControl
  <2>3. Detach(thread[w][r]).pc = thread[w][r].pc /\ Detach(thread[w][r]).job = thread[w][r].job
        /\ (thread[w][r].cause = "kill" => Detach(thread[w][r]).cause = "kill")
    BY <2>1 DEF Detach, Cancelled, ThreadType
  <2>4. ASSUME vm'[w] = None \/ (vm'[w] = vm[w] /\ nslots'[w] = nslots[w] /\ slot'[w] = slot[w]),
               wpc'[w] \in {"joinRecycle", "teardown", "delete"} =>
                 /\ wvm'[w] = wvm[w] /\ wpc[w] \in {"joinRecycle", "teardown", "delete"}
                 /\ wpc'[w] = "joinRecycle" => wpc[w] = "joinRecycle",
               wpc'[w] # "run",
               thread'[w][r] \in {thread[w][r], Detach(thread[w][r])}
        PROVE  TearSlot(w, r)'
    BY <1>1, <1>2, <2>1, <2>3, <2>4, StillTears
  <2> USE DEF TypeOK
  <2>5. CASE ClaimWorker(w) /\ wpc'[w] = "run"
    <3>1. /\ vm' = vm /\ nslots' = nslots /\ slot' = slot /\ guest' = guest
          /\ thread' = [thread EXCEPT ![w] = Launched(nslots[w])]
          /\ wpc[w] = "claim" /\ vm[w] # None
      BY <2>5 DEF ClaimWorker, stateVars, guestVars
    <3>2. thread'[w][r] = IF r < nslots[w] THEN At("start") ELSE Off
      BY <3>1 DEF Launched
    <3>3. thread[w][r].pc = "off" /\ ~InJob(thread[w][r])
      BY <2>2, <3>1 DEF InJob
    <3>4. ~ctxDone /\ vm[w] # None =>
            guest'[vm'[w]][r] = slot'[w][r].job \/ Forsaken(w, r, vm[w])'
      BY <1>1, <2>1, <3>1, <3>3 DEF TearSlot, Forsaken, BeingKilled
    <3>5. ~InJob(thread'[w][r]) /\ (thread'[w][r].pc # "off" => r < nslots[w])
      BY <3>2 DEF At, Off, InJob
    <3> QED
      BY <1>1, <2>5, <3>1, <3>4, <3>5 DEF TearSlot
  <2>6. CASE ClaimWorker(w) /\ wpc'[w] # "run"
    <3>1. UNCHANGED <<vm, nslots, slot, thread>> /\ wpc'[w] = "warm"
      BY <2>6 DEF ClaimWorker, stateVars
    <3> QED
      BY <2>4, <3>1
  <2>7. CASE ActivateWorker(w)
    <3>1. PICK v \in VMs \ Remembered : vm' = [vm EXCEPT ![w] = v]
      BY <2>7 DEF ActivateWorker
    <3>2. guest[v][r] = None
      BY <3>1 DEF Remembered, Bound, GuestControl
    <3>3. /\ vm'[w] = v /\ guest' = guest /\ nslots'[w] = wcount[w] /\ wpc'[w] = "run"
          /\ thread'[w][r] = IF r < wcount[w] THEN At("start") ELSE Off
      BY <2>7, <3>1 DEF ActivateWorker, Launched
    <3>4. Forsaken(w, r, vm[w])' /\ v # None
      BY <3>1, <3>2, <3>3, PoolAssumption DEF Forsaken
    <3> QED
      BY <3>3, <3>4 DEF TearSlot, At, Off, InJob
  <2>8. CASE MarkWarmError(w)
    <3>1. vm'[w] = None /\ thread' = thread /\ wpc'[w] = "retry"
      BY <2>8 DEF MarkWarmError, WorkerControl
    <3> QED
      BY <2>4, <3>1
  <2>9. CASE StopForShutdown(w)
    <3>1. /\ UNCHANGED <<vm, nslots, slot>> /\ wpc'[w] = "joinStop"
          /\ thread'[w][r] = Detach(thread[w][r])
      BY <2>9 DEF StopForShutdown, stateVars
    <3> QED
      BY <2>4, <3>1
  <2>10. CASE MarkWarming(w)  BY <2>4, <2>10 DEF MarkWarming
  <2>11. CASE WarmRequest(w)  BY <2>4, <2>11 DEF WarmRequest, stateVars
  <2>12. CASE WarmRetry(w)  BY <2>4, <2>12 DEF WarmRetry, stateVars
  <2>13. CASE StopForRecycle(w)
    <3>1. /\ ~ctxDone /\ wpc[w] = "run" /\ slot[w][r].job = None
          /\ vm'[w] = None /\ wvm'[w] = wvm[w] /\ wpc'[w] = "joinRecycle" /\ guest' = guest
          /\ thread'[w][r] = Detach(thread[w][r])
      BY <2>13 DEF StopForRecycle, OutOfService, WorkerBusy, guestVars
    <3>2. InJob(thread[w][r]) => thread[w][r].cause = "kill"
      <4>1. thread[w][r].cause \in {"none", "plain", "kill"}
        BY <2>1 DEF ThreadType
      <4> QED
        BY <3>1, <4>1, PoolAssumption DEF JobContexts
    <3>3. InJob(thread'[w][r]) <=> InJob(thread[w][r])
      BY <2>3, <3>1 DEF InJob
    <3>4. vm[w] # None /\ vm[w] = wvm[w]
      BY <2>1, <3>1 DEF WorkerControl, TearSlot
    <3>5. Forsaken(w, r, wvm[w])'
      <4>1. wvm[w] \in VMs /\ guest[wvm[w]][r] \in Deliveries \cup {None}
        BY <3>1 DEF WorkerControl
      <4>2. Forsaken(w, r, wvm[w])
        BY <2>1, <3>1, <3>4 DEF TearSlot, Forsaken
      <4> QED
        BY <1>1, <2>3, <3>1, <3>3, <4>1, <4>2 DEF Forsaken, BeingKilled
    <3> QED
      BY <2>3, <3>1, <3>2, <3>3, <3>5 DEF TearSlot
  <2>14. CASE SlotsJoined(w)
    <3>1. /\ UNCHANGED <<vm, nslots, slot, thread, wvm>>
          /\ (wpc[w] = "joinRecycle" /\ wpc'[w] = "teardown") \/ wpc'[w] = "clearStop"
      BY <2>14 DEF SlotsJoined, Leave, stateVars
    <3> QED
      BY <2>4, <3>1
  <2>15. CASE TeardownDrain(w)
    <3>1. UNCHANGED <<vm, nslots, slot, thread, wvm>> /\ wpc[w] = "teardown" /\ wpc'[w] = "delete"
      BY <2>15 DEF TeardownDrain, stateVars
    <3> QED
      BY <2>4, <3>1
  <2>16. CASE TeardownDelete(w)
    <3>1. UNCHANGED <<vm, nslots, slot, thread>> /\ wpc'[w] = "clear"
      BY <2>16 DEF TeardownDelete, stateVars
    <3> QED
      BY <2>4, <3>1
  <2>17. CASE ClearWorker(w)
    <3>1. vm'[w] = None /\ thread' = thread /\ wpc'[w] \in {"claim", "exited"}
      BY <2>17 DEF ClearWorker
    <3> QED
      BY <2>4, <3>1
  <2> QED
    BY <2>5, <2>6, <2>7, <2>8, <2>9, <2>10, <2>11, <2>12, <2>13, <2>14, <2>15, <2>16, <2>17
       DEF WorkerLoop
<1> QED
  BY <1>1, <1>3, <1>4 DEF TearControl

\* A cancelled job keeps its slot, or ends, or its goroutine is cancelling it.
LEMMA CancelTears ==
  ASSUME TypeOK, WorkerControl, JobContexts, Bound, TearControl,
         NEW w \in Workers, NEW s \in Slots, CancelSlot(w, s), slot[w][s].job # None,
         UNCHANGED <<ctxDone, vm, nslots, wpc, wvm, guest, restarts>>
  PROVE  TearControl'
<1> DEFINE old == thread[w][s]
           d == slot[w][s].job
           spared == slot[w][s].adopted /\ ~slot[w][s].cancel
           new == IF spared THEN EmptySlot ELSE WithCancel(slot[w][s], FALSE)
           thr == IF slot[w][s].cancel THEN Cancelled(old, "kill") ELSE old
           o == IF spared /\ ~InJob(old) THEN "killed" ELSE fate[d]
<1>1. /\ slot' = [slot EXCEPT ![w] = [slot[w] EXCEPT ![s] = new]]
      /\ thread' = [thread EXCEPT ![w] = [thread[w] EXCEPT ![s] = thr]]
      /\ fate' = [fate EXCEPT ![d] = o]
  BY DEF CancelSlot, TypeOK, Kill
<1>2. /\ old \in ThreadType /\ d \in Deliveries /\ fate \in [Deliveries -> Fates]
      /\ fate[d] = "bound" /\ vm[w] # None /\ s < nslots[w]
  BY DEF TypeOK, SlotType, Bound, BindingControl, SlotControl
<1>3. /\ thr.job = old.job /\ thr.pc = old.pc /\ (InJob(thr) <=> InJob(old))
      /\ old.cause = "kill" => thr.cause = "kill"
  BY <1>2 DEF Cancelled, InJob, ThreadType
<1>4. ~spared => new.job = d
  BY DEF WithCancel
<1>5. /\ \A e \in Deliveries : fate[e] \in GivenUp => fate'[e] = fate[e]
      /\ fate'[d] = o
  BY <1>1, <1>2 DEF GivenUp
<1>6. slot'[w][s] = new /\ thread'[w][s] = thr
  BY <1>1 DEF TypeOK
<1>7. spared /\ InJob(old) /\ ~ctxDone => old.cause = "kill" /\ old.job = d
  <2>1. InJob(old) /\ old.cause = "none" => slot[w][s].cancel
    BY DEF JobContexts
  <2>2. InJob(old) => old.job = d
    <3>1. InJob(old) => Owns(w, s)
      BY <1>2, AtVM DEF InJob, Owns
    <3> QED
      BY <1>2, <3>1, PoolAssumption DEF Bound, BindingControl, SlotControl
  <2>3. old.cause = "plain" => ctxDone
    BY DEF JobContexts
  <2> QED
    BY <1>2, <2>1, <2>2, <2>3 DEF ThreadType
<1>8. TearSlot(w, s)'
  <2>1. TearSlot(w, s)
    BY DEF TearControl
  <2>2. wpc[w] \notin {"joinRecycle", "teardown", "delete"} /\ vm[w] \in VMs
    <3>1. vm[w] # None
      BY <1>2
    <3>2. vm[w] \in VMs
      BY <3>1 DEF TypeOK
    <3>3. wpc[w] \in {"run", "joinStop", "clearStop", "claim"}
      BY <3>1 DEF WorkerControl
    <3> QED
      BY <3>2, <3>3
  <2>3. ~ctxDone => guest[vm[w]][s] = slot'[w][s].job \/ Forsaken(w, s, vm[w])'
    <3> SUFFICES ASSUME ~ctxDone
                 PROVE  guest[vm[w]][s] = slot'[w][s].job \/ Forsaken(w, s, vm[w])'
      OBVIOUS
    <3>1. guest[vm[w]][s] \in Deliveries \cup {None}
      BY <2>2 DEF TypeOK
    <3>2. CASE Forsaken(w, s, vm[w])
      <4>1. BeingKilled(w, s, guest[vm[w]][s]) => BeingKilled(w, s, guest[vm[w]][s])'
        BY <1>3, <1>6 DEF BeingKilled
      <4> QED
        BY <1>5, <3>1, <3>2, <4>1 DEF Forsaken
    <3>3. CASE guest[vm[w]][s] = d
      <4>1. CASE ~spared
        BY <1>4, <1>6, <3>3, <4>1
      <4>2. CASE spared /\ ~InJob(old)
        BY <1>5, <3>3, <4>2 DEF Forsaken, GivenUp
      <4>3. CASE spared /\ InJob(old)
        BY <1>3, <1>6, <1>7, <3>3, <4>3 DEF Forsaken, BeingKilled
      <4> QED
        BY <4>1, <4>2, <4>3
    <3> QED
      BY <1>2, <2>1, <3>2, <3>3 DEF TearSlot
  <2>4. thread'[w][s].pc = thread[w][s].pc
    BY <1>3, <1>6
  <2> HIDE DEF old, d, spared, new, thr, o
  <2> QED
    BY <2>1, <2>2, <2>3, <2>4 DEF TearSlot
<1>9. ASSUME NEW x \in Workers, NEW r \in Slots, x # w \/ r # s PROVE TearSlot(x, r)'
  <2>1. slot'[x][r] = slot[x][r] /\ thread'[x][r] = thread[x][r]
    BY <1>1, <1>9 DEF TypeOK
  <2>2. TearSlot(x, r)
    BY DEF TearControl
  <2> HIDE DEF old, d, spared, new, thr, o
  <2> QED
    BY <1>5, <2>1, <2>2, StillTears
<1> QED
  BY <1>8, <1>9 DEF TearControl

\* A start under a fixed capacity adopts every execution of the VMs it takes.
LEMMA StartAdoptsAll ==
  ASSUME FixedCapacity, TypeOK, WorkerControl, ServiceControl, TearControl, Start
  PROVE  /\ \A v \in booted, s \in Slots : s < jobsPerVM
         /\ TearControl'
<1>1. \A v \in booted, s \in Slots : s < jobsPerVM
  <2>1. CASE Restarts = 0
    <3>1. restarts = 0
      BY <2>1, PoolAssumption DEF TypeOK, TearControl
    <3> QED
      BY <3>1, StartFacts DEF ServiceControl
  <2>2. CASE \A m, n \in SlotCounts : m = n
    <3>1. jobsPerVM \in SlotCounts /\ SlotCounts \subseteq Nat
      BY PoolAssumption DEF TypeOK
    <3>2. ASSUME NEW s \in Slots PROVE s < jobsPerVM
      <4>1. PICK n \in SlotCounts : s \in 0 .. n - 1
        BY DEF Slots
      <4> QED
        BY <2>2, <3>1, <4>1
    <3> QED
      BY <3>2
  <2> QED
    BY <2>1, <2>2 DEF FixedCapacity
<1>2. /\ \A w \in Workers, s \in Slots : thread'[w][s].pc = "off" /\ ~InJob(thread'[w][s])
      /\ \A w \in Workers : wpc'[w] = "claim"
      /\ restarts' = restarts
  BY StartFacts DEF InJob
<1>3. ASSUME NEW w \in Workers, NEW s \in Slots, vm'[w] # None
      PROVE  guest'[vm'[w]][s] = slot'[w][s].job \/ Forsaken(w, s, vm[w])'
  <2>1. vm'[w] \in VMs /\ vm'[w] \in booted' /\ vm'[w] \in booted
    BY <1>3, StartFacts
  <2>2. guest'[vm'[w]][s] = guest[vm'[w]][s] /\ s < jobsPerVM
    BY <1>1, <2>1, StartFacts
  <2>3. CASE guest[vm'[w]][s] = None
    BY <2>2, <2>3 DEF Forsaken
  <2>4. CASE guest[vm'[w]][s] # None
    BY <1>3, <2>2, <2>4, StartFacts DEF Adopts
  <2> QED
    BY <2>3, <2>4
<1> QED
  BY <1>1, <1>2, <1>3 DEF TearControl, TearSlot

\* Every step keeps what may be torn down to what was given up.
LEMMA TearStep ==
  ASSUME FixedCapacity, TypeOK, WorkerControl, JobContexts, Bound, InService, TearControl,
         [Next]_vars
  PROVE  TearControl'
<1>1. ASSUME ctxDone => ctxDone', UNCHANGED <<vm, nslots, wvm, wpc, restarts>>,
             \A x \in Workers, r \in Slots :
               /\ slot'[x][r].job = slot[x][r].job
               /\ thread'[x][r] \in {thread[x][r], Detach(thread[x][r])},
             \A v \in VMs, t \in Slots : guest'[v][t] \in {guest[v][t], None},
             \A d \in Deliveries : fate[d] \in GivenUp => fate'[d] \in GivenUp
      PROVE  TearControl'
  <2>1. ASSUME NEW x \in Workers, NEW r \in Slots PROVE TearSlot(x, r)'
    <3>1. TearSlot(x, r) /\ thread[x][r] \in ThreadType
      BY DEF TearControl, TypeOK
    <3>2. /\ thread'[x][r].pc = thread[x][r].pc /\ thread'[x][r].job = thread[x][r].job
          /\ thread[x][r].cause = "kill" => thread'[x][r].cause = "kill"
      BY <1>1, <3>1 DEF Detach, Cancelled, ThreadType
    <3> QED
      BY <1>1, <3>1, <3>2, StillTears
  <2> QED
    BY <1>1, <2>1 DEF TearControl
<1>2. CASE UNCHANGED <<ctxDone, stateVars, loopVars, thread, guestVars, fate, restarts>>
  BY <1>1, <1>2 DEF stateVars, loopVars, guestVars
<1>3. ASSUME NEW d \in Deliveries, CancelRun(d) PROVE TearControl'
  <2>1. PICK w \in Workers, s \in Slots : slot[w][s].job # None /\ CancelSlot(w, s)
    BY <1>3 DEF CancelRun
  <2>2. UNCHANGED <<ctxDone, vm, nslots, wpc, wvm, guest, restarts>>
    BY <1>3 DEF CancelRun, poolVars, loopVars, guestVars
  <2> QED
    BY <2>1, <2>2, CancelTears
<1>4. CASE RequestBusyRecycle
  <2>1. claimed \in BusyType /\ claimed.w \in Workers /\ claimed.s \in Slots
        /\ claimed.job \in Deliveries
    BY <1>4 DEF RequestBusyRecycle, BusyType, TypeOK
  <2>2. UNCHANGED <<ctxDone, vm, nslots, wpc, wvm, guest, restarts>>
    BY <1>4 DEF RequestBusyRecycle, poolVars, loopVars, guestVars
  <2>3. CASE SameBinding(claimed) /\ CancelSlot(claimed.w, claimed.s)
    <3>1. slot[claimed.w][claimed.s].job # None
      BY <2>1, <2>3, PoolAssumption DEF SameBinding
    <3> QED
      BY <2>1, <2>2, <2>3, <3>1, CancelTears
  <2>4. CASE UNCHANGED <<recycle, slot, thread, fate>>
    BY <1>1, <2>2, <2>4
  <2> QED
    BY <1>4, <2>3, <2>4 DEF RequestBusyRecycle
<1>5. CASE Reconcile
  <2>1. ASSUME NEW c \in doomed, ClaimSlotReapWarning(c) PROVE TearControl'
    <3>1. UNCHANGED <<ctxDone, vm, nslots, wvm, wpc, thread, guest, fate, restarts>>
      BY <2>1 DEF ClaimSlotReapWarning, poolVars, loopVars, guestVars
    <3>2. \A x \in Workers, r \in Slots : slot'[x][r].job = slot[x][r].job
      BY <2>1, WarnedJobs
    <3> QED
      BY <1>1, <3>1, <3>2
  <2>2. ASSUME NEW c \in idle, ReconcileIdle(c) PROVE TearControl'
    <3>1. UNCHANGED <<ctxDone, vm, nslots, slot, wvm, wpc, thread, guest, fate, restarts>>
      BY <2>2 DEF ReconcileIdle, poolVars, loopVars, guestVars
    <3> QED
      BY <1>1, <3>1
  <2> QED
    BY <1>2, <1>4, <1>5, <2>1, <2>2 DEF Reconcile, ReconcileBegins, PastMaxBind, Condemn,
       PastPickupTimeout, ReapEnds, ReconcileEnds, poolVars
<1>6. CASE Shutdown \/ ContextDone
  <2>1. /\ thread' = [w \in Workers |-> [s \in Slots |-> Detach(thread[w][s])]]
        /\ ctxDone' /\ UNCHANGED <<stateVars, loopVars, guestVars, fate, restarts>>
    BY <1>6 DEF Shutdown, ContextDone
  <2>2. \A x \in Workers, r \in Slots : thread'[x][r] = Detach(thread[x][r])
    BY <2>1
  <2> QED
    BY <1>1, <2>1, <2>2 DEF stateVars, loopVars, guestVars
<1>7. ASSUME NEW n \in Requests, Reconfigure(n) PROVE TearControl'
  BY <1>2, <1>7 DEF Reconfigure
<1>8. CASE ContextWatcher
  BY <1>2, <1>8 DEF ContextWatcher
<1>9. CASE UNCHANGED vars
  BY <1>2, <1>9 DEF vars, poolVars
<1>10. ASSUME NEW v \in VMs, NEW s \in Slots, GuestExit(v, s) PROVE TearControl'
  <2>1. \A u \in VMs, t \in Slots : guest'[u][t] \in {guest[u][t], None}
    BY <1>10 DEF GuestExit, TypeOK
  <2> QED
    BY <1>1, <1>10, <2>1 DEF GuestExit, poolVars, stateVars, loopVars
<1>11. ASSUME NEW d \in Deliveries, Enqueue(d) PROVE TearControl'
  <2>1. \A e \in Deliveries : fate[e] \in GivenUp => fate'[e] \in GivenUp
    BY <1>11 DEF Enqueue, TypeOK, GivenUp
  <2> QED
    BY <1>1, <1>11, <2>1 DEF Enqueue, stateVars, loopVars, guestVars
<1>12. CASE Start
  BY <1>12, StartAdoptsAll DEF InService
<1>13. CASE Restart
  <2>1. /\ \A w \in Workers : vm'[w] = None /\ wpc'[w] = "exited"
        /\ \A w \in Workers, s \in Slots : thread'[w][s] = Off
        /\ restarts' <= Restarts
    BY <1>13, PoolAssumption DEF Restart, AllOff, TypeOK
  <2> QED
    BY <2>1 DEF TearControl, TearSlot
<1>14. ASSUME NEW w \in Workers, WorkerLoop(w) PROVE TearControl'
  BY <1>14, WorkerTears
<1>15. ASSUME NEW w \in Workers, NEW s \in Slots, SlotLoop(w, s) PROVE TearControl'
  BY <1>15, SlotTears
<1> QED
  BY <1>3, <1>5, <1>6, <1>7, <1>8, <1>9, <1>10, <1>11, <1>12, <1>13, <1>14, <1>15 DEF Next

\* A VM goes only with what was given up still running on it.
LEMMA TornStep ==
  ASSUME FixedCapacity, TypeOK, WorkerControl, InService, TearControl, Next,
         NEW v \in booted \ booted', NEW s \in Slots, guest[v][s] # None
  PROVE  fate[guest[v][s]] \in GivenUp
<1>1. ASSUME NEW w \in Workers, WorkerLoop(w) PROVE fate[guest[v][s]] \in GivenUp
  <2>1. TeardownDelete(w)
    BY <1>1 DEF WorkerLoop, ClaimWorker, MarkWarming, WarmRequest, ActivateWorker, MarkWarmError,
       WarmRetry, StopForShutdown, StopForRecycle, OutOfService, SlotsJoined, Leave, TeardownDrain,
       ClearWorker, guestVars
  <2>2. wpc[w] = "delete" /\ v = wvm[w]
    BY <2>1 DEF TeardownDelete, guestVars
  <2>3. thread[w][s].pc = "off"
    BY <2>2 DEF WorkerControl
  <2>4. Forsaken(w, s, v)
    BY <2>2 DEF TearControl, TearSlot
  <2> QED
    BY <2>3, <2>4 DEF Forsaken, BeingKilled, InJob
<1>2. ASSUME NEW w \in Workers, NEW r \in Slots, SlotLoop(w, r) PROVE FALSE
  BY <1>2, SlotLoopFrame
<1>3. CASE Reconcile
  BY <1>3, ReconcileFrame
<1>4. CASE Start
  BY <1>4, StartFacts, StartAdoptsAll DEF InService, TypeOK
<1> QED
  BY <1>1, <1>2, <1>3, <1>4 DEF Next, Enqueue, CancelRun, Reconfigure, Restart, Shutdown,
     ContextDone, ContextWatcher, GuestExit, guestVars

\* With one jobs_per_vm for every life of the broker, or one life, a VM is deleted
\* only when everything still running on it was cancelled, stalled or lost, in
\* a pool of any size (waitForWorkerRecycleOrShutdown, Adopt).
THEOREM NoneTornDown == FixedCapacity => (Spec => NoHealthyJobTornDown)
<1> SUFFICES ASSUME FixedCapacity PROVE Spec => NoHealthyJobTornDown
  OBVIOUS
<1>1. Init => TearControl
  BY PoolAssumption DEF Init, TearControl, TearSlot, AllOff, Off, At, InJob
<1>2. TypeOK /\ WorkerControl /\ JobContexts /\ Bound /\ InService /\ TearControl /\ [Next]_vars
        => TearControl'
  BY TearStep
<1>3. TypeOK /\ WorkerControl /\ InService /\ TearControl /\ [Next]_vars
        => [\A v \in booted \ booted', s \in Slots :
              guest[v][s] # None => fate[guest[v][s]] \in GivenUp]_vars
  BY TornStep
<1> QED
  BY <1>1, <1>2, <1>3, ServiceInvariant, PTL DEF Spec, NoHealthyJobTornDown
=============================================================================
