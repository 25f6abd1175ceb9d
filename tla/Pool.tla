-------------------------------- MODULE Pool --------------------------------
(***************************************************************************)
(* The warm-VM runner pool (internal/runnerpool), with the broker's        *)
(* RunJob / ResumeJob drains (internal/broker/bind.go) as its slot threads *)
(* execute them and the guest's running executions as its environment.     *)
(*                                                                         *)
(* One worker goroutine per warm VM, one slot goroutine per slot of that   *)
(* VM, one reconciler goroutine, and callers of Enqueue, CancelRun,        *)
(* Reconfigure and Shutdown.  All of them share Pool.mu: an action is one  *)
(* critical section of the code, or one call out of it (Warm, RunJob,      *)
(* Teardown) whose result the next critical section consumes.              *)
(*                                                                         *)
(* Time is abstract: a deadline that may have passed is a choice.  A VM    *)
(* name is only ever compared for equality, so a name nobody remembers may *)
(* be used again.                                                          *)
(***************************************************************************)
EXTENDS Naturals, Sequences, FiniteSets

CONSTANTS
  Workers,      \* worker indexes, 0 .. RunnerCount-1
  VMs,          \* VM names
  Deliveries,   \* queued-job webhook deliveries, each enqueued at most once
  JobID,        \* the workflow job id of each delivery (two may share one)
  SlotCounts,   \* values jobs_per_vm takes
  Requests,     \* values of jobs_per_vm a live reload asks for, 0 for unset
  Restarts,     \* bound: how often the broker process restarts
  Strays,       \* bound: VMs running that no worker owns when a delete fails
  Hygiene,      \* may an idle VM fail a health check, max_idle or max_age?
  None          \* no job, no VM, no candidate

ASSUME PoolAssumption ==
  /\ SlotCounts \subseteq Nat \ {0}
  /\ SlotCounts # {}
  /\ Requests \subseteq Nat
  /\ \A n \in Requests : (IF n = 0 THEN 1 ELSE n) \in SlotCounts
  /\ None \notin Deliveries \cup VMs
  /\ JobID \in [Deliveries -> Nat]
  /\ Restarts \in Nat /\ Strays \in Nat
  /\ Hygiene \in BOOLEAN

Slots == UNION {0 .. n - 1 : n \in SlotCounts}

VARIABLES
  queue,        \* Pool.queue
  jobsPerVM,    \* Pool.options.JobsPerVM
  started,      \* Pool.started
  ctxDone,      \* the pool context is cancelled
  shuttingDown, \* Pool.shuttingDown
  vm,           \* states[w].vm
  warming,      \* states[w].warming
  recycle,      \* states[w].recycle
  nslots,       \* len(states[w].slots)
  slot,         \* states[w].slots[s]
  wpc,          \* control point of workerLoop
  wvm,          \* its local vm
  wcount,       \* its local slotCount, captured before Warm
  thread,       \* slotLoop goroutines: control point, local job, cancel cause
  pass,         \* control point of the reconciler
  cands,        \* busy candidates of this pass not yet judged
  doomed,       \* busy candidates judged reapable
  claimed,      \* the candidate between claimSlotReapWarning and requestBusyRecycle
  idle,         \* idle candidates of this pass
  booted,       \* running VMs on the host
  draining,     \* VMs whose guest agent refuses new executions
  guest,        \* guest[v][s]: the execution running on slot s of VM v
  fate,         \* history: what became of each delivery
  restarts      \* broker restarts so far

poolVars  == <<queue, jobsPerVM, started, ctxDone, shuttingDown>>
stateVars == <<vm, warming, recycle, nslots, slot>>
loopVars  == <<wpc, wvm, wcount>>
reapVars  == <<pass, cands, doomed, claimed, idle>>
guestVars == <<booted, draining, guest>>
vars == <<poolVars, stateVars, loopVars, thread, reapVars, guestVars, fate, restarts>>

-----------------------------------------------------------------------------
EmptySlot == [job |-> None, adopted |-> FALSE, cancel |-> FALSE, warned |-> FALSE]
At(pc)    == [pc |-> pc, job |-> None, cause |-> "none"]
Off       == At("off")
AllEmpty  == [s \in Slots |-> EmptySlot]
AllOff    == [s \in Slots |-> Off]
NoGuest   == [s \in Slots |-> None]

\* Mutant: the loop that starts the goroutines ends one slot early.
LaunchedShort(n) == [s \in Slots |-> IF s + 1 < n THEN At("start") ELSE Off]

\* slotLoop goroutines start for the slots below n.
Launched(n) == [s \in Slots |-> IF s < n THEN At("start") ELSE Off]

\* normalizeOptions: a non-positive jobs_per_vm becomes the default of one.
Normalize(n) == IF n = 0 THEN 1 ELSE n

\* Mutant: only the first slot is looked at.
WorkerBusyFirstSlot(w) == slot[w][0].job # None

WorkerBusy(w) == \E s \in Slots : slot[w][s].job # None

\* A thread inside Binder.RunJob or Binder.ResumeJob.
InJob(t) == t.pc \in {"dispatch", "drain", "resume"}

\* Cancelling a context reaches a job context that has no cause yet: the
\* first cause of a context wins.
Cancelled(t, cause) ==
  IF InJob(t) /\ t.cause = "none"
    THEN [pc |-> t.pc, job |-> t.job, cause |-> cause] ELSE t

\* A parent context ends: plain context.Canceled.
Detach(t) == Cancelled(t, "plain")

\* Mutant: the cancel function is called without the custom cause.
KillWithoutCause(t) == Cancelled(t, "plain")

\* jobCancel(errRecycle) or jobCancel(errCancelRun).
Kill(t) == Cancelled(t, "kill")

WithCancel(r, b) ==
  [job |-> r.job, adopted |-> r.adopted, cancel |-> b, warned |-> r.warned]
Warned(r) ==
  [job |-> r.job, adopted |-> r.adopted, cancel |-> r.cancel, warned |-> TRUE]

SlotCtxDone(w) == ctxDone \/ wpc[w] \in {"joinRecycle", "joinStop"}

\* The guard the slot's critical sections share: same VM, slot in range.
Owns(w, s) == vm[w] # None /\ vm[w] = wvm[w] /\ s < nslots[w]

\* What snapshotLocked counts as idle capacity.
Alive(w) == vm[w] # None /\ ~recycle[w]
IdleSlots == {x \in Workers \X Slots :
                Alive(x[1]) /\ x[2] < nslots[x[1]] /\ slot[x[1]][x[2]].job = None}

-----------------------------------------------------------------------------
(* Callers *)

Enqueue(d) ==
  /\ fate[d] = "new"
  /\ ~shuttingDown
  /\ queue' = Append(queue, d)
  /\ fate' = [fate EXCEPT ![d] = "queued"]
  /\ UNCHANGED <<jobsPerVM, started, ctxDone, shuttingDown, stateVars, loopVars,
                 thread, reapVars, guestVars, restarts>>

Reconfigure(requested) ==
  /\ jobsPerVM' = Normalize(requested)
  /\ UNCHANGED <<queue, started, ctxDone, shuttingDown, stateVars, loopVars,
                 thread, reapVars, guestVars, fate, restarts>>

\* Marks the worker, cancels the job with a custom cause; an adopted slot
\* without a cancel function is freed on the spot.
CancelSlot(w, s) ==
  /\ recycle' = [recycle EXCEPT ![w] = TRUE]
  /\ slot' = [slot EXCEPT ![w][s] =
                IF @.adopted /\ ~@.cancel THEN EmptySlot ELSE WithCancel(@, FALSE)]
  /\ thread' = [thread EXCEPT ![w][s] = IF slot[w][s].cancel THEN Kill(@) ELSE @]
  /\ fate' = [fate EXCEPT ![slot[w][s].job] =
                IF slot[w][s].adopted /\ ~slot[w][s].cancel /\ ~InJob(thread[w][s])
                  THEN "killed" ELSE @]

CancelRun(d) ==
  /\ \E w \in Workers, s \in Slots :
       /\ slot[w][s].job # None
       /\ JobID[slot[w][s].job] = JobID[d]
       /\ CancelSlot(w, s)
  /\ UNCHANGED <<poolVars, vm, warming, nslots, loopVars, reapVars, guestVars, restarts>>

\* Shutdown marks the pool and cancels its context in one critical section.
Shutdown ==
  /\ started /\ ~shuttingDown
  /\ shuttingDown' = TRUE
  /\ ctxDone' = TRUE
  /\ thread' = [w \in Workers |-> [s \in Slots |-> Detach(thread[w][s])]]
  /\ UNCHANGED <<queue, jobsPerVM, started, stateVars, loopVars, reapVars,
                 guestVars, fate, restarts>>

\* The parent context ends first (SIGTERM); the watcher goroutine follows.
ContextDone ==
  /\ started /\ ~ctxDone
  /\ ctxDone' = TRUE
  /\ thread' = [w \in Workers |-> [s \in Slots |-> Detach(thread[w][s])]]
  /\ UNCHANGED <<queue, jobsPerVM, started, shuttingDown, stateVars, loopVars,
                 reapVars, guestVars, fate, restarts>>

ContextWatcher ==
  /\ ctxDone /\ ~shuttingDown
  /\ shuttingDown' = TRUE
  /\ UNCHANGED <<queue, jobsPerVM, started, ctxDone, stateVars, loopVars, thread,
                 reapVars, guestVars, fate, restarts>>

-----------------------------------------------------------------------------
(* Start and adoption *)

\* Slots reattachSlots reports busy: below the CONFIGURED count only.
Bindings(v) == {s \in Slots : s < jobsPerVM /\ guest[v][s] # None}

AdoptedSlot(d) == [job |-> d, adopted |-> TRUE, cancel |-> FALSE, warned |-> FALSE]

\* Adopt answers for the VMs in reach: busy VMs first, then idle ones up to
\* RunnerCount; an idle VM beyond the limit is stopped and deleted, a busy
\* one is left alone.  Start installs the answer and launches the workers.
Start ==
  /\ ~started
  /\ \E reach \in SUBSET booted :
       LET busyVMs == {v \in reach : Bindings(v) # {}}
           limit   == Cardinality(Workers)
       IN \E place \in [Workers -> reach \cup {None}] :
            LET chosen == {place[w] : w \in Workers} \ {None}
                excess == (reach \ busyVMs) \ chosen
            IN /\ \A w, x \in Workers : place[w] = place[x] /\ w # x => place[w] = None
               /\ Cardinality(chosen) = limit \/ chosen = reach
               /\ busyVMs \subseteq chosen \/ chosen \subseteq busyVMs
               /\ vm' = place
               /\ nslots' = [w \in Workers |-> jobsPerVM]
               /\ slot' = [w \in Workers |->
                     IF place[w] = None THEN AllEmpty
                     ELSE [s \in Slots |-> IF s \in Bindings(place[w])
                                             THEN AdoptedSlot(guest[place[w]][s])
                                             ELSE EmptySlot]]
               /\ booted' = booted \ excess
               /\ draining' = draining \ excess
               /\ guest' = [v \in VMs |-> IF v \in excess THEN NoGuest ELSE guest[v]]
               /\ fate' = [d \in Deliveries |->
                     IF \E w \in Workers, s \in Slots : slot'[w][s].job = d
                       THEN "bound" ELSE fate[d]]
  /\ started' = TRUE
  /\ wpc' = [w \in Workers |-> "claim"]
  /\ UNCHANGED <<queue, jobsPerVM, ctxDone, shuttingDown, warming, recycle, wvm,
                 wcount, thread, reapVars, restarts>>

\* The broker process ends, cleanly or not, and a new one reads the config.
\* Guests keep running; everything in memory is gone.
Restart ==
  /\ started
  /\ restarts < Restarts
  /\ restarts' = restarts + 1
  /\ queue' = <<>>
  /\ jobsPerVM' \in SlotCounts
  /\ started' = FALSE /\ ctxDone' = FALSE /\ shuttingDown' = FALSE
  /\ vm' = [w \in Workers |-> None]
  /\ warming' = [w \in Workers |-> FALSE]
  /\ recycle' = [w \in Workers |-> FALSE]
  /\ nslots' = [w \in Workers |-> jobsPerVM']
  /\ slot' = [w \in Workers |-> AllEmpty]
  /\ wpc' = [w \in Workers |-> "exited"]
  /\ wvm' = [w \in Workers |-> None]
  /\ wcount' = nslots'
  /\ thread' = [w \in Workers |-> AllOff]
  /\ pass' = "off" /\ cands' = {} /\ doomed' = {} /\ claimed' = None /\ idle' = {}
  /\ fate' = [d \in Deliveries |->
                IF fate[d] = "queued" THEN "over"
                ELSE IF fate[d] = "bound" THEN "detached" ELSE fate[d]]
  /\ UNCHANGED guestVars

-----------------------------------------------------------------------------
(* workerLoop *)

ClaimWorker(w) ==
  /\ wpc[w] = "claim"
  /\ \/ /\ vm[w] # None /\ ~warming[w]
        /\ wvm' = [wvm EXCEPT ![w] = vm[w]]
        /\ thread' = [thread EXCEPT ![w] = Launched(nslots[w])]
        /\ wpc' = [wpc EXCEPT ![w] = "run"]
     \/ /\ vm[w] = None \/ warming[w]
        /\ wpc' = [wpc EXCEPT ![w] = "warm"]
        /\ UNCHANGED <<wvm, thread>>
  /\ UNCHANGED <<poolVars, stateVars, wcount, reapVars, guestVars, fate, restarts>>

MarkWarming(w) ==
  /\ wpc[w] = "warm"
  /\ wpc' = [wpc EXCEPT ![w] = "request"]
  /\ vm' = [vm EXCEPT ![w] = None]
  /\ warming' = [warming EXCEPT ![w] = TRUE]
  /\ recycle' = [recycle EXCEPT ![w] = FALSE]
  /\ nslots' = [nslots EXCEPT ![w] = jobsPerVM]
  /\ slot' = [slot EXCEPT ![w] = AllEmpty]
  /\ UNCHANGED <<poolVars, wvm, wcount, thread, reapVars, guestVars, fate, restarts>>

WarmRequest(w) ==
  /\ wpc[w] = "request"
  /\ wpc' = [wpc EXCEPT ![w] = "boot"]
  /\ wcount' = [wcount EXCEPT ![w] = jobsPerVM]
  /\ UNCHANGED <<poolVars, stateVars, wvm, thread, reapVars, guestVars, fate, restarts>>

\* Names some goroutine still remembers.
Remembered ==
  booted \cup {vm[w] : w \in Workers} \cup {wvm[w] : w \in Workers}
    \cup {c.vm : c \in cands \cup doomed \cup idle}
    \cup (IF claimed = None THEN {} ELSE {claimed.vm})

\* Warm returned a VM; activateWorker installs it with the slot count captured
\* before the boot, and runWorkerSlots launches that many slot goroutines.
ActivateWorker(w) ==
  /\ wpc[w] = "boot"
  /\ \E v \in VMs \ Remembered :
       /\ booted' = booted \cup {v}
       /\ vm' = [vm EXCEPT ![w] = v]
       /\ wvm' = [wvm EXCEPT ![w] = v]
  /\ warming' = [warming EXCEPT ![w] = FALSE]
  /\ recycle' = [recycle EXCEPT ![w] = FALSE]
  /\ nslots' = [nslots EXCEPT ![w] = wcount[w]]
  /\ slot' = [slot EXCEPT ![w] = AllEmpty]
  /\ thread' = [thread EXCEPT ![w] = Launched(wcount[w])]
  /\ wpc' = [wpc EXCEPT ![w] = "run"]
  /\ UNCHANGED <<poolVars, wcount, reapVars, draining, guest, fate, restarts>>

MarkWarmError(w) ==
  /\ wpc[w] = "boot"
  /\ wpc' = [wpc EXCEPT ![w] = "retry"]
  /\ warming' = [warming EXCEPT ![w] = FALSE]
  /\ recycle' = [recycle EXCEPT ![w] = FALSE]
  /\ nslots' = [nslots EXCEPT ![w] = jobsPerVM]
  /\ slot' = [slot EXCEPT ![w] = AllEmpty]
  /\ UNCHANGED <<poolVars, vm, wvm, wcount, thread, reapVars, guestVars, fate, restarts>>

\* The retry delay: the timer fires, or the context ends the worker.
WarmRetry(w) ==
  /\ wpc[w] = "retry"
  /\ \/ wpc' = [wpc EXCEPT ![w] = "warm"]
     \/ ctxDone /\ wpc' = [wpc EXCEPT ![w] = "clearStop"]
  /\ UNCHANGED <<poolVars, stateVars, wvm, wcount, thread, reapVars, guestVars, fate, restarts>>

\* The worker gives its VM up: recycling, and no slot busy.
OutOfService(w) ==
  /\ wpc[w] = "run"
  /\ recycle[w] /\ ~WorkerBusy(w)
  /\ wpc' = [wpc EXCEPT ![w] = "joinRecycle"]
  /\ vm' = [vm EXCEPT ![w] = None]
  /\ recycle' = [recycle EXCEPT ![w] = FALSE]
  /\ warming' = [warming EXCEPT ![w] = TRUE]
  /\ nslots' = [nslots EXCEPT ![w] = jobsPerVM]
  /\ slot' = [slot EXCEPT ![w] = AllEmpty]
  /\ thread' = [thread EXCEPT ![w] = [s \in Slots |-> Detach(thread[w][s])]]
  /\ UNCHANGED <<poolVars, wvm, wcount, reapVars, guestVars, fate, restarts>>

\* waitForWorkerRecycleOrShutdown looks at shutdown first; then a recycling
\* worker is taken out of service once none of its slots is busy.  The caller
\* cancels the slot context.
StopForShutdown(w) ==
  /\ wpc[w] = "run"
  /\ shuttingDown \/ ctxDone
  /\ wpc' = [wpc EXCEPT ![w] = "joinStop"]
  /\ thread' = [thread EXCEPT ![w] = [s \in Slots |-> Detach(thread[w][s])]]
  /\ UNCHANGED <<poolVars, stateVars, wvm, wcount, reapVars, guestVars, fate, restarts>>

StopForRecycle(w) == ~shuttingDown /\ ~ctxDone /\ OutOfService(w)

\* The slot goroutines are done; tear down if recycling, stop otherwise.
Leave(w) ==
  /\ wpc[w] \in {"joinRecycle", "joinStop"}
  /\ wpc' = [wpc EXCEPT ![w] = IF @ = "joinRecycle" THEN "teardown" ELSE "clearStop"]
  /\ UNCHANGED <<poolVars, stateVars, wvm, wcount, thread, reapVars, guestVars, fate, restarts>>

\* Mutant: the worker does not wait for its slot goroutines.
SlotsNotJoined(w) == Leave(w)

\* slotWG.Wait: every slot goroutine has returned.
SlotsJoined(w) == (\A s \in Slots : thread[w][s].pc = "off") /\ Leave(w)

\* Binder.Teardown first drains the guest agent, if it answers, then stops and
\* deletes the VM.
TeardownDrain(w) ==
  /\ wpc[w] = "teardown"
  /\ wpc' = [wpc EXCEPT ![w] = "delete"]
  /\ draining' \in {draining, draining \cup {wvm[w]}}
  /\ UNCHANGED <<poolVars, stateVars, wvm, wcount, thread, reapVars, booted, guest,
                 fate, restarts>>

Unowned == {v \in booted : \A x \in Workers : wvm[x] # v}

\* Mutant: the teardown runs under the pool's context and ends with it.
TeardownUnderContext(w) ==
  /\ wpc[w] = "delete"
  /\ wpc' = [wpc EXCEPT ![w] = "clear"]
  /\ \/ ctxDone /\ UNCHANGED guestVars
     \/ /\ ~ctxDone
        /\ booted' = booted \ {wvm[w]}
        /\ draining' = draining \ {wvm[w]}
        /\ guest' = [guest EXCEPT ![wvm[w]] = NoGuest]
  /\ UNCHANGED <<poolVars, stateVars, wvm, wcount, thread, reapVars, fate, restarts>>

\* Stop and delete are best effort: a VM may survive them. They run under a
\* context of their own (context.WithoutCancel), so shutdown does not stop them.
TeardownDelete(w) ==
  /\ wpc[w] = "delete"
  /\ wpc' = [wpc EXCEPT ![w] = "clear"]
  /\ \/ /\ booted' = booted \ {wvm[w]}
        /\ draining' = draining \ {wvm[w]}
        /\ guest' = [guest EXCEPT ![wvm[w]] = NoGuest]
     \/ Cardinality(Unowned) < Strays /\ UNCHANGED guestVars
  /\ UNCHANGED <<poolVars, stateVars, wvm, wcount, thread, reapVars, fate, restarts>>

ClearWorker(w) ==
  /\ wpc[w] \in {"clear", "clearStop"}
  /\ wpc' = [wpc EXCEPT ![w] = IF @ = "clear" THEN "claim" ELSE "exited"]
  /\ wvm' = [wvm EXCEPT ![w] = None]
  /\ vm' = [vm EXCEPT ![w] = None]
  /\ warming' = [warming EXCEPT ![w] = FALSE]
  /\ recycle' = [recycle EXCEPT ![w] = FALSE]
  /\ nslots' = [nslots EXCEPT ![w] = jobsPerVM]
  /\ slot' = [slot EXCEPT ![w] = AllEmpty]
  /\ UNCHANGED <<poolVars, wcount, thread, reapVars, guestVars, fate, restarts>>

-----------------------------------------------------------------------------
(* slotLoop *)

\* claimResumeSlot: an adopted busy slot resumes before it serves new work.
Resumable(w, s) ==
  /\ ~SlotCtxDone(w) /\ ~shuttingDown
  /\ Owns(w, s)
  /\ slot[w][s].job # None /\ slot[w][s].adopted /\ ~slot[w][s].cancel

ClaimResumeSlot(w, s) ==
  /\ thread[w][s].pc = "start"
  /\ \/ /\ Resumable(w, s)
        /\ slot' = [slot EXCEPT ![w][s] = WithCancel(@, TRUE)]
        /\ thread' = [thread EXCEPT ![w][s] =
                        [pc |-> "resume", job |-> slot[w][s].job, cause |-> "none"]]
     \/ /\ ~Resumable(w, s)
        /\ thread' = [thread EXCEPT ![w][s] = At("wait")]
        /\ UNCHANGED slot
  /\ UNCHANGED <<poolVars, vm, warming, recycle, nslots, loopVars, reapVars,
                 guestVars, fate, restarts>>

MustStop(w, s) == shuttingDown \/ SlotCtxDone(w) \/ ~Owns(w, s) \/ recycle[w]

\* waitForSlotJob: stop, or bind the head of the queue to this slot.
SlotExits(w, s) ==
  /\ thread[w][s].pc = "wait"
  /\ MustStop(w, s)
  /\ thread' = [thread EXCEPT ![w][s] = Off]
  /\ UNCHANGED <<poolVars, stateVars, loopVars, reapVars, guestVars, fate, restarts>>

Take(w, s, d, rest) ==
  /\ thread[w][s].pc = "wait"
  /\ ~MustStop(w, s)
  /\ slot[w][s].job = None
  /\ queue' = rest
  /\ slot' = [slot EXCEPT ![w][s] = 
                 [job |-> d, adopted |-> FALSE, cancel |-> TRUE, warned |-> FALSE]]
  /\ thread' = [thread EXCEPT ![w][s] = [pc |-> "dispatch", job |-> d, cause |-> "none"]]
  /\ fate' = [fate EXCEPT ![d] = "bound"]
  /\ UNCHANGED <<jobsPerVM, started, ctxDone, shuttingDown, vm, warming, recycle,
                 nslots, loopVars, reapVars, guestVars, restarts>>

\* Mutants: the head is read but not removed; the newest job is taken.
BindJobNoDequeue(w, s) == queue # <<>> /\ Take(w, s, Head(queue), queue)
BindJobNewest(w, s) ==
  queue # <<>> /\ Take(w, s, queue[Len(queue)], SubSeq(queue, 1, Len(queue) - 1))

BindJob(w, s) == queue # <<>> /\ Take(w, s, Head(queue), Tail(queue))

\* Mutant: a recycling worker keeps its slots bound.
FinishedUnlessRecycling(w, s) ==
  IF Owns(w, s) /\ ~recycle[w] THEN [slot EXCEPT ![w][s] = EmptySlot] ELSE slot

\* finishSlotJob: only while the worker still owns this VM.
FinishedSlot(w, s) ==
  IF Owns(w, s) THEN [slot EXCEPT ![w][s] = EmptySlot] ELSE slot

\* Binder.RunJob returns: the deferred finishSlotJob frees the slot.
ReturnTo(w, s, pc, outcome) ==
  /\ slot' = FinishedSlot(w, s)
  /\ thread' = [thread EXCEPT ![w][s] = At(pc)]
  /\ fate' = [fate EXCEPT ![thread[w][s].job] = outcome]

\* The guest accepts: the slot is free, or this very execution runs on it.  An
\* execution id in use on another slot is a CONFLICT.
Accepts(v, s, d) ==
  /\ v \notin draining
  /\ \A t \in Slots : guest[v][t] # None =>
        (t = s <=> JobID[guest[v][t]] = JobID[d])

DispatchAccepted(w, s) ==
  /\ thread[w][s].pc = "dispatch"
  /\ Accepts(wvm[w], s, thread[w][s].job)
  /\ guest' = [guest EXCEPT ![wvm[w]][s] = thread[w][s].job]
  /\ thread' = [thread EXCEPT ![w][s] = 
                    [pc |-> "drain", job |-> @.job, cause |-> @.cause]]
  /\ UNCHANGED <<poolVars, stateVars, loopVars, reapVars, booted, draining, fate, restarts>>

NotDispatched(w, s, pc) ==
  /\ thread[w][s].pc = "dispatch"
  /\ ReturnTo(w, s, pc, "over")
  /\ UNCHANGED <<poolVars, vm, warming, recycle, nslots, loopVars, reapVars,
                 guestVars, restarts>>

\* No execution started: no JIT config, guest unreachable, draining or
\* CONFLICT, or an already-completed execution replayed to its terminal.
DispatchFailed(w, s) == NotDispatched(w, s, "wait")

\* The guest accepted, but RunJob saw an error instead of the reply: its
\* context was cancelled, or the channel broke.
DispatchLost(w, s) ==
  /\ thread[w][s].pc = "dispatch"
  /\ Accepts(wvm[w], s, thread[w][s].job)
  /\ guest' = [guest EXCEPT ![wvm[w]][s] = thread[w][s].job]
  /\ ReturnTo(w, s, "wait",
       IF thread[w][s].cause = "none" THEN "lost"
       ELSE IF thread[w][s].cause = "plain" THEN "detached" ELSE "killed")
  /\ UNCHANGED <<poolVars, vm, warming, recycle, nslots, loopVars, reapVars,
                 booted, draining, restarts>>

Draining(w, s) == thread[w][s].pc \in {"drain", "resume"}

\* The stream delivered the terminal, or the execution is no longer known.
DrainTerminal(w, s) ==
  /\ Draining(w, s)
  /\ guest[wvm[w]][s] # thread[w][s].job
  /\ ReturnTo(w, s, "wait", "over")
  /\ UNCHANGED <<poolVars, vm, warming, recycle, nslots, loopVars, reapVars,
                 guestVars, restarts>>

\* Plain cancellation: the drain detaches, the guest job keeps running.
DrainDetached(w, s) ==
  /\ Draining(w, s)
  /\ thread[w][s].cause = "plain"
  /\ ReturnTo(w, s, "wait", "detached")
  /\ UNCHANGED <<poolVars, vm, warming, recycle, nslots, loopVars, reapVars,
                 guestVars, restarts>>

\* Mutant: the slot is freed but the worker is not marked.
FreedOnly(w, s) ==
  /\ slot' = FinishedSlot(w, s)
  /\ recycle' = recycle

\* recycleWorkerFreeingSlot
RecycledFreeing(w, s) ==
  /\ slot' = FinishedSlot(w, s)
  /\ recycle' = IF Owns(w, s) THEN [recycle EXCEPT ![w] = TRUE] ELSE recycle

\* A custom cause: CancelJob, then a bounded drain that reaches the terminal
\* or times out.  A failed resume drain also marks the worker for recycle.
DrainKilled(w, s) ==
  /\ Draining(w, s)
  /\ thread[w][s].cause = "kill"
  /\ \E killed \in BOOLEAN :
       guest' = IF killed /\ guest[wvm[w]][s] = thread[w][s].job
                  THEN [guest EXCEPT ![wvm[w]][s] = None] ELSE guest
  /\ fate' = [fate EXCEPT ![thread[w][s].job] = "killed"]
  /\ \/ /\ slot' = FinishedSlot(w, s)
        /\ thread' = [thread EXCEPT ![w][s] = At("wait")]
        /\ UNCHANGED recycle
     \/ /\ thread[w][s].pc = "resume"
        /\ RecycledFreeing(w, s)
        /\ thread' = [thread EXCEPT ![w][s] = Off]
  /\ UNCHANGED <<poolVars, vm, warming, nslots, loopVars, reapVars,
                 booted, draining, restarts>>

\* The status stream went silent: RunJob returns ErrDrainStalled, the slot is
\* freed, and a second critical section marks the worker (RecycleStalled).
DrainStalled(w, s) ==
  /\ thread[w][s].pc = "drain"
  /\ thread[w][s].cause = "none"
  /\ ReturnTo(w, s, "stalled", "stalled")
  /\ UNCHANGED <<poolVars, vm, warming, recycle, nslots, loopVars, reapVars,
                 guestVars, restarts>>

RecycleStalled(w, s) ==
  /\ thread[w][s].pc = "stalled"
  /\ RecycledFreeing(w, s)
  /\ thread' = [thread EXCEPT ![w][s] = Off]
  /\ UNCHANGED <<poolVars, vm, warming, nslots, loopVars, reapVars, guestVars,
                 fate, restarts>>

\* A resume that cannot attach or stalls frees the slot and marks the worker
\* in one critical section.
ResumeFailed(w, s) ==
  /\ thread[w][s].pc = "resume"
  /\ thread[w][s].cause # "kill"
  /\ RecycledFreeing(w, s)
  /\ thread' = [thread EXCEPT ![w][s] = Off]
  /\ fate' = [fate EXCEPT ![thread[w][s].job] = "stalled"]
  /\ UNCHANGED <<poolVars, vm, warming, nslots, loopVars, reapVars, guestVars, restarts>>

-----------------------------------------------------------------------------
(* Reconcile: reap busy slots, then recycle idle VMs *)

BusyType == [w : Workers, s : Slots, vm : VMs, job : Deliveries]
IdleType == [w : Workers, vm : VMs, count : SlotCounts]

\* Mutant: slots that are not busy are candidates too.
AllCandidates ==
  {c \in [w : Workers, s : Slots, vm : VMs, job : Deliveries \cup {None}] :
     vm[c.w] = c.vm /\ slot[c.w][c.s].job = c.job}

BusyCandidates == {c \in BusyType : vm[c.w] = c.vm /\ slot[c.w][c.s].job = c.job}

CandidateVM(c) == vm[c.w] = c.vm /\ ~warming[c.w] /\ ~WorkerBusy(c.w) /\ ~recycle[c.w]

\* Mutant: the snapshot records the configured slot count.
IdleCandidatesConfigured == {c \in IdleType : CandidateVM(c) /\ c.count = jobsPerVM}

IdleCandidates == {c \in IdleType : CandidateVM(c) /\ c.count = nslots[c.w]}

ReconcileBegins ==
  /\ pass = "off"
  /\ started /\ ~ctxDone
  /\ pass' = "reap"
  /\ cands' = BusyCandidates
  /\ UNCHANGED <<doomed, claimed, idle, poolVars, stateVars, loopVars, thread,
                 guestVars, fate, restarts>>

Condemn(c, reap) ==
  /\ pass = "reap" /\ c \in cands
  /\ cands' = cands \ {c}
  /\ doomed' = IF reap THEN doomed \cup {c} ELSE doomed
  /\ UNCHANGED <<pass, claimed, idle, poolVars, stateVars, loopVars, thread,
                 guestVars, fate, restarts>>

\* Past max_bind: reaped whatever the guest says.
PastMaxBind(c) == Condemn(c, TRUE)

\* Past pickup_timeout: one RunningSlots probe of VM v decides for those of
\* its candidates; a failed probe keeps them all.
PastPickupTimeout(v) ==
  /\ pass = "reap"
  /\ \E late \in SUBSET {c \in cands : c.vm = v} :
       /\ late # {}
       /\ cands' = cands \ late
       /\ \/ doomed' = doomed \cup {c \in late : guest[v][c.s] = None}
          \/ UNCHANGED doomed
  /\ UNCHANGED <<pass, claimed, idle, poolVars, stateVars, loopVars, thread,
                 guestVars, fate, restarts>>

\* The candidate still names the same VM and the same binding.
SameBinding(c) ==
  /\ vm[c.w] = c.vm
  /\ c.s < nslots[c.w]
  /\ slot[c.w][c.s].job = c.job

\* claimSlotReapWarning: once per binding, and not on a recycling worker.
ClaimSlotReapWarning(c) ==
  /\ pass = "reap" /\ claimed = None /\ c \in doomed
  /\ doomed' = doomed \ {c}
  /\ \/ /\ SameBinding(c) /\ ~recycle[c.w] /\ ~slot[c.w][c.s].warned
        /\ slot' = [slot EXCEPT ![c.w][c.s] = Warned(@)]
        /\ claimed' = c
     \/ /\ ~(SameBinding(c) /\ ~recycle[c.w] /\ ~slot[c.w][c.s].warned)
        /\ UNCHANGED <<slot, claimed>>
  /\ UNCHANGED <<pass, cands, idle, poolVars, vm, warming, recycle, nslots,
                 loopVars, thread, guestVars, fate, restarts>>

RequestBusyRecycle ==
  /\ claimed # None
  /\ claimed' = None
  /\ \/ SameBinding(claimed) /\ CancelSlot(claimed.w, claimed.s)
     \/ ~SameBinding(claimed) /\ UNCHANGED <<recycle, slot, thread, fate>>
  /\ UNCHANGED <<pass, cands, doomed, idle, poolVars, vm, warming, nslots, loopVars,
                 guestVars, restarts>>

\* No candidate left is past a deadline: on to the idle VMs.
ReapEnds ==
  /\ pass = "reap" /\ claimed = None /\ doomed = {}
  /\ pass' = "idle"
  /\ cands' = {}
  /\ idle' = IdleCandidates
  /\ UNCHANGED <<doomed, claimed, poolVars, stateVars, loopVars, thread, guestVars,
                 fate, restarts>>

\* shouldRecycle: a slot-count mismatch always; max_idle, max_age, an
\* unhealthy guest or a leaked registration possibly.
ReconcileIdle(c) ==
  /\ pass = "idle" /\ c \in idle
  /\ idle' = idle \ {c}
  /\ \/ /\ Hygiene \/ c.count # jobsPerVM
        /\ vm[c.w] = c.vm /\ ~WorkerBusy(c.w)
        /\ recycle' = [recycle EXCEPT ![c.w] = TRUE]
     \/ /\ vm[c.w] # c.vm \/ WorkerBusy(c.w) \/ c.count = jobsPerVM
        /\ UNCHANGED recycle
  /\ UNCHANGED <<pass, cands, doomed, claimed, poolVars, vm, warming, nslots, slot,
                 loopVars, thread, guestVars, fate, restarts>>

ReconcileEnds ==
  /\ pass = "idle" /\ idle = {}
  /\ pass' = "off"
  /\ UNCHANGED <<cands, doomed, claimed, idle, poolVars, stateVars, loopVars,
                 thread, guestVars, fate, restarts>>

-----------------------------------------------------------------------------
(* The guest: an execution ends by itself. *)
GuestExit(v, s) ==
  /\ guest[v][s] # None
  /\ guest' = [guest EXCEPT ![v][s] = None]
  /\ UNCHANGED <<poolVars, stateVars, loopVars, thread, reapVars, booted, draining,
                 fate, restarts>>

-----------------------------------------------------------------------------
Init ==
  /\ queue = <<>>
  /\ jobsPerVM \in SlotCounts
  /\ started = FALSE /\ ctxDone = FALSE /\ shuttingDown = FALSE
  /\ vm = [w \in Workers |-> None]
  /\ warming = [w \in Workers |-> FALSE]
  /\ recycle = [w \in Workers |-> FALSE]
  /\ nslots = [w \in Workers |-> jobsPerVM]
  /\ slot = [w \in Workers |-> AllEmpty]
  /\ wpc = [w \in Workers |-> "exited"]
  /\ wvm = [w \in Workers |-> None]
  /\ wcount = nslots
  /\ thread = [w \in Workers |-> AllOff]
  /\ pass = "off" /\ cands = {} /\ doomed = {} /\ claimed = None /\ idle = {}
  /\ booted = {} /\ draining = {}
  /\ guest = [v \in VMs |-> NoGuest]
  /\ fate = [d \in Deliveries |-> "new"]
  /\ restarts = 0

WorkerLoop(w) ==
  \/ ClaimWorker(w) \/ MarkWarming(w) \/ WarmRequest(w) \/ ActivateWorker(w)
  \/ MarkWarmError(w) \/ WarmRetry(w) \/ StopForShutdown(w) \/ StopForRecycle(w)
  \/ SlotsJoined(w) \/ TeardownDrain(w) \/ TeardownDelete(w) \/ ClearWorker(w)

SlotLoop(w, s) ==
  \/ ClaimResumeSlot(w, s) \/ SlotExits(w, s) \/ BindJob(w, s)
  \/ DispatchAccepted(w, s) \/ DispatchFailed(w, s) \/ DispatchLost(w, s)
  \/ DrainTerminal(w, s) \/ DrainDetached(w, s) \/ DrainKilled(w, s)
  \/ DrainStalled(w, s) \/ RecycleStalled(w, s) \/ ResumeFailed(w, s)

Reconcile ==
  \/ ReconcileBegins
  \/ \E c \in cands : PastMaxBind(c)
  \/ \E v \in VMs : PastPickupTimeout(v)
  \/ \E c \in doomed : ClaimSlotReapWarning(c)
  \/ RequestBusyRecycle \/ ReapEnds
  \/ \E c \in idle : ReconcileIdle(c)
  \/ ReconcileEnds

Next ==
  \/ \E d \in Deliveries : Enqueue(d) \/ CancelRun(d)
  \/ \E n \in Requests : Reconfigure(n)
  \/ Start \/ Restart \/ Shutdown \/ ContextDone \/ ContextWatcher
  \/ \E w \in Workers : WorkerLoop(w)
  \/ \E w \in Workers, s \in Slots : SlotLoop(w, s)
  \/ Reconcile
  \/ \E v \in VMs, s \in Slots : GuestExit(v, s)

Spec == Init /\ [][Next]_vars

\* What the Go scheduler and the code's own timeouts guarantee: a goroutine
\* with something to do does it, a boot retried for ever succeeds at last, a
\* waiting slot that keeps finding work takes some, the ticker keeps firing.
Fairness ==
  /\ WF_vars(Start)
  /\ \A w \in Workers :
       /\ WF_vars(WorkerLoop(w))
       /\ SF_vars(ActivateWorker(w))
  /\ \A w \in Workers, s \in Slots :
       /\ WF_vars(ClaimResumeSlot(w, s) \/ SlotExits(w, s) \/ RecycleStalled(w, s))
       /\ WF_vars(DispatchAccepted(w, s) \/ DispatchFailed(w, s))
       /\ WF_vars(DrainTerminal(w, s) \/ DrainDetached(w, s) \/ DrainKilled(w, s))
       /\ SF_vars(BindJob(w, s))
  /\ WF_vars(ReconcileBegins)
  /\ WF_vars(RequestBusyRecycle)
  /\ WF_vars(ReapEnds \/ \E c \in doomed : ClaimSlotReapWarning(c))
  /\ WF_vars(ReconcileEnds \/ \E c \in idle : ReconcileIdle(c))

\* Every guest execution ends by itself.
JobsEnd == \A v \in VMs, s \in Slots : WF_vars(GuestExit(v, s))

\* A binding that lasts is past max_bind in every pass from some time on.
MaxBindPasses ==
  \A w \in Workers, s \in Slots :
    SF_vars(\E c \in cands : c.w = w /\ c.s = s /\ PastMaxBind(c))

FairSpec == Spec /\ Fairness /\ JobsEnd
HungSpec == Spec /\ Fairness /\ MaxBindPasses

-----------------------------------------------------------------------------
(* Properties *)

SlotType   == [job : Deliveries \cup {None}, adopted : BOOLEAN, cancel : BOOLEAN,
               warned : BOOLEAN]
ThreadType == [pc : {"off", "start", "wait", "dispatch", "drain", "resume", "stalled"},
               job : Deliveries \cup {None}, cause : {"none", "plain", "kill"}]
\* over: ended or not started, and nothing of it is left in a guest.
Fates == {"new", "queued", "bound", "over", "lost", "stalled", "killed", "detached"}

\* Types of the pool's, the goroutines' and the guests' state.
TypeOK ==
  /\ queue \in Seq(Deliveries)
  /\ jobsPerVM \in SlotCounts
  /\ started \in BOOLEAN /\ ctxDone \in BOOLEAN /\ shuttingDown \in BOOLEAN
  /\ vm \in [Workers -> VMs \cup {None}]
  /\ warming \in [Workers -> BOOLEAN]
  /\ recycle \in [Workers -> BOOLEAN]
  /\ nslots \in [Workers -> SlotCounts]
  /\ slot \in [Workers -> [Slots -> SlotType]]
  /\ wpc \in [Workers -> {"claim", "warm", "request", "boot", "retry", "run",
                          "joinRecycle", "joinStop", "teardown", "delete",
                          "clear", "clearStop", "exited"}]
  /\ wvm \in [Workers -> VMs \cup {None}]
  /\ wcount \in [Workers -> SlotCounts]
  /\ thread \in [Workers -> [Slots -> ThreadType]]
  /\ pass \in {"off", "reap", "idle"}
  /\ cands \in SUBSET BusyType /\ doomed \in SUBSET BusyType
  /\ claimed \in BusyType \cup {None}
  /\ idle \in SUBSET IdleType
  /\ booted \in SUBSET VMs /\ draining \in SUBSET VMs
  /\ guest \in [VMs -> [Slots -> Deliveries \cup {None}]]
  /\ fate \in [Deliveries -> Fates]
  /\ restarts \in Nat

\* The worker goroutine and the slot table agree on who owns a VM: no two
\* workers hold one VM, and a slot goroutine of a VM is still running only
\* while its worker has not moved on to another VM, so finishSlotJob and
\* recycleWorkerFreeingSlot can never hit the slots of a successor VM.
VMOwnership ==
  /\ \A w, x \in Workers : w # x /\ vm[w] # None => vm[w] \notin {vm[x], wvm[x]}
  /\ \A w, x \in Workers : w # x /\ wvm[w] # None => wvm[w] # wvm[x]
  /\ \A w \in Workers : (\E s \in Slots : thread[w][s].pc # "off")
        => wvm[w] \in booted /\ vm[w] \in {None, wvm[w]}

\* How the ownership of VMs follows workerLoop's control: which control points
\* hold a VM that runs, where slot goroutines may exist, and that the slot
\* table names no VM but the one its worker holds or is about to claim.
WorkerControl ==
  /\ ~started => \A w \in Workers : wpc[w] = "exited"
  /\ \A w \in Workers :
       /\ wpc[w] \in {"run", "joinRecycle", "joinStop", "teardown", "delete"}
            => wvm[w] \in booted
       /\ wpc[w] \in {"exited", "claim", "warm", "request", "boot", "retry"}
            => wvm[w] = None
       /\ vm[w] # None \/ wpc[w] = "exited" => ~warming[w]
       /\ vm[w] # None =>
            \/ wpc[w] \in {"run", "joinStop", "clearStop"} /\ vm[w] = wvm[w]
            \/ wpc[w] = "claim" /\ vm[w] \in booted
       /\ \A s \in Slots : thread[w][s].pc # "off"
            => wpc[w] \in {"run", "joinRecycle", "joinStop"}
  /\ \A w, x \in Workers : w # x =>
       /\ vm[w] # None => vm[w] # vm[x] /\ vm[w] # wvm[x]
       /\ wvm[w] # None => wvm[w] # wvm[x]

\* A job context without a cause belongs to a busy slot that still has its
\* cancel function, so whoever takes the worker out of service cannot reach
\* it first; a plain cause has only the pool's own context as its origin.
JobContexts ==
  /\ shuttingDown => ctxDone
  /\ \A w \in Workers, s \in Slots :
       /\ InJob(thread[w][s]) => thread[w][s].job \in Deliveries
       /\ InJob(thread[w][s]) /\ thread[w][s].cause = "none" =>
            /\ wpc[w] = "run"
            /\ slot[w][s].job = thread[w][s].job
            /\ slot[w][s].cancel
       /\ thread[w][s].cause = "plain" => ctxDone

\* A delivery is worked on by at most one slot goroutine, and that goroutine's
\* slot names it until the slot is freed on a worker marked for recycle: a
\* busy slot is never silently rebound (waitForSlotJob, CancelRun).
BindingConsistent ==
  /\ \A w, x \in Workers, s, t \in Slots :
       InJob(thread[w][s]) /\ InJob(thread[x][t]) /\ <<w, s>> # <<x, t>>
         => thread[w][s].job # thread[x][t].job
  /\ \A w \in Workers, s \in Slots :
       InJob(thread[w][s]) /\ Owns(w, s) =>
         \/ slot[w][s].job = thread[w][s].job
         \/ slot[w][s].job = None /\ recycle[w]

\* Every slot the snapshot counts as idle is one the next job can run on: its
\* goroutine is there to take it (or is about to mark the worker), and the
\* guest has nothing running on it and accepts work (snapshotLocked, Ready).
\* Two exceptions remain: a job whose dispatch was accepted and the reply lost,
\* and a VM adopted while its teardown was under way.
IdleMeansUsable ==
  ~ctxDone => \A x \in IdleSlots :
    LET w == x[1]
        s == x[2] IN
    \/ thread[w][s].pc = "stalled"
    \/ /\ thread[w][s].pc \in {"start", "wait"} \/ wpc[w] = "claim"
       /\ guest[vm[w]][s] = None \/ fate[guest[vm[w]][s]] = "lost"
       /\ vm[w] \notin draining \/ restarts > 0

GivenUp == {"killed", "stalled", "lost"}

\* A VM is deleted only when everything still running on it was given up: the
\* job was cancelled or reaped, its stream stalled, or its dispatch was lost.
\* A co-tenant that is queued behind nothing worse than a recycle request
\* finishes first (waitForWorkerRecycleOrShutdown, Adopt).
NoHealthyJobTornDown ==
  [][\A v \in booted \ booted', s \in Slots :
       guest[v][s] # None => fate[guest[v][s]] \in GivenUp]_vars

\* A running job is detached only by a shutdown or a process restart; the
\* recycle and cancel-run paths always reach the guest job, even when the
\* worker's own cancelSlots races them (requestBusyRecycle, CancelRun).
DetachOnlyAtShutdown ==
  [][\A d \in Deliveries :
       fate[d] = "bound" /\ fate'[d] = "detached" => ctxDone \/ restarts' # restarts]_vars

\* Every queued job is handed to a slot, unless the broker stops or reloads
\* keep changing jobs_per_vm, each of which recycles the VM (waitForSlotJob).
QueueIsServed ==
  \A n \in SlotCounts, d \in Deliveries :
    <>[](jobsPerVM = n) => (fate[d] = "queued" ~> fate[d] # "queued" \/ ctxDone)

\* A worker that is out of service (recycling, booting, retrying a failed
\* boot) comes back with a live VM, unless the broker stops: co-tenants, late
\* drains and slot goroutines never block its recycle for good.
WorkerComesBack ==
  \A w \in Workers : started /\ ~Alive(w) ~> Alive(w) \/ ctxDone \/ ~started

\* A recycle that has begun when shutdown comes still takes the VM down: its slot
\* goroutines come back, and stop and delete run to their end, so the broker never
\* leaves behind a VM whose agent was told to drain. Only the end of the process
\* cuts it short (runWorkerSlots, workerLoop, context.WithoutCancel).
TeardownEnds ==
  \A w \in Workers, v \in VMs :
    wpc[w] = "joinRecycle" /\ wvm[w] = v ~> v \notin booted \/ ~started

\* After the last jobs_per_vm reload every VM in service ends up with the new
\* slot count, also one whose boot straddled the reload.
ResizeSettles ==
  \A n \in SlotCounts :
    <>[](jobsPerVM = n /\ ~ctxDone) => <>[](\A w \in Workers : Alive(w) => nslots[w] = n)

\* A job whose guest execution never ends does not hold its slot for ever:
\* past max_bind the reaper recycles it (reapBusyWorkers).
MaxBindFreesSlot ==
  \A w \in Workers, s \in Slots :
    slot[w][s].job # None ~> slot[w][s].job = None \/ ctxDone

-----------------------------------------------------------------------------
(* The pool implements the abstract job queue. *)

PhaseOf(f) ==
  IF f \in {"new", "queued", "bound"} THEN f
  ELSE IF f = "detached" THEN "released" ELSE "ended"

Jobs == INSTANCE JobQueue WITH phase <- [d \in Deliveries |-> PhaseOf(fate[d])],
                               up <- started

\* Between two starts each delivery is bound at most once, in arrival order,
\* by whichever slot goroutine gets the lock, and ends at most once, whatever
\* reaps, cancels, stalls and recycles happen to it.
ImplementsJobQueue == Jobs!Spec

=============================================================================
