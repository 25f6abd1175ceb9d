----------------------------- MODULE GuestAgent -----------------------------
(***************************************************************************)
(* The guest agent: Handler.RunJob (internal/guestagent) on top of the     *)
(* execution registry (internal/guestexec), the child processes it forks   *)
(* and the goroutines that wait for them.                                  *)
(*                                                                         *)
(* A RunJob call names the execution object and the process it may create, *)
(* so a call, its execution and its process share one name.  Registry.mu   *)
(* and the execution's own mutex make each action atomic; between actions  *)
(* calls, supervisors, cancels, drains and expiries interleave freely.     *)
(***************************************************************************)
EXTENDS Naturals, FiniteSets

CONSTANTS
  Calls,     \* RunJob calls, retries included
  Ids,       \* execution ids
  Slots,     \* runner slots
  IdOf,      \* execution id a call asks for
  SlotOf,    \* slot a call asks for
  Pids,      \* process ids of the guest
  None       \* no call, no id, no pid

ASSUME AgentAssumption ==
  /\ IdOf \in [Calls -> Ids]
  /\ SlotOf \in [Calls -> Slots]
  /\ None \notin Calls \cup Ids \cup Pids
  /\ IsFiniteSet(Calls)

VARIABLES
  executions,    \* Registry.executions: id -> the call that registered it
  slots,         \* Registry.slots: slot -> id
  draining,      \* Registry.draining
  drainedClosed, \* Registry.drainedClosed
  activeCount,   \* Registry.activeCount
  state,         \* state[c]: running, reaped and cancelled of execution c
  report,        \* exitReport channel of c: whose process the report is about
  exit,          \* whose exit execution c recorded
  pc,            \* control point of the RunJob call
  outcome,       \* what the call answered
  lock,          \* holder of Handler.slotLock(s)
  proc,          \* the process forked for c
  pid,           \* its pid, also its process group
  waiter,        \* Start's goroutine that waits for c's process
  pipes,         \* does a process still hold c's output pipes?
  reused         \* history: calls that had one pid, the second from before the
                 \* exit of the first was recorded

regVars  == <<executions, slots, draining, drainedClosed, activeCount>>
execVars == <<state, report, exit>>
callVars == <<pc, outcome, lock>>
procVars == <<proc, pid, waiter, pipes, reused>>
vars == <<regVars, execVars, callVars, procVars>>

Running   == {c \in Calls : state[c].running}
Live(c)   == state[c].running /\ ~state[c].reaped
NoExec    == [running |-> FALSE, reaped |-> FALSE, cancelled |-> FALSE]
NewExec   == [running |-> TRUE, reaped |-> FALSE, cancelled |-> FALSE]

-----------------------------------------------------------------------------
(* RunJob *)

\* Mutant: the slot table is not consulted.
AdmissionByIdOnly(c) ==
  LET e == executions[IdOf[c]] IN
  IF draining THEN "draining"
  ELSE IF e = None THEN "accepted"
  ELSE IF SlotOf[e] # SlotOf[c] THEN "conflict"
  ELSE IF state[e].running THEN "running" ELSE "completed"

\* Mutant: a draining agent still admits.
AdmissionWhenDraining(c) ==
  LET e == executions[IdOf[c]] IN
  IF e = None THEN (IF slots[SlotOf[c]] = None THEN "accepted" ELSE "conflict")
  ELSE IF SlotOf[e] # SlotOf[c] THEN "conflict"
  ELSE IF state[e].running THEN "running" ELSE "completed"

\* checkAdmissionLocked
Admission(c) ==
  LET e == executions[IdOf[c]] IN
  IF draining THEN "draining"
  ELSE IF e = None THEN (IF slots[SlotOf[c]] = None THEN "accepted" ELSE "conflict")
  ELSE IF SlotOf[e] # SlotOf[c] THEN "conflict"
  ELSE IF state[e].running THEN "running" ELSE "completed"

\* The call answers and its deferred unlock runs.
Answer(c, what) ==
  /\ pc' = [pc EXCEPT ![c] = "done"]
  /\ outcome' = [outcome EXCEPT ![c] = what]
  /\ lock' = [lock EXCEPT ![SlotOf[c]] = None]

Proceed(c, to) ==
  /\ pc' = [pc EXCEPT ![c] = to]
  /\ UNCHANGED <<outcome, lock>>

Peek(c) ==
  /\ pc[c] = "new"
  /\ \/ /\ Admission(c) = "accepted"
        /\ pc' = [pc EXCEPT ![c] = "build"]
        /\ lock' = [lock EXCEPT ![SlotOf[c]] = c]
        /\ UNCHANGED outcome
     \/ /\ Admission(c) # "accepted"
        /\ Answer(c, Admission(c))
  /\ UNCHANGED <<regVars, execVars, procVars>>

\* Mutant: two calls prepare one slot at the same time.
PeekUnlocked(c) == Peek(c)

\* CheckAdmission under the slot lock, before anything destructive.
CheckAdmission(c) == lock[SlotOf[c]] = None /\ Peek(c)

\* specBuilder.Build has prepared the slot (see SlotProvision): on its first use
\* by this agent it removes and clones the runner directory and TMPDIR, for
\* every job it resets the keychain.  Or it failed.
Build(c) ==
  /\ pc[c] = "build"
  /\ Proceed(c, "start") \/ Answer(c, "error")
  /\ UNCHANGED <<regVars, execVars, procVars>>

\* Registry.Start looks again before it forks.
StartPeek(c) ==
  /\ pc[c] = "start"
  /\ \/ Admission(c) = "accepted" /\ Proceed(c, "launch")
     \/ Admission(c) # "accepted" /\ Answer(c, Admission(c))
  /\ UNCHANGED <<regVars, execVars, procVars>>

\* The kernel may hand a pid out again once its process was waited for, though
\* the registry still has that process's exit to record.
PidInUse(c) == proc[c] \in {"alive", "zombie"}
FreePids == Pids \ {pid[c] : c \in {d \in Calls : PidInUse(d)}}
Unrecorded(c) == waiter[c] = "report" \/ Live(c)

Launch(c) ==
  /\ pc[c] = "launch"
  /\ \/ \E p \in FreePids :
          /\ Proceed(c, "register")
          /\ pid' = [pid EXCEPT ![c] = p]
          /\ proc' = [proc EXCEPT ![c] = "alive"]
          /\ pipes' = [pipes EXCEPT ![c] = TRUE]
          /\ LET late == {d \in Calls : pid[d] = p /\ Unrecorded(d)}
             IN  reused' = reused \cup (IF late = {} THEN {} ELSE late \cup {c})
     \/ Answer(c, "error") /\ UNCHANGED <<pid, proc, pipes, reused>>
  /\ UNCHANGED <<regVars, execVars, waiter>>

Record(c, count) ==
  /\ pc[c] = "register"
  /\ Admission(c) = "accepted"
  /\ Answer(c, "accepted")
  /\ executions' = [executions EXCEPT ![IdOf[c]] = c]
  /\ slots' = [slots EXCEPT ![SlotOf[c]] = IdOf[c]]
  /\ activeCount' = count
  /\ state' = [state EXCEPT ![c] = NewExec]
  /\ waiter' = [waiter EXCEPT ![c] = "wait"]
  /\ UNCHANGED <<draining, drainedClosed, report, exit, proc, pid, pipes, reused>>

\* Register accepts: the execution is recorded and Start's waiter begins.
Register(c) == Record(c, activeCount + 1)

\* SIGKILL to a process group reaches whoever has that pid now.
Killed(p) ==
  [c \in Calls |-> IF proc[c] = "alive" /\ pid[c] = p THEN "zombie" ELSE proc[c]]

\* Mutant: the child of a refused launch keeps running.
DiscardWithoutKill(c) ==
  /\ pc[c] = "register"
  /\ Admission(c) # "accepted"
  /\ Answer(c, Admission(c))
  /\ UNCHANGED <<regVars, execVars, procVars>>

\* Register refuses: discardLaunched kills the child, closes the pipes and
\* leaves the wait to a reaper goroutine.
DiscardLaunched(c) ==
  /\ pc[c] = "register"
  /\ Admission(c) # "accepted"
  /\ Answer(c, Admission(c))
  /\ proc' = Killed(pid[c])
  /\ pipes' = [pipes EXCEPT ![c] = FALSE]
  /\ waiter' = [waiter EXCEPT ![c] = "discard"]
  /\ UNCHANGED <<regVars, execVars, pid, reused>>

-----------------------------------------------------------------------------
(* Processes and the goroutines that wait for them *)

ProcessExits(c) ==
  /\ proc[c] = "alive"
  /\ proc' = [proc EXCEPT ![c] = "zombie"]
  /\ UNCHANGED <<regVars, execVars, callVars, pid, waiter, pipes, reused>>

\* The last holder of the write ends, possibly a descendant, is gone and the
\* capture goroutines have read to EOF.
PipesDrained(c) ==
  /\ proc[c] \in {"zombie", "gone"}
  /\ pipes[c]
  /\ pipes' = [pipes EXCEPT ![c] = FALSE]
  /\ UNCHANGED <<regVars, execVars, callVars, proc, pid, waiter, reused>>

\* waitUntilExited, then Command.Wait: the kernel forgets the pid.
Wait(c) ==
  /\ waiter[c] \in {"wait", "discard"}
  /\ proc[c] = "zombie"
  /\ proc' = [proc EXCEPT ![c] = "gone"]
  /\ waiter' = [waiter EXCEPT ![c] = IF @ = "wait" THEN "report" ELSE "done"]
  /\ UNCHANGED <<regVars, execVars, callVars, pid, pipes, reused>>

\* Mutant: the pid is not compared.
AllHeld(p) == {c \in Calls : executions[IdOf[c]] = c}

\* Executions in the table that carry pid p.
Holders(p) == {c \in Calls : executions[IdOf[c]] = c /\ pid[c] = p}

\* Mutant: the first match in the table is taken, live or not.
AnyHolder(p) == Holders(p)

\* executionByPIDLocked: a live one if there is one; map order is random.
ByPID(p) ==
  IF \E c \in Holders(p) : Live(c) THEN {c \in Holders(p) : Live(c)} ELSE Holders(p)

Delivered(e, c) ==
  report' = IF exit[e] # None \/ ~state[e].running \/ report[e] # None
              THEN report ELSE [report EXCEPT ![e] = c]

\* ReportExit: the report goes to the execution found by pid, once.
ReportExit(c) ==
  /\ waiter[c] = "report"
  /\ waiter' = [waiter EXCEPT ![c] = "done"]
  /\ \/ \E e \in ByPID(pid[c]) : Delivered(e, c)
     \/ ByPID(pid[c]) = {} /\ UNCHANGED report
  /\ UNCHANGED <<regVars, state, exit, callVars, proc, pid, pipes, reused>>

\* superviseExecution received the report.
Reap(c) ==
  /\ state[c].running /\ ~state[c].reaped
  /\ report[c] # None
  /\ state' = [state EXCEPT ![c] =
                 [running |-> TRUE, reaped |-> TRUE, cancelled |-> @.cancelled]]
  /\ exit' = [exit EXCEPT ![c] = report[c]]
  /\ UNCHANGED <<regVars, report, callVars, procVars>>

\* completeExecution frees the slot and, when draining, reports idle.
Finish(c) ==
  /\ state[c].running /\ state[c].reaped
  /\ state' = [state EXCEPT ![c] =
                 [running |-> FALSE, reaped |-> TRUE, cancelled |-> @.cancelled]]
  /\ slots' = [slots EXCEPT ![SlotOf[c]] = None]
  /\ activeCount' = activeCount - 1
  /\ drainedClosed' = (drainedClosed \/ (draining /\ activeCount' = 0))
  /\ UNCHANGED <<executions, draining, report, exit, callVars, procVars>>

\* Mutant: the terminal does not wait for the output readers.
CompleteEarly(c) == Finish(c)

\* reapAndComplete waits for the readers first.
Complete(c) == ~pipes[c] /\ Finish(c)

\* The retention timer of a completed execution.
Expire(c) ==
  /\ exit[c] # None /\ ~state[c].running
  /\ executions[IdOf[c]] = c
  /\ executions' = [executions EXCEPT ![IdOf[c]] = None]
  /\ UNCHANGED <<slots, draining, drainedClosed, activeCount, execVars, callVars, procVars>>

-----------------------------------------------------------------------------
(* CancelJob and Drain *)

Cancel(i) ==
  /\ executions[i] # None
  /\ LET c == executions[i] IN
       /\ Live(c) /\ ~state[c].cancelled
       /\ proc' = Killed(pid[c])
       /\ state' = [state EXCEPT ![c] = [running |-> TRUE, reaped |-> FALSE, cancelled |-> TRUE]]
  /\ UNCHANGED <<regVars, report, exit, callVars, pid, waiter, pipes, reused>>

\* Mutant: an agent that is idle already never reports it.
DrainBusyOnly ==
  /\ ~draining
  /\ draining' = TRUE
  /\ UNCHANGED <<executions, slots, drainedClosed, activeCount, execVars, callVars, procVars>>

\* A second Drain changes nothing.
Drain ==
  /\ ~draining
  /\ draining' = TRUE
  /\ drainedClosed' = (activeCount = 0)
  /\ UNCHANGED <<executions, slots, activeCount, execVars, callVars, procVars>>

-----------------------------------------------------------------------------
Init ==
  /\ executions = [i \in Ids |-> None]
  /\ slots = [s \in Slots |-> None]
  /\ draining = FALSE /\ drainedClosed = FALSE
  /\ activeCount = 0
  /\ state = [c \in Calls |-> NoExec]
  /\ report = [c \in Calls |-> None]
  /\ exit = [c \in Calls |-> None]
  /\ pc = [c \in Calls |-> "new"]
  /\ outcome = [c \in Calls |-> "none"]
  /\ lock = [s \in Slots |-> None]
  /\ proc = [c \in Calls |-> "none"]
  /\ pid = [c \in Calls |-> None]
  /\ waiter = [c \in Calls |-> "none"]
  /\ pipes = [c \in Calls |-> FALSE]
  /\ reused = {}

RunJob(c) ==
  CheckAdmission(c) \/ Build(c) \/ StartPeek(c) \/ Launch(c) \/ Register(c) \/ DiscardLaunched(c)

Supervise(c) == Wait(c) \/ ReportExit(c) \/ Reap(c) \/ Complete(c)

Next ==
  \/ \E c \in Calls : RunJob(c) \/ Supervise(c) \/ Expire(c) \/ ProcessExits(c) \/ PipesDrained(c)
  \/ \E i \in Ids : Cancel(i)
  \/ Drain

Spec == Init /\ [][Next]_vars

\* Goroutines run, and the readers of a process group that was killed reach EOF.
\* A descendant of a child that exits by itself may hold the pipes for ever.
Fairness ==
  \A c \in Calls :
    /\ WF_vars(RunJob(c)) /\ WF_vars(Supervise(c))
    /\ WF_vars(state[c].cancelled /\ PipesDrained(c))

FairSpec == Spec /\ Fairness

-----------------------------------------------------------------------------
(* Properties *)

ExecType == [running : BOOLEAN, reaped : BOOLEAN, cancelled : BOOLEAN]

\* Types of the registry, the calls and the processes.
TypeOK ==
  /\ executions \in [Ids -> Calls \cup {None}]
  /\ slots \in [Slots -> Ids \cup {None}]
  /\ draining \in BOOLEAN /\ drainedClosed \in BOOLEAN
  /\ activeCount \in Nat
  /\ state \in [Calls -> ExecType]
  /\ report \in [Calls -> Calls \cup {None}]
  /\ exit \in [Calls -> Calls \cup {None}]
  /\ pc \in [Calls -> {"new", "build", "start", "launch", "register", "done"}]
  /\ outcome \in [Calls -> {"none", "accepted", "draining", "conflict", "running",
                            "completed", "error"}]
  /\ lock \in [Slots -> Calls \cup {None}]
  /\ proc \in [Calls -> {"none", "alive", "zombie", "gone"}]
  /\ pid \in [Calls -> Pids \cup {None}]
  /\ waiter \in [Calls -> {"none", "wait", "report", "discard", "done"}]
  /\ pipes \in [Calls -> BOOLEAN]
  /\ reused \subseteq Calls

\* The slot table, the execution table and the counter tell one story: a slot
\* names exactly the running execution on it, a running execution is the one
\* its id leads to, and activeCount is how many there are, so it never wraps
\* below zero and Drain's idle is true (Register, completeExecution, expire).
TablesAgree ==
  /\ \A c \in Running : executions[IdOf[c]] = c /\ slots[SlotOf[c]] = IdOf[c]
  /\ \A s \in Slots : slots[s] # None =>
       /\ executions[slots[s]] \in Running
       /\ SlotOf[executions[slots[s]]] = s
  /\ activeCount = Cardinality(Running)

Critical == {"build", "start", "launch", "register"}

\* From its peek to its answer a call holds its slot's lock, and until then its
\* execution exists in no table (Handler.RunJob).
CallControl ==
  /\ \A c \in Calls :
       /\ pc[c] \in Critical => lock[SlotOf[c]] = c
       /\ state[c].running => pc[c] = "done"
  /\ \A i \in Ids : executions[i] # None =>
       IdOf[executions[i]] = i /\ pc[executions[i]] = "done"

\* While a call prepares a slot, whose runner directory it may remove, nothing
\* runs on that slot and no second call prepares it (Handler.RunJob).
NoWipeUnderRunner ==
  \A c \in Calls : pc[c] \in Critical =>
    /\ \A d \in Running : SlotOf[d] # SlotOf[c]
    /\ \A d \in Calls \ {c} : SlotOf[d] = SlotOf[c] =>
         pc[d] \notin Critical

\* The kernel may hand out a pid while the exit of its last process is still to
\* be recorded; the registry tells executions apart by pid alone and then takes
\* one for the other. The properties of processes say how far that goes: no
\* further than the calls that had the pid.

\* No live process is forgotten: it belongs to a call about to register it or
\* to a running execution that can still be cancelled (Start, discardLaunched).
NoOrphans ==
  \A c \in Calls : proc[c] = "alive" => pc[c] = "register" \/ Live(c) \/ c \in reused

\* An execution records the exit of its own process, and one process's exit is
\* recorded once, whatever pids come back while executions run, exit, are
\* retained and expire. Only calls that had one pid, the second from before the
\* first one's exit was recorded, can take each other's
\* (ReportExit, executionByPIDLocked).
ExitGoesToOwner ==
  /\ \A c \in Calls :
       \/ exit[c] \in {None, c}
       \/ {c, exit[c]} \subseteq reused /\ pid[c] = pid[exit[c]]
  /\ \A c, d \in Calls : exit[c] # None /\ exit[c] = exit[d] => c = d

\* A completed execution's process is gone and its output is read to the end,
\* so the terminal result comes after every log chunk (reapAndComplete).
TerminalAfterOutput ==
  \A c \in Calls \ reused :
    exit[c] # None /\ ~state[c].running => proc[c] = "gone" /\ ~pipes[c]

\* Drain's notification is given exactly when the agent drains and nothing
\* runs, whether it was idle before or the last execution ends later, and no
\* admission that was under way can make it untrue (Drain, Register).
DrainedExact == drainedClosed <=> draining /\ Running = {}

\* An execution whose group was killed gives its slot back, whoever held its
\* pipes: the wait, the report found by pid, the readers and the completion all
\* happen (Cancel, reapAndComplete). A report another execution took away by a
\* reused pid never comes.
CancelEnds ==
  \A c \in Calls : state[c].cancelled ~> ~state[c].running \/ c \in reused

-----------------------------------------------------------------------------
(* The agent keeps the promise the runner pool's dispatches rely on. *)

Promise == INSTANCE GuestSlots WITH occupant <- slots, refusing <- draining

\* Whatever calls, exits, cancels and expiries interleave, the slots behave as
\* one execution per slot, one slot per id, and nothing new when draining.
KeepsPromise == Promise!Spec
=============================================================================
