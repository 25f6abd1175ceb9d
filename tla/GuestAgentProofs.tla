-------------------------- MODULE GuestAgentProofs --------------------------
(* Machine-checked facts about the guest agent, for any number of calls,     *)
(* execution ids, slots and pids, and whatever the kernel does with pids.    *)
EXTENDS GuestAgent, FiniteSetTheorems, TLAPS

USE DEF vars, regVars, execVars, callVars, procVars

\* A call's own steps never touch another call's control point.
LEMMA CallFrame ==
  ASSUME TypeOK, NEW c \in Calls,
         CheckAdmission(c) \/ Build(c) \/ StartPeek(c) \/ Launch(c) \/ DiscardLaunched(c)
  PROVE  /\ UNCHANGED <<regVars, execVars>>
         /\ pc[c] # "done"
         /\ \A d \in Calls \ {c} : pc'[d] = pc[d]
  BY DEF CheckAdmission, Peek, Build, StartPeek, Launch, DiscardLaunched, Answer,
         Proceed, TypeOK

\* The answers checkAdmissionLocked can give.
LEMMA AdmissionTyped ==
  ASSUME NEW c \in Calls
  PROVE  Admission(c) \in {"accepted", "draining", "conflict", "running", "completed"}
  BY DEF Admission

\* Types of the call's variables after it answered or went on.
LEMMA AnswerTyped ==
  ASSUME TypeOK, NEW c \in Calls,
         \/ \E what \in {"accepted", "draining", "conflict", "running", "completed", "error"} :
              Answer(c, what)
         \/ \E to \in {"start", "launch", "register"} : Proceed(c, to)
  PROVE  /\ pc' \in [Calls -> {"new", "build", "start", "launch", "register", "done"}]
         /\ outcome' \in [Calls -> {"none", "accepted", "draining", "conflict", "running",
                            "completed", "error"}]
         /\ lock' \in [Slots -> Calls \cup {None}]
  BY DEF TypeOK, Answer, Proceed

\* Every step keeps the agent's state well typed.
LEMMA TypeStep == ASSUME TypeOK, TablesAgree, [Next]_vars PROVE TypeOK'
<1> USE AgentAssumption
<1>1. CASE UNCHANGED vars  BY <1>1 DEF TypeOK
<1>2. ASSUME NEW c \in Calls, CheckAdmission(c) PROVE TypeOK'
  <2>1. CASE Answer(c, Admission(c))
    BY <1>2, <2>1, AdmissionTyped, AnswerTyped DEF CheckAdmission, Peek, TypeOK
  <2>2. CASE /\ pc' = [pc EXCEPT ![c] = "build"]
             /\ lock' = [lock EXCEPT ![SlotOf[c]] = c]
             /\ UNCHANGED outcome
    BY <1>2, <2>2 DEF CheckAdmission, Peek, TypeOK
  <2> QED
    BY <1>2, <2>1, <2>2 DEF CheckAdmission, Peek
<1>3. ASSUME NEW c \in Calls, Build(c) PROVE TypeOK'
  BY <1>3, AnswerTyped DEF Build, TypeOK
<1>4. ASSUME NEW c \in Calls, StartPeek(c) PROVE TypeOK'
  BY <1>4, AnswerTyped, AdmissionTyped DEF StartPeek, TypeOK
<1>5. ASSUME NEW c \in Calls, Launch(c) PROVE TypeOK'
  <2>1. CASE Answer(c, "error") /\ UNCHANGED <<pid, proc, pipes, reused>>
    BY <1>5, <2>1, AnswerTyped DEF Launch, TypeOK
  <2>2. ASSUME NEW p \in FreePids, Proceed(c, "register"), pid' = [pid EXCEPT ![c] = p],
               proc' = [proc EXCEPT ![c] = "alive"], pipes' = [pipes EXCEPT ![c] = TRUE],
               reused' \subseteq Calls
        PROVE TypeOK'
    BY <1>5, <2>2, AnswerTyped DEF Launch, TypeOK, FreePids
  <2>3. reused' \subseteq Calls
    BY <1>5 DEF Launch, TypeOK
  <2> QED
    BY <1>5, <2>1, <2>2, <2>3 DEF Launch
<1>6. ASSUME NEW c \in Calls, Register(c) PROVE TypeOK'
  BY <1>6, AnswerTyped DEF Register, Record, TypeOK, NewExec, ExecType
<1>7. ASSUME NEW c \in Calls, DiscardLaunched(c) PROVE TypeOK'
  <2>1. proc' \in [Calls -> {"none", "alive", "zombie", "gone"}]
    BY <1>7 DEF DiscardLaunched, Killed, TypeOK
  <2>2. \E what \in {"accepted", "draining", "conflict", "running", "completed", "error"} :
          Answer(c, what)
    BY <1>7, AdmissionTyped DEF DiscardLaunched
  <2>3. /\ pc' \in [Calls -> {"new", "build", "start", "launch", "register", "done"}]
        /\ outcome' \in [Calls -> {"none", "accepted", "draining", "conflict", "running",
                           "completed", "error"}]
        /\ lock' \in [Slots -> Calls \cup {None}]
    BY <2>2, AnswerTyped
  <2> QED
    BY <1>7, <2>1, <2>3 DEF DiscardLaunched, TypeOK
<1>8. ASSUME NEW c \in Calls, Wait(c) PROVE TypeOK'
  BY <1>8 DEF Wait, TypeOK
<1>9. ASSUME NEW c \in Calls, ReportExit(c) PROVE TypeOK'
  <2>1. report' \in [Calls -> Calls \cup {None}]
    BY <1>9 DEF ReportExit, Delivered, TypeOK
  <2> QED
    BY <1>9, <2>1 DEF ReportExit, TypeOK
<1>10. ASSUME NEW c \in Calls, Reap(c) PROVE TypeOK'
  BY <1>10 DEF Reap, TypeOK, ExecType
<1>11. ASSUME NEW c \in Calls, Complete(c) PROVE TypeOK'
  <2>1. Running # {} /\ IsFiniteSet(Running)
    BY <1>11, FS_Subset DEF Complete, Finish, Running
  <2>2. activeCount \in Nat \ {0}
    BY <2>1, FS_EmptySet, FS_CardinalityType DEF TablesAgree
  <2> QED
    BY <1>11, <2>2 DEF Complete, Finish, TypeOK, ExecType
<1>12. ASSUME NEW c \in Calls, Expire(c) PROVE TypeOK'
  BY <1>12 DEF Expire, TypeOK
<1>13. ASSUME NEW c \in Calls, ProcessExits(c) \/ PipesDrained(c) PROVE TypeOK'
  <2>1. CASE ProcessExits(c)
    BY <2>1, SMT DEF ProcessExits, TypeOK
  <2>2. CASE PipesDrained(c)
    BY <2>2, SMT DEF PipesDrained, TypeOK
  <2> QED
    BY <1>13, <2>1, <2>2
<1>14. ASSUME NEW i \in Ids, Cancel(i) PROVE TypeOK'
  <2>1. proc' \in [Calls -> {"none", "alive", "zombie", "gone"}]
    BY <1>14 DEF Cancel, Killed, TypeOK
  <2> QED
    BY <1>14, <2>1 DEF Cancel, TypeOK, ExecType
<1>15. CASE Drain
  BY <1>15 DEF Drain, TypeOK
<1> QED
  BY <1>1, <1>2, <1>3, <1>4, <1>5, <1>6, <1>7, <1>8, <1>9, <1>10, <1>11, <1>12, <1>13,
     <1>14, <1>15 DEF Next, RunJob, Supervise

-----------------------------------------------------------------------------
(* Control: the slot lock and the tables. *)

\* Every step keeps calls inside their slot's lock and out of the tables until
\* they have answered.
LEMMA ControlStep == ASSUME TypeOK, CallControl, [Next]_vars PROVE CallControl'
<1> USE AgentAssumption
<1>1. CASE UNCHANGED vars  BY <1>1 DEF CallControl
<1>2. ASSUME NEW c \in Calls, CheckAdmission(c) PROVE CallControl'
  <2>1. UNCHANGED <<executions, state>> /\ pc[c] = "new" /\ lock[SlotOf[c]] = None
    BY <1>2 DEF CheckAdmission, Peek
  <2>2. \A d \in Calls : SlotOf[d] = SlotOf[c] => pc[d] \notin Critical
    BY <2>1 DEF CallControl
  <2>3. CASE Answer(c, Admission(c))
    BY <2>1, <2>2, <2>3 DEF Answer, TypeOK, CallControl, Critical
  <2>4. CASE /\ pc' = [pc EXCEPT ![c] = "build"]
             /\ lock' = [lock EXCEPT ![SlotOf[c]] = c]
    BY <2>1, <2>2, <2>4 DEF TypeOK, CallControl, Critical
  <2> QED
    BY <1>2, <2>3, <2>4 DEF CheckAdmission, Peek
<1>3. ASSUME NEW c \in Calls, Build(c) \/ StartPeek(c) \/ Launch(c) \/ DiscardLaunched(c)
      PROVE CallControl'
  <2>1. UNCHANGED <<executions, state>> /\ pc[c] \in Critical
    BY <1>3 DEF Build, StartPeek, Launch, DiscardLaunched, Critical
  <2>2. CASE \E to \in Critical : Proceed(c, to)
    BY <2>1, <2>2 DEF Proceed, TypeOK, CallControl, Critical
  <2>3. CASE \E what : Answer(c, what)
    <3>1. \A d \in Calls \ {c} : pc[d] \in Critical => SlotOf[d] # SlotOf[c]
      BY <2>1 DEF CallControl
    <3> QED
      BY <2>1, <2>3, <3>1 DEF Answer, TypeOK, CallControl, Critical
  <2> QED
    BY <1>3, <2>2, <2>3 DEF Build, StartPeek, Launch, DiscardLaunched, Critical
<1>4. ASSUME NEW c \in Calls, Register(c) PROVE CallControl'
  <2>1. /\ pc[c] \in Critical
        /\ Answer(c, "accepted")
        /\ executions' = [executions EXCEPT ![IdOf[c]] = c]
        /\ state' = [state EXCEPT ![c] = NewExec]
    BY <1>4 DEF Register, Record, Critical
  <2>2. \A d \in Calls \ {c} : pc[d] \in Critical => SlotOf[d] # SlotOf[c]
    BY <2>1 DEF CallControl
  <2>3. ASSUME NEW d \in Calls PROVE (pc[d] \in Critical => lock[SlotOf[d]] = d)'
    BY <2>1, <2>2 DEF Answer, TypeOK, CallControl, Critical
  <2>4. ASSUME NEW d \in Calls PROVE (state[d].running => pc[d] = "done")'
    BY <2>1 DEF Answer, TypeOK, CallControl, NewExec
  <2>5. ASSUME NEW i \in Ids, (executions[i] # None)'
        PROVE  (IdOf[executions[i]] = i /\ pc[executions[i]] = "done")'
    BY <2>1, <2>5 DEF Answer, TypeOK, CallControl
  <2> QED
    BY <2>3, <2>4, <2>5 DEF CallControl
<1>5. ASSUME NEW c \in Calls, Reap(c) \/ Complete(c) PROVE CallControl'
  BY <1>5 DEF Reap, Complete, Finish, TypeOK, CallControl
<1>6. ASSUME NEW c \in Calls, Expire(c) PROVE CallControl'
  BY <1>6 DEF Expire, TypeOK, CallControl
<1>7. ASSUME NEW c \in Calls, Wait(c) \/ ReportExit(c) \/ ProcessExits(c) \/ PipesDrained(c)
      PROVE CallControl'
  BY <1>7 DEF Wait, ReportExit, ProcessExits, PipesDrained, CallControl
<1>8. ASSUME NEW i \in Ids, Cancel(i) PROVE CallControl'
  BY <1>8 DEF Cancel, Live, TypeOK, CallControl
<1>9. CASE Drain
  BY <1>9 DEF Drain, CallControl
<1> QED
  BY <1>1, <1>2, <1>3, <1>4, <1>5, <1>6, <1>7, <1>8, <1>9 DEF Next, RunJob, Supervise

\* What a step does to the set of running executions: one call starts, one
\* execution ends, or it stays.
LEMMA RunningStep ==
  ASSUME TypeOK, CallControl, [Next]_vars
  PROVE  \/ \E c \in Calls : Register(c) /\ c \notin Running /\ Running' = Running \cup {c}
         \/ \E c \in Calls : Complete(c) /\ c \in Running /\ Running' = Running \ {c}
         \/ \E c \in Calls : Expire(c) /\ Running' = Running
         \/ Drain /\ Running' = Running
         \/ UNCHANGED regVars /\ Running' = Running
<1>1. ASSUME NEW c \in Calls, Register(c)
      PROVE  c \notin Running /\ Running' = Running \cup {c}
  <2>1. pc[c] = "register" /\ state' = [state EXCEPT ![c] = NewExec]
    BY <1>1 DEF Register, Record
  <2> QED
    BY <2>1 DEF Running, NewExec, CallControl, TypeOK
<1>2. ASSUME NEW c \in Calls, Complete(c)
      PROVE  c \in Running /\ Running' = Running \ {c}
  BY <1>2 DEF Complete, Finish, Running, TypeOK
<1>3. ASSUME NEW c \in Calls, Reap(c)
      PROVE  UNCHANGED regVars /\ Running' = Running
  BY <1>3 DEF Reap, Running, TypeOK
<1>4. ASSUME NEW i \in Ids, Cancel(i)
      PROVE  UNCHANGED regVars /\ Running' = Running
  BY <1>4 DEF Cancel, Live, Running, TypeOK
<1>5. ASSUME NEW c \in Calls, Expire(c)  PROVE Running' = Running
  BY <1>5 DEF Expire, Running
<1>6. CASE Drain
  BY <1>6 DEF Drain, Running
<1>7. ASSUME NEW c \in Calls, \/ CheckAdmission(c) \/ Build(c) \/ StartPeek(c) \/ Launch(c)
                             \/ DiscardLaunched(c)
      PROVE  UNCHANGED regVars /\ Running' = Running
  BY <1>7, CallFrame DEF Running
<1>8. ASSUME NEW c \in Calls, Wait(c) \/ ReportExit(c) \/ ProcessExits(c) \/ PipesDrained(c)
      PROVE  UNCHANGED regVars /\ Running' = Running
  BY <1>8 DEF Wait, ReportExit, ProcessExits, PipesDrained, Running
<1>9. CASE UNCHANGED vars
  BY <1>9 DEF Running
<1> QED
  BY <1>1, <1>2, <1>3, <1>4, <1>5, <1>6, <1>7, <1>8, <1>9 DEF Next, RunJob, Supervise
\* The set of running executions is finite, and its size is a number.
LEMMA RunningFinite == IsFiniteSet(Running) /\ Cardinality(Running) \in Nat
  BY AgentAssumption, FS_Subset, FS_CardinalityType DEF Running

\* An accepted call finds its id unknown and its slot free.
LEMMA AcceptedMeansFree ==
  ASSUME NEW c \in Calls, Admission(c) = "accepted"
  PROVE  ~draining /\ executions[IdOf[c]] = None /\ slots[SlotOf[c]] = None
  BY DEF Admission

\* Every step keeps the slot table, the execution table and the counter in
\* agreement.
LEMMA TablesStep == ASSUME TypeOK, CallControl, TablesAgree, [Next]_vars PROVE TablesAgree'
<1> USE AgentAssumption
<1>1. ASSUME NEW c \in Calls, Register(c), c \notin Running, Running' = Running \cup {c}
      PROVE  TablesAgree'
  <2>1. /\ executions[IdOf[c]] = None /\ slots[SlotOf[c]] = None
        /\ executions' = [executions EXCEPT ![IdOf[c]] = c]
        /\ slots' = [slots EXCEPT ![SlotOf[c]] = IdOf[c]]
        /\ activeCount' = activeCount + 1
    BY <1>1, AcceptedMeansFree DEF Register, Record
  <2>2. ASSUME NEW d \in Running'
        PROVE  executions'[IdOf[d]] = d /\ slots'[SlotOf[d]] = IdOf[d]
    BY <1>1, <2>1, <2>2 DEF TablesAgree, TypeOK, Running
  <2>3. ASSUME NEW s \in Slots, slots'[s] # None
        PROVE  executions'[slots'[s]] \in Running' /\ SlotOf[executions'[slots'[s]]] = s
    BY <1>1, <2>1, <2>3 DEF TablesAgree, TypeOK, Running
  <2>4. activeCount' = Cardinality(Running')
    BY <1>1, <2>1, RunningFinite, FS_AddElement DEF TablesAgree
  <2> QED
    BY <2>2, <2>3, <2>4 DEF TablesAgree
<1>2. ASSUME NEW c \in Calls, Complete(c), c \in Running, Running' = Running \ {c}
      PROVE  TablesAgree'
  <2>1. /\ slots' = [slots EXCEPT ![SlotOf[c]] = None]
        /\ activeCount' = activeCount - 1
        /\ executions' = executions
    BY <1>2 DEF Complete, Finish
  <2>2. ASSUME NEW d \in Running'
        PROVE  executions'[IdOf[d]] = d /\ slots'[SlotOf[d]] = IdOf[d]
    <3>1. SlotOf[d] # SlotOf[c]
      BY <1>2, <2>2 DEF TablesAgree
    <3> QED
      BY <1>2, <2>1, <2>2, <3>1 DEF TablesAgree, TypeOK, Running
  <2>3. ASSUME NEW s \in Slots, slots'[s] # None
        PROVE  executions'[slots'[s]] \in Running' /\ SlotOf[executions'[slots'[s]]] = s
    BY <1>2, <2>1, <2>3 DEF TablesAgree, TypeOK, Running
  <2>4. activeCount' = Cardinality(Running')
    BY <1>2, <2>1, RunningFinite, FS_RemoveElement DEF TablesAgree
  <2> QED
    BY <2>2, <2>3, <2>4 DEF TablesAgree
<1>3. ASSUME NEW c \in Calls, Expire(c), Running' = Running
      PROVE  TablesAgree'
  <2>1. /\ c \notin Running /\ executions[IdOf[c]] = c
        /\ executions' = [executions EXCEPT ![IdOf[c]] = None]
        /\ UNCHANGED <<slots, activeCount>>
    BY <1>3 DEF Expire, Running
  <2>2. ASSUME NEW d \in Running
        PROVE  executions'[IdOf[d]] = d
    BY <2>1, <2>2 DEF TablesAgree, TypeOK, Running
  <2>3. ASSUME NEW s \in Slots, slots[s] # None
        PROVE  executions'[slots[s]] = executions[slots[s]]
    BY <2>1, <2>3 DEF TablesAgree, TypeOK
  <2> QED
    BY <1>3, <2>1, <2>2, <2>3 DEF TablesAgree
<1>4. CASE Drain /\ Running' = Running
  BY <1>4 DEF Drain, TablesAgree
<1>5. CASE UNCHANGED regVars /\ Running' = Running
  BY <1>5 DEF TablesAgree
<1> QED
  BY <1>1, <1>2, <1>3, <1>4, <1>5, RunningStep

\* Every step keeps Drain's notification exact.
LEMMA DrainedStep ==
  ASSUME TypeOK, CallControl, TablesAgree, TablesAgree', DrainedExact, [Next]_vars
  PROVE  DrainedExact'
<1>1. (activeCount = 0 <=> Running = {}) /\ (activeCount' = 0 <=> Running' = {})
  <2>1. IsFiniteSet(Running)
    BY RunningFinite
  <2>2. IsFiniteSet(Running')
    BY AgentAssumption, FS_Subset DEF Running
  <2> QED
    BY <2>1, <2>2, FS_EmptySet DEF TablesAgree
<1>2. ASSUME NEW c \in Calls, Register(c) PROVE DrainedExact'
  BY <1>2, AcceptedMeansFree DEF Register, Record, DrainedExact
<1>3. ASSUME NEW c \in Calls, Complete(c), c \in Running PROVE DrainedExact'
  BY <1>1, <1>3 DEF Complete, Finish, DrainedExact, TypeOK
<1>4. ASSUME NEW c \in Calls, Expire(c), Running' = Running PROVE DrainedExact'
  BY <1>4 DEF Expire, DrainedExact
<1>5. CASE Drain /\ Running' = Running
  BY <1>1, <1>5 DEF Drain, DrainedExact
<1>6. CASE UNCHANGED regVars /\ Running' = Running
  BY <1>6 DEF DrainedExact
<1> QED
  BY <1>2, <1>3, <1>4, <1>5, <1>6, RunningStep

\* Every step keeps running executions off the slots under preparation.
LEMMA WipeStep ==
  ASSUME TypeOK, CallControl, CallControl', TablesAgree, NoWipeUnderRunner, [Next]_vars
  PROVE  NoWipeUnderRunner'
<1> USE AgentAssumption DEF Critical
<1> SUFFICES ASSUME NEW c \in Calls, pc'[c] \in Critical, NEW d \in Running'
             PROVE  SlotOf[d] # SlotOf[c]
  BY DEF NoWipeUnderRunner, CallControl
<1>1. CASE d \in Running /\ pc[c] \in Critical
  BY <1>1 DEF NoWipeUnderRunner
<1>2. CASE d \notin Running
  <2>1. Register(d)
    BY <1>2, RunningStep
  <2>2. pc[d] = "register" /\ pc'[d] = "done" /\ (c # d => pc'[c] = pc[c])
    BY <2>1 DEF Register, Record, Answer, TypeOK, Running
  <2> QED
    BY <2>2 DEF CallControl, Running
<1>3. CASE d \in Running /\ pc[c] \notin Critical
  <2>1. CheckAdmission(c) /\ Admission(c) = "accepted"
    BY <1>3 DEF Next, RunJob, Supervise, CheckAdmission, Peek, Build, StartPeek, Launch,
                Register, Record, DiscardLaunched, Answer, Proceed, Wait, ReportExit, Reap,
                Complete, Finish, Expire, ProcessExits, PipesDrained, Cancel, Drain, TypeOK
  <2> QED
    BY <1>3, <2>1, AcceptedMeansFree DEF TablesAgree, Running
<1> QED
  BY <1>1, <1>2, <1>3
-----------------------------------------------------------------------------
(* The inductive invariant and what follows from it. *)

AgentInv ==
  TypeOK /\ CallControl /\ TablesAgree /\ DrainedExact /\ NoWipeUnderRunner

\* A fresh agent satisfies the invariant.
LEMMA AgentInit == Init => AgentInv
<1> SUFFICES ASSUME Init PROVE AgentInv
  OBVIOUS
<1>1. TypeOK
  BY AgentAssumption DEF Init, TypeOK, NoExec, ExecType
<1>2. Running = {}
  BY DEF Init, Running, NoExec
<1>3. CallControl /\ NoWipeUnderRunner
  BY AgentAssumption DEF Init, CallControl, NoWipeUnderRunner, Critical, NoExec
<1>4. TablesAgree /\ DrainedExact
  BY <1>2, FS_EmptySet DEF Init, TablesAgree, DrainedExact
<1> QED
  BY <1>1, <1>3, <1>4 DEF AgentInv

\* The agent's registry, call control, drain notification and slot preparation
\* are right in every reachable state, whatever calls, exits, cancels, drains
\* and expiries interleave (Handler.RunJob, Registry).
THEOREM AgentSafe == Spec => []AgentInv
<1>1. AgentInv /\ [Next]_vars => AgentInv'
  BY TypeStep, ControlStep, TablesStep, DrainedStep, WipeStep DEF AgentInv
<1> QED
  BY <1>1, AgentInit, PTL DEF Spec

\* The guest's slot table and execution table never disagree, and the counter
\* Drain relies on never wraps below zero (Register, completeExecution, expire).
THEOREM TablesHold == Spec => []TablesAgree
<1>1. AgentInv => TablesAgree
  BY DEF AgentInv
<1> QED
  BY <1>1, AgentSafe, PTL

\* Drain's notification is exact (Drain, Register, completeExecution).
THEOREM DrainHolds == Spec => []DrainedExact
<1>1. AgentInv => DrainedExact
  BY DEF AgentInv
<1> QED
  BY <1>1, AgentSafe, PTL

\* No slot is wiped under a running job, nor by two calls at once
\* (Handler.RunJob's slot lock around CheckAdmission, Build and Start).
THEOREM WipeSafe == Spec => []NoWipeUnderRunner
<1>1. AgentInv => NoWipeUnderRunner
  BY DEF AgentInv
<1> QED
  BY <1>1, AgentSafe, PTL

\* Each step of the agent is a step of its promise, or changes nothing there.
LEMMA PromiseStep ==
  ASSUME AgentInv, [Next]_vars
  PROVE  [Promise!Next]_(Promise!slotVars)
<1> USE AgentAssumption DEF AgentInv, Promise!slotVars
<1>1. ASSUME NEW c \in Calls, Register(c) PROVE Promise!Next
  <2>1. /\ ~draining /\ executions[IdOf[c]] = None /\ slots[SlotOf[c]] = None
        /\ slots' = [slots EXCEPT ![SlotOf[c]] = IdOf[c]]
        /\ UNCHANGED draining
    BY <1>1, AcceptedMeansFree DEF Register, Record
  <2>2. \A t \in Slots : slots[t] # IdOf[c]
    BY <2>1 DEF TablesAgree, Running
  <2> QED
    BY <2>1, <2>2 DEF Promise!Next, Promise!Begin
<1>2. ASSUME NEW c \in Calls, Complete(c), c \in Running PROVE Promise!Next
  <2>1. /\ slots[SlotOf[c]] # None
        /\ slots' = [slots EXCEPT ![SlotOf[c]] = None]
        /\ UNCHANGED draining
    BY <1>2 DEF Complete, Finish, TablesAgree, Running
  <2> QED
    BY <2>1 DEF Promise!Next, Promise!End
<1>3. ASSUME NEW c \in Calls, Expire(c) PROVE UNCHANGED <<slots, draining>>
  BY <1>3 DEF Expire
<1>4. CASE Drain
  BY <1>4 DEF Drain, Promise!Next, Promise!Refuse
<1>5. CASE UNCHANGED regVars
  BY <1>5
<1> QED
  BY <1>1, <1>2, <1>3, <1>4, <1>5, RunningStep

\* The agent implements what the runner pool relies on: one execution per slot,
\* one slot per execution id, and nothing new once it drains.
THEOREM AgentImplementsPromise == Spec => KeepsPromise
<1>1. Init => Promise!Init
  BY DEF Init, Promise!Init
<1> QED
  BY <1>1, PromiseStep, AgentSafe, PTL DEF Spec, KeepsPromise, Promise!Spec
-----------------------------------------------------------------------------
(* Processes, their waiters and the reports found by pid. *)

\* Where a process is, for each stage of the goroutine that waits for it, and
\* what its execution has been told by then. What takes the registry to find
\* the execution by its pid holds of calls whose pid was not reused too early.
ProcessControl ==
  \A c \in Calls :
    /\ waiter[c] # "none" => pc[c] = "done"
    /\ waiter[c] = "none" =>
         /\ ~state[c].running /\ ~state[c].reaped /\ report[c] = None
         /\ IF pc[c] = "register" THEN proc[c] \in {"alive", "zombie"} ELSE proc[c] = "none"
    /\ waiter[c] = "wait" => proc[c] \in {"alive", "zombie"}
    /\ waiter[c] = "report" => proc[c] = "gone"
    /\ waiter[c] = "discard" => proc[c] = "zombie" /\ ~state[c].running /\ report[c] = None
    /\ waiter[c] = "done" => proc[c] = "gone"
    /\ exit[c] = IF state[c].reaped THEN report[c] ELSE None
    /\ state[c].reaped => report[c] # None
    /\ c \notin reused =>
         /\ waiter[c] \in {"wait", "report"} => Live(c) /\ report[c] = None
         /\ state[c].reaped => waiter[c] = "done"
         /\ state[c].reaped /\ ~state[c].running => ~pipes[c]

\* A process's exit is reported to one execution, its own unless both had the
\* pid.
ReportsApart ==
  /\ \A c \in Calls : report[c] # None =>
       /\ waiter[report[c]] = "done"
       /\ report[c] = c \/ ({c, report[c]} \subseteq reused /\ pid[c] = pid[report[c]])
  /\ \A c, d \in Calls : report[c] # None /\ report[c] = report[d] => c = d

\* Processes the registry has to tell apart have different pids.
Held(c) == PidInUse(c) \/ Unrecorded(c)

PidsApart ==
  \A c, d \in Calls : Held(c) /\ Held(d) /\ pid[c] = pid[d] =>
    c = d \/ {c, d} \subseteq reused

ProcessInv == ProcessControl /\ ReportsApart /\ PidsApart

\* SIGKILL leaves what is not alive as it was.
LEMMA KillsLiving ==
  ASSUME TypeOK, NEW p
  PROVE  \A d \in Calls :
           Killed(p)[d] = proc[d] \/ (proc[d] = "alive" /\ Killed(p)[d] = "zombie")
  BY DEF Killed, TypeOK

\* A report on the exit of a process changes the execution of that process, or
\* one that had its pid.
LEMMA ReportFindsOwner ==
  ASSUME TypeOK, TablesAgree, ProcessInv, NEW c \in Calls, ReportExit(c)
  PROVE  /\ waiter[c] = "report" /\ waiter' = [waiter EXCEPT ![c] = "done"]
         /\ UNCHANGED <<state, exit, pc, proc, pid, pipes, reused>>
         /\ c \notin reused => report' = [report EXCEPT ![c] = c]
         /\ \/ UNCHANGED report
            \/ \E e \in Calls :
                 /\ Live(e) /\ report[e] = None /\ pid[e] = pid[c]
                 /\ e = c \/ {e, c} \subseteq reused
                 /\ report' = [report EXCEPT ![e] = c]
<1>1. /\ waiter[c] = "report" /\ waiter' = [waiter EXCEPT ![c] = "done"]
      /\ UNCHANGED <<state, exit, pc, proc, pid, pipes, reused>>
  BY DEF ReportExit
<1>2. ASSUME NEW e \in Holders(pid[c]), Live(e)
      PROVE  e \in Calls /\ pid[e] = pid[c] /\ (e = c \/ {e, c} \subseteq reused)
  BY <1>1, <1>2 DEF Holders, ProcessInv, PidsApart, Held, Unrecorded
<1>3. ASSUME NEW e \in ByPID(pid[c]), Delivered(e, c)
      PROVE  \/ UNCHANGED report
             \/ /\ Live(e) /\ report[e] = None
                /\ report' = [report EXCEPT ![e] = c]
  <2>1. e \in Calls
    BY <1>3 DEF ByPID, Holders
  <2>2. state[e].running /\ exit[e] = None => Live(e)
    BY <2>1, AgentAssumption DEF ProcessInv, ProcessControl, Live
  <2> QED
    BY <1>3, <2>2 DEF Delivered
<1>4. ASSUME NEW e \in ByPID(pid[c]), Live(e) PROVE e \in Holders(pid[c])
  BY <1>4 DEF ByPID
<1>5. ASSUME c \notin reused PROVE report' = [report EXCEPT ![c] = c]
  <2>1. Live(c) /\ report[c] = None /\ exit[c] = None /\ state[c].running
    BY <1>1, <1>5 DEF ProcessInv, ProcessControl, Live
  <2>2. c \in Holders(pid[c])
    BY <2>1 DEF Holders, TablesAgree, Running
  <2>3. ByPID(pid[c]) = {c}
    BY <1>2, <1>5, <2>1, <2>2 DEF ByPID
  <2>4. Delivered(c, c)
    BY <2>3 DEF ReportExit
  <2> QED
    BY <2>1, <2>4 DEF Delivered
<1> QED
  BY <1>1, <1>2, <1>3, <1>4, <1>5 DEF ReportExit

\* Every step keeps processes, waiters and executions in their stages.
LEMMA ProcessStep ==
  ASSUME TypeOK, CallControl, TablesAgree, ProcessInv, [Next]_vars
  PROVE  ProcessControl'
<1> USE AgentAssumption
<1>0. ProcessControl
  BY DEF ProcessInv
<1>1. CASE UNCHANGED vars  BY <1>0, <1>1 DEF ProcessControl, Live
<1>2. ASSUME NEW c \in Calls, CheckAdmission(c) \/ Build(c) \/ StartPeek(c)
      PROVE ProcessControl'
  <2>1. /\ UNCHANGED <<execVars, procVars>>
        /\ pc[c] \notin {"register", "done"}
        /\ pc'[c] # "register" /\ \A d \in Calls \ {c} : pc'[d] = pc[d]
    BY <1>2, AdmissionTyped DEF CheckAdmission, Peek, Build, StartPeek, Answer, Proceed, TypeOK
  <2> QED
    BY <1>0, <2>1 DEF ProcessControl, Live
<1>3. ASSUME NEW c \in Calls, Launch(c) PROVE ProcessControl'
  <2>1. /\ UNCHANGED <<execVars, waiter>>
        /\ pc[c] = "launch" /\ \A d \in Calls \ {c} : pc'[d] = pc[d]
        /\ \A d \in Calls \ {c} : proc'[d] = proc[d] /\ pipes'[d] = pipes[d]
        /\ \/ pc'[c] = "register" /\ proc'[c] = "alive"
           \/ pc'[c] = "done" /\ proc'[c] = proc[c] /\ pipes'[c] = pipes[c]
        /\ reused \subseteq reused'
    BY <1>3 DEF Launch, Answer, Proceed, TypeOK
  <2> QED
    BY <1>0, <2>1 DEF ProcessControl, Live
<1>4. ASSUME NEW c \in Calls, Register(c) PROVE ProcessControl'
  <2>1. /\ UNCHANGED <<report, exit, proc, pipes, reused>>
        /\ pc[c] = "register" /\ pc' = [pc EXCEPT ![c] = "done"]
        /\ state' = [state EXCEPT ![c] = NewExec]
        /\ waiter' = [waiter EXCEPT ![c] = "wait"]
    BY <1>4 DEF Register, Record, Answer
  <2> QED
    BY <1>0, <2>1 DEF ProcessControl, Live, NewExec, TypeOK
<1>5. ASSUME NEW c \in Calls, DiscardLaunched(c) PROVE ProcessControl'
  <2>1. /\ UNCHANGED <<execVars, reused>>
        /\ pc[c] = "register" /\ pc' = [pc EXCEPT ![c] = "done"]
        /\ proc' = Killed(pid[c])
        /\ pipes' = [pipes EXCEPT ![c] = FALSE]
        /\ waiter' = [waiter EXCEPT ![c] = "discard"]
    BY <1>5 DEF DiscardLaunched, Answer
  <2>2. waiter[c] = "none" /\ proc[c] \in {"alive", "zombie"}
    BY <1>0, <2>1 DEF ProcessControl
  <2>3. proc'[c] = "zombie"
    BY <2>1, <2>2 DEF Killed, TypeOK
  <2> QED
    BY <1>0, <2>1, <2>2, <2>3, KillsLiving DEF ProcessControl, Live, TypeOK
<1>6. ASSUME NEW c \in Calls, Wait(c) PROVE ProcessControl'
  BY <1>0, <1>6 DEF Wait, ProcessControl, Live, TypeOK
<1>7. ASSUME NEW c \in Calls, ReportExit(c) PROVE ProcessControl'
  <2>1. CASE UNCHANGED report
    <3>1. report[c] = None => c \in reused
      BY <1>7, <2>1, ReportFindsOwner DEF TypeOK
    <3> QED
      BY <1>0, <1>7, <2>1, <3>1, ReportFindsOwner DEF ProcessControl, Live, TypeOK
  <2>2. ASSUME NEW e \in Calls, Live(e), report[e] = None, e = c \/ {e, c} \subseteq reused,
               report' = [report EXCEPT ![e] = c]
        PROVE  ProcessControl'
    <3>1. waiter[e] \notin {"none", "discard"} /\ ~state[e].reaped
      BY <1>0, <2>2 DEF ProcessControl, Live, TypeOK
    <3>2. \A d \in Calls : /\ report'[d] = IF d = e THEN c ELSE report[d]
                           /\ waiter'[d] = IF d = c THEN "done" ELSE waiter[d]
      <4>1. waiter' = [waiter EXCEPT ![c] = "done"]
        BY <1>7, ReportFindsOwner
      <4> QED
        BY <2>2, <4>1 DEF TypeOK
    <3>3. waiter[c] = "report" /\ UNCHANGED <<state, exit, pc, proc, pid, pipes, reused>>
      BY <1>7, ReportFindsOwner
    <3>4. ASSUME NEW d \in Calls, d \notin reused
          PROVE  (waiter[d] \in {"wait", "report"} => Live(d) /\ report[d] = None)'
      <4>1. waiter'[d] \in {"wait", "report"} => d # c /\ Live(d) /\ report[d] = None
        BY <1>0, <3>2, <3>4 DEF ProcessControl
      <4>2. d # c => d # e
        BY <2>2, <3>4
      <4> QED
        BY <3>2, <3>3, <4>1, <4>2 DEF Live
    <3> QED
      BY <1>0, <3>1, <3>2, <3>3, <3>4 DEF ProcessControl, Live
  <2> QED
    BY <1>7, <2>1, <2>2, ReportFindsOwner
<1>8. ASSUME NEW c \in Calls, Reap(c) PROVE ProcessControl'
  <2>1. c \notin reused => waiter[c] = "done"
    BY <1>0, <1>8 DEF Reap, ProcessControl, TypeOK
  <2>2. waiter[c] \notin {"none", "discard"}
    BY <1>0, <1>8 DEF Reap, ProcessControl
  <2> QED
    BY <1>0, <1>8, <2>1, <2>2 DEF Reap, ProcessControl, Live, TypeOK
<1>9. ASSUME NEW c \in Calls, Complete(c) PROVE ProcessControl'
  BY <1>0, <1>9 DEF Complete, Finish, ProcessControl, Live, TypeOK
<1>10. ASSUME NEW c \in Calls, Expire(c) PROVE ProcessControl'
  BY <1>0, <1>10 DEF Expire, ProcessControl, Live
<1>11. ASSUME NEW c \in Calls, ProcessExits(c) \/ PipesDrained(c) PROVE ProcessControl'
  BY <1>0, <1>11 DEF ProcessExits, PipesDrained, ProcessControl, Live, TypeOK
<1>12. ASSUME NEW i \in Ids, Cancel(i) PROVE ProcessControl'
  <2> DEFINE c == executions[i]
  <2>1. /\ UNCHANGED <<report, exit, pc, waiter, pipes, reused>>
        /\ c \in Calls /\ Live(c)
        /\ proc' = Killed(pid[c])
        /\ state' = [state EXCEPT ![c] = [running |-> TRUE, reaped |-> FALSE, cancelled |-> TRUE]]
    BY <1>12 DEF Cancel, TypeOK
  <2> HIDE DEF c
  <2>2. \A d \in Calls : /\ state'[d].running <=> state[d].running
                         /\ state'[d].reaped <=> state[d].reaped
    BY <2>1 DEF Live, TypeOK
  <2> QED
    BY <1>0, <2>1, <2>2, KillsLiving DEF ProcessControl, Live, TypeOK
<1>13. CASE Drain
  BY <1>0, <1>13 DEF Drain, ProcessControl, Live
<1> QED
  BY <1>1, <1>2, <1>3, <1>4, <1>5, <1>6, <1>7, <1>8, <1>9, <1>10, <1>11, <1>12, <1>13
     DEF Next, RunJob, Supervise

\* No step but a fork takes a pid into use, changes the pid of a call or notes
\* that one was reused.
LEMMA PidFrame ==
  ASSUME TypeOK, CallControl, ProcessControl, [Next]_vars, ~\E c \in Calls : Launch(c)
  PROVE  UNCHANGED <<pid, reused>> /\ \A d \in Calls : Held(d)' => Held(d)
<1> USE AgentAssumption DEF Held, Unrecorded
<1>1. CASE UNCHANGED vars  BY <1>1 DEF PidInUse, Live
<1>2. ASSUME NEW c \in Calls, CheckAdmission(c) \/ Build(c) \/ StartPeek(c)
      PROVE  UNCHANGED <<pid, proc, waiter, state, reused>>
  BY <1>2 DEF CheckAdmission, Peek, Build, StartPeek
<1>3. ASSUME NEW c \in Calls, Register(c)
      PROVE  UNCHANGED <<pid, reused>> /\ \A d \in Calls : Held(d)' => Held(d)
  <2>1. proc[c] \in {"alive", "zombie"}
    BY <1>3 DEF Register, Record, ProcessControl, CallControl
  <2> QED
    BY <1>3, <2>1 DEF Register, Record, PidInUse, Live, TypeOK
<1>4. ASSUME NEW c \in Calls, DiscardLaunched(c)
      PROVE  UNCHANGED <<pid, reused>> /\ \A d \in Calls : Held(d)' => Held(d)
  <2>1. /\ UNCHANGED <<pid, state, reused>> /\ proc' = Killed(pid[c])
        /\ waiter' = [waiter EXCEPT ![c] = "discard"]
    BY <1>4 DEF DiscardLaunched
  <2> QED
    BY <2>1, KillsLiving DEF PidInUse, Live, TypeOK
<1>5. ASSUME NEW c \in Calls, Wait(c)
      PROVE  UNCHANGED <<pid, reused>> /\ \A d \in Calls : Held(d)' => Held(d)
  BY <1>5 DEF Wait, PidInUse, Live, TypeOK
<1>6. ASSUME NEW c \in Calls, ReportExit(c)
      PROVE  UNCHANGED <<pid, reused>> /\ \A d \in Calls : Held(d)' => Held(d)
  BY <1>6 DEF ReportExit, PidInUse, Live, TypeOK
<1>7. ASSUME NEW c \in Calls, Reap(c) \/ Complete(c)
      PROVE  UNCHANGED <<pid, reused>> /\ \A d \in Calls : Held(d)' => Held(d)
  BY <1>7 DEF Reap, Complete, Finish, PidInUse, Live, TypeOK
<1>8. ASSUME NEW c \in Calls, ProcessExits(c)
      PROVE  UNCHANGED <<pid, reused>> /\ \A d \in Calls : Held(d)' => Held(d)
  BY <1>8 DEF ProcessExits, PidInUse, Live, TypeOK
<1>9. ASSUME NEW c \in Calls, PipesDrained(c) \/ Expire(c)
      PROVE  UNCHANGED <<pid, proc, waiter, state, reused>>
  BY <1>9 DEF PipesDrained, Expire
<1>10. ASSUME NEW i \in Ids, Cancel(i)
      PROVE  UNCHANGED <<pid, reused>> /\ \A d \in Calls : Held(d)' => Held(d)
  <2>1. /\ UNCHANGED <<pid, waiter, reused>> /\ proc' = Killed(pid[executions[i]])
        /\ executions[i] \in Calls /\ Live(executions[i])
        /\ state' = [state EXCEPT ![executions[i]] =
                        [running |-> TRUE, reaped |-> FALSE, cancelled |-> TRUE]]
    BY <1>10 DEF Cancel, TypeOK
  <2> QED
    BY <2>1, KillsLiving DEF PidInUse, Live, TypeOK
<1>11. CASE Drain
  BY <1>11 DEF Drain, PidInUse, Live
<1> QED
  BY <1>1, <1>2, <1>3, <1>4, <1>5, <1>6, <1>7, <1>8, <1>9, <1>10, <1>11
     DEF Next, RunJob, Supervise, PidInUse, Live

\* Every step keeps the pids apart, but for those it notes as reused.
LEMMA PidsStep ==
  ASSUME TypeOK, CallControl, ProcessInv, [Next]_vars
  PROVE  PidsApart'
<1> USE AgentAssumption
<1>1. ASSUME NEW c \in Calls, Launch(c) PROVE PidsApart'
  <2>1. CASE Answer(c, "error") /\ UNCHANGED <<pid, proc, pipes, reused>>
    BY <1>1, <2>1 DEF Launch, ProcessInv, PidsApart, Held, Unrecorded, PidInUse, Live
  <2>2. ASSUME NEW p \in FreePids, pid' = [pid EXCEPT ![c] = p],
               proc' = [proc EXCEPT ![c] = "alive"],
               reused' = reused \cup
                 (LET late == {d \in Calls : pid[d] = p /\ Unrecorded(d)}
                  IN  IF late = {} THEN {} ELSE late \cup {c})
        PROVE PidsApart'
    <3>1. \A d \in Calls \ {c} : Held(d)' => Held(d) /\ pid'[d] = pid[d]
      BY <1>1, <2>2 DEF Launch, Held, Unrecorded, PidInUse, Live, TypeOK
    <3>2. pid'[c] = p /\ \A d \in Calls : PidInUse(d) => pid[d] # p
      BY <2>2 DEF FreePids, TypeOK
    <3>3. ASSUME NEW d \in Calls \ {c}, Held(d)', pid'[d] = p
          PROVE  {c, d} \subseteq reused'
      <4>1. pid[d] = p /\ Unrecorded(d)
        BY <3>1, <3>2, <3>3 DEF Held
      <4> QED
        BY <2>2, <4>1
    <3>4. reused \subseteq reused'
      BY <2>2
    <3> SUFFICES ASSUME NEW d \in Calls, NEW e \in Calls, Held(d)', Held(e)',
                        pid'[d] = pid'[e], d # e
                 PROVE  {d, e} \subseteq reused'
      BY DEF PidsApart
    <3>5. CASE d = c \/ e = c
      BY <3>2, <3>3, <3>5
    <3>6. CASE d # c /\ e # c
      BY <3>1, <3>4, <3>6 DEF ProcessInv, PidsApart
    <3> QED
      BY <3>5, <3>6
  <2> QED
    BY <1>1, <2>1, <2>2 DEF Launch
<1>2. CASE ~\E c \in Calls : Launch(c)
  BY <1>2, PidFrame DEF ProcessInv, PidsApart
<1> QED
  BY <1>1, <1>2

\* Every step delivers a process's exit to one execution at most, its own or one
\* that had its pid.
LEMMA ReportsStep ==
  ASSUME TypeOK, CallControl, TablesAgree, ProcessInv, [Next]_vars
  PROVE  ReportsApart'
<1> USE AgentAssumption
<1>0. ProcessControl /\ ReportsApart
  BY DEF ProcessInv
<1>1. ASSUME NEW c \in Calls, ReportExit(c) PROVE ReportsApart'
  <2>1. \A d \in Calls : report[d] # c
    BY <1>0, <1>1, ReportFindsOwner DEF ReportsApart
  <2>2. \A d \in Calls : waiter[d] = "done" => waiter'[d] = "done"
    BY <1>1, ReportFindsOwner DEF TypeOK
  <2>3. CASE UNCHANGED report
    BY <1>0, <1>1, <2>2, <2>3, ReportFindsOwner DEF ReportsApart, TypeOK
  <2>4. ASSUME NEW e \in Calls, pid[e] = pid[c], e = c \/ {e, c} \subseteq reused,
               report' = [report EXCEPT ![e] = c]
        PROVE  ReportsApart'
    <3>1. \A d \in Calls : report'[d] = IF d = e THEN c ELSE report[d]
      BY <2>4 DEF TypeOK
    <3>2. waiter'[c] = "done" /\ UNCHANGED <<pid, reused>>
      BY <1>1, ReportFindsOwner DEF TypeOK
    <3>3. \A d \in Calls : report[d] \in Calls \cup {None}
      BY DEF TypeOK
    <3> QED
      BY <1>0, <2>1, <2>2, <2>4, <3>1, <3>2, <3>3 DEF ReportsApart
  <2> QED
    BY <1>1, <2>3, <2>4, ReportFindsOwner
<1>2. ASSUME NEW c \in Calls, Launch(c) PROVE ReportsApart'
  <2>1. /\ UNCHANGED <<report, waiter>> /\ reused \subseteq reused'
        /\ \A d \in Calls \ {c} : pid'[d] = pid[d]
    BY <1>2 DEF Launch, TypeOK
  <2>2. waiter[c] = "none" /\ report[c] = None
    BY <1>0, <1>2 DEF Launch, ProcessControl
  <2>3. \A d \in Calls : report[d] # c
    BY <1>0, <2>2 DEF ReportsApart
  <2> QED
    BY <1>0, <2>1, <2>2, <2>3 DEF ReportsApart, TypeOK
<1>3. CASE /\ UNCHANGED <<report, pid, reused>>
           /\ \A d \in Calls : waiter[d] = "done" => waiter'[d] = "done"
  BY <1>0, <1>3 DEF ReportsApart, TypeOK
<1>4. ASSUME NEW c \in Calls, Register(c) \/ DiscardLaunched(c)
      PROVE  \A d \in Calls : waiter[d] = "done" => waiter'[d] = "done"
  <2>1. waiter[c] = "none"
    BY <1>0, <1>4 DEF Register, Record, DiscardLaunched, ProcessControl
  <2> QED
    BY <1>4, <2>1 DEF Register, Record, DiscardLaunched, TypeOK
<1>5. ASSUME NEW c \in Calls, Wait(c)
      PROVE  \A d \in Calls : waiter[d] = "done" => waiter'[d] = "done"
  BY <1>5 DEF Wait, TypeOK
<1>6. ASSUME NEW c \in Calls, \/ CheckAdmission(c) \/ Build(c) \/ StartPeek(c) \/ Reap(c)
                             \/ Complete(c) \/ Expire(c) \/ ProcessExits(c) \/ PipesDrained(c)
      PROVE  UNCHANGED <<report, pid, reused, waiter>>
  BY <1>6 DEF CheckAdmission, Peek, Build, StartPeek, Reap, Complete, Finish, Expire,
              ProcessExits, PipesDrained
<1>7. ASSUME NEW c \in Calls, Register(c) \/ DiscardLaunched(c) \/ Wait(c)
      PROVE  UNCHANGED <<report, pid, reused>>
  BY <1>7 DEF Register, Record, DiscardLaunched, Wait
<1>8. ASSUME NEW i \in Ids, Cancel(i) PROVE UNCHANGED <<report, pid, reused, waiter>>
  BY <1>8 DEF Cancel
<1>9. CASE Drain
  BY <1>3, <1>9 DEF Drain
<1>10. CASE UNCHANGED vars
  BY <1>3, <1>10
<1> QED
  BY <1>1, <1>2, <1>3, <1>4, <1>5, <1>6, <1>7, <1>8, <1>9, <1>10 DEF Next, RunJob, Supervise

\* Processes, waiters, reports and pids are where the control of calls and
\* executions says, in every reachable state and whenever pids come back
\* (Start, superviseExecution, ReportExit).
THEOREM ProcessesHold == Spec => []ProcessInv
<1>1. Init => ProcessInv
  BY DEF Init, ProcessInv, ProcessControl, ReportsApart, PidsApart, Held, Unrecorded,
         PidInUse, Live, NoExec
<1>2. AgentInv /\ ProcessInv /\ [Next]_vars => ProcessInv'
  BY ProcessStep, ReportsStep, PidsStep DEF AgentInv, ProcessInv
<1> QED
  BY <1>1, <1>2, AgentSafe, PTL DEF Spec

\* No live process is forgotten: each is about to be registered or can be
\* cancelled, unless its pid was handed out too early (Start, discardLaunched).
THEOREM OrphansNever == Spec => []NoOrphans
<1>1. TypeOK /\ ProcessInv => NoOrphans
  BY DEF TypeOK, ProcessInv, ProcessControl, NoOrphans
<1>2. AgentInv => TypeOK
  BY DEF AgentInv
<1> QED
  BY <1>1, <1>2, AgentSafe, ProcessesHold, PTL

\* Whatever the kernel does with pids, an exit is recorded once, by the execution
\* of its process or by one that had its pid from before the first exit of that
\* pid was recorded (ReportExit, executionByPIDLocked).
THEOREM ExitsHold == Spec => []ExitGoesToOwner
<1>1. TypeOK /\ ProcessInv => ExitGoesToOwner
  BY DEF TypeOK, ProcessInv, ProcessControl, ReportsApart, ExitGoesToOwner
<1>2. AgentInv => TypeOK
  BY DEF AgentInv
<1> QED
  BY <1>1, <1>2, AgentSafe, ProcessesHold, PTL

\* A terminal result follows all of the output and the end of the process, of
\* every execution whose pid was not handed out too early (reapAndComplete).
THEOREM TerminalsHold == Spec => []TerminalAfterOutput
<1>1. AgentInv /\ ProcessInv => TerminalAfterOutput
  BY AgentAssumption DEF AgentInv, TypeOK, ProcessInv, ProcessControl, TerminalAfterOutput
<1> QED
  BY <1>1, AgentSafe, ProcessesHold, PTL
=============================================================================
