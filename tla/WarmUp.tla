------------------------------- MODULE WarmUp -------------------------------
(***************************************************************************)
(* One worker's VM from the golden image to its jobs: broker.Warm, perhaps *)
(* after the install command on a host without a daemon, ensures the       *)
(* golden (Golden), clones and boots the VM and brings its agent into      *)
(* service (GuestBoot); jobs then run on it, each with a runner registered *)
(* at GitHub under the slot's name; the pool's health check recycles an    *)
(* idle VM, and a restarted broker deletes stale registrations and adopts  *)
(* the VM it finds. Beside it the pool's other workers, or an install,     *)
(* warm up from the same golden.                                           *)
(***************************************************************************)
EXTENDS Golden, GuestBoot

CONSTANTS
  w,    \* the worker
  Free  \* no job is bound to the slot

\* Runner names of the VM: its own, here None, and one per slot.
Names == Slots \cup {None}

ASSUME WorkerAssumption == w \in Workers /\ Free \notin Names

VARIABLES
  reg,     \* GitHub's view of each name: "none", "offline" or "online"
  runner,  \* name of the runner that each slot's job has minted
  cut      \* history: slots whose job lost its registration to a restart

jobVars == <<reg, runner, cut>>
imageVars == <<pull, golden, staging, build, check, pc, crossed>>
brokerVars == <<want, host, cached, misfit, reminted>>
vars == <<imageVars, brokerVars, guestVars, jobVars, faults, restarts>>

NoRunners ==
  reg' = [n \in Names |-> "none"] /\ runner' = [s \in Slots |-> Free] /\ cut' = {}

-----------------------------------------------------------------------------
(* Warm *)

Ensures ==
  /\ host = "boot"
  /\ EnsureGolden(w) \/ Clone(w) \/ RetryGolden(w) \/ InstallEnds(w)
  /\ UNCHANGED <<brokerVars, guestVars, jobVars>>

\* Another worker warms up, or an install builds; this worker's VM has names of
\* its own. Bound: it warms up again, after a failure or a recycle, at the price
\* of a fault.
RivalAgain(x) ==
  /\ pc[x] \in {"failed", "done"}
  /\ Go(x, "list") /\ Fault(1)
  /\ build' = [build EXCEPT ![x] = None] /\ check' = [check EXCEPT ![x] = None]
  /\ UNCHANGED <<pull, golden, staging, crossed, restarts>>

Rival(x) ==
  /\ EnsureGolden(x) \/ Clone(x) \/ InstallEnds(x) \/ RivalAgain(x)
  /\ UNCHANGED <<brokerVars, guestVars, jobVars>>

BringsUp ==
  /\ pc[w] = "done"
  /\ Warm
  /\ UNCHANGED <<imageVars, jobVars>>

\* Mutant: the warm-up is not repeated.
GivesUp == host = "failed" /\ UNCHANGED vars

\* warmWorker warms another VM, golden and all.
Retry ==
  /\ host = "failed"
  /\ Recycle(w) /\ Afresh /\ NoRunners
  /\ UNCHANGED want

GuestRuns == Agent /\ UNCHANGED <<imageVars, jobVars>>

-----------------------------------------------------------------------------
(* Jobs and their runners *)

\* runnerNameForSlot
NameOf(s) == IF want <= 1 THEN None ELSE s

\* A runner is registered; GitHub refuses a name it has.
GenerateJITConfig(name) ==
  /\ reg[name] = "none"
  /\ reg' = [reg EXCEPT ![name] = "offline"]

\* generateJIT; if it fails RunJob returns and leaves everything as it was.
Mint(s) ==
  /\ host = "warm" /\ s < want /\ runner[s] = Free
  /\ GenerateJITConfig(NameOf(s))
  /\ runner' = [runner EXCEPT ![s] = NameOf(s)]
  /\ UNCHANGED <<imageVars, brokerVars, guestVars, cut, faults, restarts>>

\* client.RunJob: the guest accepts, or the call fails and the slot is free
\* again, with its runner registered.  (A reply that is lost once the guest has
\* accepted is part of module Pool.)
RunJob(s) ==
  /\ host = "warm" /\ runner[s] # Free /\ home[s] = None
  /\ \/ Dispatch(s) /\ UNCHANGED jobVars
     \/ /\ runner' = [runner EXCEPT ![s] = Free]
        /\ IF Authorized THEN Fault(1) ELSE NoFault
        /\ UNCHANGED <<brokerVars, guestVars, reg, cut, restarts>>
  /\ UNCHANGED imageVars

\* The runner connects, if GitHub knows it.
RunnerConnects(s) ==
  /\ home[s] # None /\ reg[runner[s]] = "offline"
  /\ reg' = [reg EXCEPT ![runner[s]] = "online"]
  /\ UNCHANGED <<imageVars, brokerVars, guestVars, runner, cut, faults, restarts>>

\* An ephemeral runner that has had its job removes its registration; one that
\* never connected leaves it.
RunnerExits(s) ==
  /\ JobEnds(s)
  /\ reg' = [reg EXCEPT ![runner[s]] = IF @ = "online" THEN "none" ELSE @]
  /\ runner' = [runner EXCEPT ![s] = Free] /\ cut' = cut \ {s}
  /\ UNCHANGED imageVars

\* The agent dies with its runners.
AgentCrashes ==
  /\ AgentDies
  /\ reg' = [n \in Names |-> IF reg[n] = "online" THEN "offline" ELSE reg[n]]
  /\ runner' = [s \in Slots |-> IF home[s] = None THEN runner[s] ELSE Free]
  /\ cut' = {}
  /\ UNCHANGED imageVars

-----------------------------------------------------------------------------
(* The pool and the daemon's start *)

ListRunners == {n \in Names : reg[n] # "none"}

\* A job on a slot beyond jobs_per_vm is out of the pool's sight.
Idle == \A s \in 0 .. want - 1 : runner[s] = Free

\* Mutant: slots have no names of their own.
OwnName == {None}

\* runnerNameBelongsToVM: also slots beyond the VM's slot count.
VMNames == Names

\* checkHealth: nobody removes the registrations of an idle VM, so one that has a
\* registration left is replaced.
CheckHealth ==
  /\ host = "warm" /\ Idle
  /\ VMNames \cap ListRunners # {}
  /\ Recycle(w) /\ Afresh /\ NoRunners
  /\ UNCHANGED want

\* shouldRecycle: max_idle, max_age, or a VM that does not answer.
IdleExpires ==
  /\ host = "warm" /\ Idle
  /\ Recycle(w) /\ Afresh /\ NoRunners
  /\ UNCHANGED want

\* Mutant: every registration with the pool's prefix goes.
DeletesAll == ListRunners

\* What deleteStaleRunners deletes: the offline runners with the pool's prefix.
Stale == {n \in ListRunners : reg[n] = "offline"}

DeleteRunners(gone) == reg' = [n \in Names |-> IF n \in gone THEN "none" ELSE reg[n]]

\* deleteStaleRunners, which goes on when a list or a delete fails.
DeleteStaleRunners(gone) ==
  /\ DeleteRunners(gone)
  /\ runner' = [s \in Slots |-> IF home[s] = None THEN Free ELSE runner[s]]
  /\ cut' = cut \cup {s \in Slots : home[s] # None /\ runner[s] \in gone
                                    /\ reg[runner[s]] = "offline"}

\* What the other workers made is left behind under names of its own.
OthersBegin ==
  /\ pc' = [x \in Workers |-> IF x = w THEN pc[w] ELSE "list"]
  /\ build' = [x \in Workers |-> IF x = w THEN build[w] ELSE None]
  /\ check' = [x \in Workers |-> IF x = w THEN check[w] ELSE None]
  /\ crossed' = {}

\* The broker restarts, perhaps as another build or with another base, and
\* adopts the VM.
RestartAdopts ==
  /\ Adopt
  /\ Reborn
  /\ \E gone \in {Stale, {}} : DeleteStaleRunners(gone)
  /\ OthersBegin
  /\ UNCHANGED <<layout, stager>>

\* It restarts with nothing to adopt.
RestartCold ==
  /\ host \in {"boot", "failed"}
  /\ Restart
  /\ Afresh /\ NoRunners
  /\ want' \in Counts

-----------------------------------------------------------------------------
Init ==
  /\ GoldenInit /\ BootInit
  /\ reg = [n \in Names |-> "none"] /\ runner = [s \in Slots |-> Free] /\ cut = {}
  /\ faults = 0 /\ restarts = 0

Worker == Ensures \/ BringsUp \/ Retry

Next ==
  \/ Worker \/ GuestRuns \/ AgentCrashes
  \/ \E x \in Workers \ {w} : Rival(x)
  \/ \E s \in Slots : Mint(s) \/ RunJob(s) \/ RunnerConnects(s) \/ RunnerExits(s)
  \/ CheckHealth \/ IdleExpires \/ RestartAdopts \/ RestartCold

\* The worker's goroutine goes on, launchd keeps the agent alive and the pool's
\* reconcile loop comes round; jobs may run for ever, and so may a warm VM.
Spec ==
  /\ Init /\ [][Next]_vars
  /\ WF_vars(Worker) /\ WF_vars(GuestRuns) /\ WF_vars(CheckHealth)

-----------------------------------------------------------------------------
(* Properties *)

\* With finitely many failures a VM comes into service, agent included, whatever
\* a failure or a restart left behind: a golden image deleted or out of date, a
\* staging image, a VM without its seed (EnsureGolden, Warm, warmWorker).
ComesIntoService == host = "boot" ~> host = "warm" /\ agent = "serve"

\* A job's runner stays registered while the job runs, over restarts of the
\* broker, unless one fell before the runner had connected (deleteStaleRunners).
RunnerKept ==
  \A s \in Slots : home[s] # None /\ s \notin cut => reg[runner[s]] # "none"

\* A VM does not stay idle for ever with a name that is registered, which no job
\* could register again (checkHealth, runnerNameBelongsToVM).
IdleNameFreed ==
  []<>~(host = "warm" /\ Idle /\ \E s \in 0 .. want - 1 : reg[NameOf(s)] # "none")
=============================================================================
