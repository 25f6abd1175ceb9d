------------------------------ MODULE MCWarmUp ------------------------------
(* Small instances of a worker's warm-up and its jobs for TLC. *)
EXTENDS WarmUp

CONSTANT x \* the other worker

AnyGolden == {None, "good"}

\* Bounds on interleavings of steps that share nothing: the other worker begins to
\* warm up only before this one's VM is booted, and a job only when the other is
\* not at it. With both at it one failure comes, and a restart brings another
\* jobs_per_vm or other images.
Rests == pc[x] \in {"list", "done", "failed"}
FewFaults == pc'[x] # "list" => faults' <= 1
OneChange == want' = want \/ UNCHANGED <<base, golden, staging>>

MCNext ==
  \/ Worker /\ FewFaults
  \/ GuestRuns /\ FewFaults
  \/ AgentCrashes /\ FewFaults
  \/ (Rests => host = "boot") /\ Rival(x) /\ FewFaults
  \/ \E s \in Slots : Rests /\ Mint(s)
  \/ \E s \in Slots : RunJob(s) /\ FewFaults
  \/ \E s \in Slots : RunnerConnects(s) \/ RunnerExits(s)
  \/ CheckHealth \/ IdleExpires
  \/ (RestartAdopts \/ RestartCold) /\ OneChange

MCSpec ==
  /\ Init /\ [][MCNext]_vars
  /\ WF_vars(Worker) /\ WF_vars(GuestRuns) /\ WF_vars(CheckHealth)
=============================================================================
