------------------------------ MODULE JobQueue ------------------------------
(***************************************************************************)
(* What the runner pool promises of the jobs it is handed, with no worker, *)
(* VM or slot in sight: between two starts of the broker every delivery is *)
(* bound at most once, in order of arrival, and ends at most once; only a  *)
(* start that adopts running executions may bind one again.                *)
(***************************************************************************)
EXTENDS Sequences

CONSTANT Deliveries

VARIABLES
  queue,   \* deliveries waiting for a slot
  phase,   \* phase[d]: where the delivery is in its life
  up       \* is a broker serving?

jobVars == <<queue, phase, up>>

Phases == {"new", "queued", "bound", "ended", "released"}

Init ==
  /\ queue = <<>>
  /\ phase = [d \in Deliveries |-> "new"]
  /\ up = FALSE

Arrive(d) ==
  /\ phase[d] = "new"
  /\ queue' = Append(queue, d)
  /\ phase' = [phase EXCEPT ![d] = "queued"]
  /\ UNCHANGED up

\* First in, first out.
Bind ==
  /\ up
  /\ queue # <<>>
  /\ queue' = Tail(queue)
  /\ phase[Head(queue)] = "queued"
  /\ phase' = [phase EXCEPT ![Head(queue)] = "bound"]
  /\ UNCHANGED up

\* The job is over, or its slot let go of it while the guest keeps it.
Leave(d) ==
  /\ phase[d] = "bound"
  /\ \E p \in {"ended", "released"} : phase' = [phase EXCEPT ![d] = p]
  /\ UNCHANGED <<queue, up>>

\* A new process knows neither the queue nor the bindings of the old one.
GoDown ==
  /\ up
  /\ up' = FALSE
  /\ queue' = <<>>
  /\ phase' = [d \in Deliveries |->
                 CASE phase[d] = "queued" -> "ended"
                   [] phase[d] = "bound"  -> "released"
                   [] OTHER               -> phase[d]]

\* Adoption binds executions that are still running, nothing new or queued.
ComeUp ==
  /\ ~up
  /\ up' = TRUE
  /\ \E adopted \in SUBSET {d \in Deliveries : phase[d] \in {"ended", "released"}} :
       phase' = [d \in Deliveries |-> IF d \in adopted THEN "bound" ELSE phase[d]]
  /\ UNCHANGED queue

Next ==
  \/ \E d \in Deliveries : Arrive(d) \/ Leave(d)
  \/ Bind \/ GoDown \/ ComeUp

Spec == Init /\ [][Next]_jobVars
=============================================================================
