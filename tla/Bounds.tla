------------------------------- MODULE Bounds -------------------------------
(* The bounds and the counters that the parts of a warm-up share. *)
EXTENDS Naturals

CONSTANTS
  Faults,   \* bound: commands that fail, timeouts, deaths of an agent
  Restarts, \* bound: broker restarts
  None      \* no image, no token, no home

ASSUME BoundsAssumption ==
  /\ Faults \in Nat /\ Restarts \in Nat
  /\ None \notin Nat

VARIABLES
  faults,   \* failures so far
  restarts  \* broker restarts so far

NoFault  == UNCHANGED faults
Fault(n) == faults + n <= Faults /\ faults' = faults + n
=============================================================================
