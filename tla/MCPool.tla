------------------------------- MODULE MCPool -------------------------------
(* Small instances of the runner pool for TLC. *)
EXTENDS Pool, TLC

\* Every delivery announces a job of its own.
DistinctJobs == CHOOSE f \in [Deliveries -> 1 .. Cardinality(Deliveries)] :
                  \A d, e \in Deliveries : d # e => f[d] # f[e]

\* VM names and worker indexes are interchangeable, and so are deliveries: their
\* job ids are only ever compared for equality.
Symmetry == Permutations(VMs) \cup Permutations(Deliveries)
PairSymmetry == Symmetry \cup Permutations(Workers)
=============================================================================
