--------------------------- MODULE MCAgentPolling ---------------------------
(***************************************************************************)
(* Instances of AgentPolling for TLC.  Builds, replicas and jobs are model *)
(* values that the specification does not tell apart, so runs without      *)
(* liveness use their permutations.                                        *)
(***************************************************************************)
EXTENDS AgentPolling, TLC

CONSTANTS b1, b2, r1, r2, j1, j2, j3

OneBuild == {b1}
TwoBuilds == {b1, b2}
OneReplica == {r1}
TwoReplicas == {r1, r2}
TwoJobs == {j1, j2}
ThreeJobs == {j1, j2, j3}

Symmetry == Permutations(Builds) \cup Permutations(Replicas) \cup Permutations(Jobs)
=============================================================================
