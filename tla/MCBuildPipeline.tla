-------------------------- MODULE MCBuildPipeline --------------------------
(***************************************************************************)
(* Instances of BuildPipeline for TLC.  Processes and builds are model     *)
(* values; nothing in the specification tells two requests, two workers or *)
(* two builds apart, so runs without liveness use their permutations.      *)
(***************************************************************************)
EXTENDS BuildPipeline, TLC

CONSTANTS b1, b2, r1, r2, w1, w2, nobody

OneBuild == {b1}
TwoBuilds == {b1, b2}
OneRequest == {r1}
TwoRequests == {r1, r2}
OneWorker == {w1}
TwoWorkers == {w1, w2}

AllProcs == Requests \cup Workers

Symmetry == Permutations(Builds) \cup Permutations(Requests) \cup Permutations(Workers)
=============================================================================
