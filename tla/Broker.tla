------------------------------- MODULE Broker -------------------------------
(***************************************************************************)
(* The Celery broker (Redis) as the control plane uses it: a bag of        *)
(* run_build messages, each the build and the number of retries already    *)
(* made.  Celery does not drop a second message with the same task id, so  *)
(* the bag counts copies.  A message taken by a worker is not here; it     *)
(* comes back if the worker is lost before acknowledging it (acks_late,    *)
(* task_reject_on_worker_lost).                                            *)
(***************************************************************************)
EXTENDS BuildRuns, Naturals

CONSTANT
    MaxRetries    \* run_build's max_retries (5 in the code)

ASSUME RetriesAssumption == MaxRetries \in Nat

VARIABLE queue

Attempts == 0 .. MaxRetries
Messages == Builds \X Attempts

BrokerInit == queue = [m \in Messages |-> 0]

Publish(b, n) == queue' = [queue EXCEPT ![<<b, n>>] = @ + 1]

(* Mutation: a worker takes a message without looking whether there is one. *)
TakeBlindly(b, n) == queue' = [queue EXCEPT ![<<b, n>>] = @ - 1]

Take(b, n) == queue[<<b, n>>] > 0 /\ queue' = [queue EXCEPT ![<<b, n>>] = @ - 1]
=============================================================================
