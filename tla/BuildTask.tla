----------------------------- MODULE BuildTask -----------------------------
(***************************************************************************)
(* The Celery task that runs a build                                       *)
(* (control-plane/app/tasks/build_tasks.py and build_executor.py).         *)
(*                                                                         *)
(* One delivery of a run_build message is a worker process that goes       *)
(* through phases: the executor's transaction, then either success, or a   *)
(* retry, or the refund after the last retry, or, when the soft time limit *)
(* hits, the forced failure.  The executor's transaction spans the whole   *)
(* build: everything it flushed, FAILED included, is rolled back with it.  *)
(***************************************************************************)
EXTENDS BuildStore, Broker

CONSTANTS
    Workers,     \* Celery worker processes
    MaxCrashes   \* bound: workers lost in a behaviour

ASSUME WorkersAssumption == Workers \subseteq Procs
ASSUME CrashesAssumption == MaxCrashes \in Nat

VARIABLES
    task,        \* what every worker is doing
    crashes      \* workers lost so far

taskVars == <<storeVars, queue, task, crashes>>

(* soft: the soft time limit of this delivery has already been raised.     *)
Phases == {"execute", "succeeded", "failed", "force-fail", "exhaust", "ending"}
Tasks == [phase : Phases, build : Builds, attempt : Attempts, soft : BOOLEAN]
Idle == [phase |-> "idle"]

TaskInit ==
    /\ task = [w \in Workers |-> Idle]
    /\ crashes = 0

GoTo(w, phase) == task' = [task EXCEPT ![w].phase = phase]

(***************************************************************************)
(* BuildTaskExecutor.execute                                               *)
(***************************************************************************)
(* The worker takes a message; the executor opens its transaction and      *)
(* reads the build.  A build that is not found or not QUEUED is an error   *)
(* like any other: it is retried.                                          *)
Startable(b) == Found(b) /\ build[b].status = "QUEUED"

TaskStart(w, b, n) ==
    /\ task[w] = Idle
    /\ Take(b, n)
    /\ task' = [task EXCEPT ![w] =
                  [phase |-> IF Startable(b) THEN "execute" ELSE "failed",
                   build |-> b, attempt |-> n, soft |-> FALSE]]
    /\ tx' = IF Startable(b)
             THEN [tx EXCEPT ![w] = OpenedTx("execute", b, "write", "QUEUED")]
             ELSE tx
    /\ UNCHANGED <<build, wallet, ledger, rowLock, walletLock, crashes>>

(* QUEUED -> PROVISIONING: the first flush takes the row's lock.           *)
Provision(w) ==
    /\ task[w].phase = "execute"
    /\ WriteStatus(w)
    /\ UNCHANGED <<queue, task, crashes>>

(* Mutation: every status is committed as it is reached.                   *)
FlushAndCommit(w, status, step) ==
    /\ tx' = [tx EXCEPT ![w].status = status, ![w].step = step]
    /\ build' = [build EXCEPT ![tx[w].build].status = status]
    /\ UNCHANGED <<wallet, ledger, rowLock, walletLock>>

(* A flush of a later status.  The row is locked since Provision.          *)
Flush(w, status, step) ==
    /\ tx' = [tx EXCEPT ![w].status = status, ![w].step = step]
    /\ UNCHANGED <<build, wallet, ledger, rowLock, walletLock>>

(* PROVISIONING -> BUILDING, after the agent accepted the job.             *)
SubmitToAgent(w) ==
    /\ tx[w].step = "submit"
    /\ Flush(w, "BUILDING", "poll")
    /\ UNCHANGED <<queue, task, crashes>>

(* BUILDING -> TESTING -> REVIEW, two flushes with nothing between them    *)
(* that another transaction could see.                                     *)
AgentSucceeded(w) ==
    /\ tx[w].step = "poll"
    /\ Flush(w, "REVIEW", "commit")
    /\ UNCHANGED <<queue, task, crashes>>

(* Mutation: FAILED is persisted outside the executor's transaction.       *)
AgentFailurePersisted(w) ==
    /\ tx[w].step = "poll"
    /\ build' = [build EXCEPT ![tx[w].build].status = "FAILED"]
    /\ ReleaseLocks(w)
    /\ tx' = [tx EXCEPT ![w] = NoTx]
    /\ GoTo(w, "failed")
    /\ UNCHANGED <<wallet, ledger, queue, crashes>>

(* The agent reports a failure, or the 23 minutes of polling are over.     *)
AgentFailed(w) ==
    /\ tx[w].step = "poll"
    /\ Rollback(w)
    /\ GoTo(w, "failed")
    /\ UNCHANGED <<queue, crashes>>

(* Any other exception of the executor or of its commit.                   *)
ExecutionError(w) ==
    /\ task[w].phase = "execute"
    /\ Rollback(w)
    /\ GoTo(w, "failed")
    /\ UNCHANGED <<queue, crashes>>

CommitReview(w) ==
    /\ task[w].phase = "execute"
    /\ Commit(w)
    /\ GoTo(w, "succeeded")
    /\ UNCHANGED <<queue, crashes>>

(***************************************************************************)
(* The handlers of run_build                                               *)
(***************************************************************************)
(* self.retry below the limit publishes the next attempt; the message in   *)
(* hand is acknowledged only when the task has ended.                      *)
(* Mutation: the retry does not count itself.                              *)
RetryWithoutCounting(w) ==
    /\ task[w].phase = "failed"
    /\ task[w].attempt < MaxRetries
    /\ Publish(task[w].build, task[w].attempt)
    /\ GoTo(w, "ending")
    /\ UNCHANGED <<storeVars, crashes>>

RetryTask(w) ==
    /\ task[w].phase = "failed"
    /\ task[w].attempt < MaxRetries
    /\ Publish(task[w].build, task[w].attempt + 1)
    /\ GoTo(w, "ending")
    /\ UNCHANGED <<storeVars, crashes>>

(* The retry cannot be published, or the soft limit hits the handler: the  *)
(* task fails for good and its message is acknowledged all the same.       *)
RetryLost(w) ==
    /\ task[w].phase = "failed"
    /\ GoTo(w, "ending")
    /\ UNCHANGED <<storeVars, queue, crashes>>

(* At the limit _refund_credits opens a transaction of its own.  It does   *)
(* not touch the build's status.                                           *)
ExhaustRetries(w) ==
    LET b == task[w].build IN
    /\ task[w].phase = "failed"
    /\ task[w].attempt = MaxRetries
    /\ GoTo(w, IF Found(b) THEN "exhaust" ELSE "ending")
    /\ tx' = IF Found(b)
             THEN [tx EXCEPT ![w] = OpenedTx("exhaust", b, "credit-check", build[b].status)]
             ELSE tx
    /\ UNCHANGED <<build, wallet, ledger, rowLock, walletLock, queue, crashes>>

(* The soft limit reaches the executor, or the lines of run_build between  *)
(* its commit and the return: handled by _force_fail_and_refund.           *)
SoftTimeLimit(w) ==
    /\ task[w].phase \in {"execute", "succeeded"}
    /\ ~task[w].soft
    /\ Rollback(w)
    /\ task' = [task EXCEPT ![w].phase = "force-fail", ![w].soft = TRUE]
    /\ UNCHANGED <<queue, crashes>>

(* While the GitHub token is fetched, between Provision and SubmitToAgent, *)
(* the resolver's bare except takes the limit for a missing token.         *)
SoftTimeLimitSwallowed(w) ==
    /\ tx[w].step = "submit"
    /\ ~task[w].soft
    /\ task' = [task EXCEPT ![w].soft = TRUE]
    /\ UNCHANGED <<storeVars, queue, crashes>>

(* _force_fail_and_refund reads the build; only FAILED and CANCELLED are   *)
(* kept.                                                                   *)
ForceFail(w) ==
    LET b == task[w].build IN
    /\ task[w].phase = "force-fail"
    /\ ~InTx(w)
    /\ IF Found(b)
       THEN /\ tx' = [tx EXCEPT ![w] =
                        OpenedTx("force-fail", b,
                                 IF build[b].status \in {"FAILED", "CANCELLED"}
                                 THEN "credit-check" ELSE "write",
                                 build[b].status)]
            /\ UNCHANGED task
       ELSE GoTo(w, "ending") /\ UNCHANGED tx
    /\ UNCHANGED <<build, wallet, ledger, rowLock, walletLock, queue, crashes>>

Refunding(w) == task[w].phase \in {"force-fail", "exhaust"}

RefundStatement(w) ==
    /\ Refunding(w)
    /\ CheckKey(w) \/ ApplyCredits(w) \/ WriteStatus(w)
    /\ UNCHANGED <<queue, task, crashes>>

RefundCommit(w) ==
    /\ Refunding(w)
    /\ Commit(w)
    /\ GoTo(w, "ending")
    /\ UNCHANGED <<queue, crashes>>

(* Both refunds are best effort: an exception is logged and forgotten.     *)
RefundRefused(w) ==
    /\ Refunding(w)
    /\ CreditsFail(w) \/ DeadlockVictim(w)
    /\ GoTo(w, "ending")
    /\ UNCHANGED <<queue, crashes>>

RefundError(w) ==
    /\ Refunding(w)
    /\ Rollback(w)
    /\ GoTo(w, "ending")
    /\ UNCHANGED <<queue, crashes>>

(* The task returns or raises: the message is acknowledged.                *)
EndTask(w) ==
    /\ task[w].phase \in {"succeeded", "ending"}
    /\ task' = [task EXCEPT ![w] = Idle]
    /\ UNCHANGED <<storeVars, queue, crashes>>

(* The hard limit follows a soft limit that did not end the task.  Celery  *)
(* kills the process and acknowledges the message.                         *)
HardTimeLimit(w) ==
    /\ task[w] # Idle
    /\ task[w].soft
    /\ Rollback(w)
    /\ task' = [task EXCEPT ![w] = Idle]
    /\ UNCHANGED <<queue, crashes>>

(* The worker is lost: PostgreSQL rolls back, the broker delivers the      *)
(* message again with the same number of retries.                          *)
WorkerLost(w) ==
    /\ task[w] # Idle
    /\ crashes < MaxCrashes
    /\ crashes' = crashes + 1
    /\ Rollback(w)
    /\ Publish(task[w].build, task[w].attempt)
    /\ task' = [task EXCEPT ![w] = Idle]

(* What a healthy worker does, and what can go wrong.                      *)
WorkerProgress(w) ==
    \/ \E b \in Builds, n \in Attempts : TaskStart(w, b, n)
    \/ Provision(w)
    \/ SubmitToAgent(w)
    \/ AgentSucceeded(w)
    \/ AgentFailed(w)
    \/ CommitReview(w)
    \/ RetryTask(w)
    \/ ExhaustRetries(w)
    \/ ForceFail(w)
    \/ RefundStatement(w)
    \/ RefundCommit(w)
    \/ RefundRefused(w)
    \/ EndTask(w)

WorkerTrouble(w) ==
    \/ ExecutionError(w)
    \/ RetryLost(w)
    \/ SoftTimeLimit(w)
    \/ SoftTimeLimitSwallowed(w)
    \/ RefundError(w)
    \/ HardTimeLimit(w)
    \/ WorkerLost(w)

WorkerNext(w) == WorkerProgress(w) \/ WorkerTrouble(w)
=============================================================================
