------------------------------ MODULE AgentJobs ------------------------------
(***************************************************************************)
(* The agent service: replicas that accept builds, run each in a sandbox   *)
(* and remember how it went (agent/agent/jobs.py), and the runner they     *)
(* use, OpenHandsRunner in an E2B sandbox (runner.py, sandbox.py).         *)
(*                                                                         *)
(* A replica is one asyncio event loop.  A job is a coroutine on it and an *)
(* action is what the coroutine does between two awaits.  The OpenHands    *)
(* conversation is a synchronous call: while it runs, nothing else on that *)
(* loop does.                                                              *)
(***************************************************************************)
EXTENDS Naturals, FiniteSets

CONSTANTS
    Builds,          \* the builds jobs are started for
    Replicas,        \* agent processes; a restarted one keeps its name
    Jobs,            \* job ids uuid4 may produce
    MaxConcurrent,   \* max_concurrent_builds
    MaxRestarts      \* bound: restarts in a behaviour

ASSUME JobsAssumption == IsFiniteSet(Jobs)
ASSUME MaxConcurrentAssumption == MaxConcurrent \in Nat \ {0}
ASSUME MaxRestartsAssumption == MaxRestarts \in Nat

VARIABLES
    job,        \* the coroutine that runs each job
    sandbox,    \* the E2B sandbox of each job
    memory,     \* JobStore._mem of each replica (L1)
    redis,      \* bluhands:job:<id> (L2), shared by the replicas
    active,     \* JobStore._active of each replica
    restarts    \* restarts so far

agentVars == <<job, sandbox, memory, redis, active, restarts>>

Verdicts == {"success", "failed"}
JobStatuses == {"unknown", "running"} \cup Verdicts

(* storing, raised, saving: in an await of _save.  raised is the except    *)
(* clause of _run, saving its last statement.                              *)
RunnerPhases == {"acquiring", "mkdir", "preparing", "customizing", "serving", "closing"}
SlotPhases == {"storing", "raised"} \cup RunnerPhases
InProgress == SlotPhases \cup {"saving"}
Phases == InProgress \cup {"ended", "lost"}
JobRecords == [phase : Phases, replica : Replicas, build : Builds,
               outcome : {"none", "error"} \cup Verdicts]
Fresh == [phase |-> "new"]

AgentInit ==
    /\ job = [j \in Jobs |-> Fresh]
    /\ sandbox = [j \in Jobs |-> "none"]
    /\ memory = [r \in Replicas |-> [j \in Jobs |-> "unknown"]]
    /\ redis = [j \in Jobs |-> "unknown"]
    /\ active = [r \in Replicas |-> 0]
    /\ restarts = 0

At(j, r) == job[j].phase # "new" /\ job[j].replica = r
SlotHolders(r) == {j \in Jobs : At(j, r) /\ job[j].phase \in SlotPhases}

(* conversation.run() holds the event loop of its replica.                 *)
Blocked(r) == \E j \in Jobs : At(j, r) /\ job[j].phase = "customizing"
Resumes(j, phase) == job[j].phase = phase /\ ~Blocked(job[j].replica)

GoTo(j, phase) == job' = [job EXCEPT ![j].phase = phase]

(* _save: memory at once, Redis after an await and as far as it answers.   *)
Remember(j, status) == memory' = [memory EXCEPT ![job[j].replica][j] = status]
Persist(j, status) == redis' \in {redis, [redis EXCEPT ![j] = status]}

(***************************************************************************)
(* JobStore.start                                                          *)
(***************************************************************************)
AtCapacity(r) == ~Blocked(r) /\ active[r] >= MaxConcurrent

(* Mutation: the slot is taken only once the job is stored.                *)
AcceptLate(r, j, b) ==
    /\ ~Blocked(r)
    /\ active[r] < MaxConcurrent
    /\ job[j].phase = "new"
    /\ job' = [job EXCEPT ![j] =
                 [phase |-> "storing", replica |-> r, build |-> b, outcome |-> "none"]]
    /\ memory' = [memory EXCEPT ![r][j] = "running"]
    /\ UNCHANGED <<sandbox, redis, active, restarts>>

(* Up to the await of _save: the check and the slot are one step.          *)
Accept(r, j, b) ==
    /\ ~Blocked(r)
    /\ active[r] < MaxConcurrent
    /\ job[j].phase = "new"
    /\ active' = [active EXCEPT ![r] = @ + 1]
    /\ job' = [job EXCEPT ![j] =
                 [phase |-> "storing", replica |-> r, build |-> b, outcome |-> "none"]]
    /\ memory' = [memory EXCEPT ![r][j] = "running"]
    /\ UNCHANGED <<sandbox, redis, restarts>>

(* The job is stored; create_task starts the runner.                       *)
Launch(j) ==
    /\ Resumes(j, "storing")
    /\ Persist(j, "running")
    /\ GoTo(j, "acquiring")
    /\ UNCHANGED <<sandbox, memory, active, restarts>>

(***************************************************************************)
(* OpenHandsRunner.run                                                     *)
(***************************************************************************)
(* E2BSandbox.acquire: create, then mkdir in the new sandbox.              *)
CreateSandbox(j) ==
    /\ Resumes(j, "acquiring")
    /\ sandbox' = [sandbox EXCEPT ![j] = "open"]
    /\ GoTo(j, "mkdir")
    /\ UNCHANGED <<memory, redis, active, restarts>>

MakeWorkdir(j) ==
    /\ Resumes(j, "mkdir")
    /\ sandbox[j] = "open"
    /\ GoTo(j, "preparing")
    /\ UNCHANGED <<sandbox, memory, redis, active, restarts>>

(* Seeding, starter, install: awaited commands in the sandbox.  A build    *)
(* from the user's repository is served as it is.                          *)
Prepare(j) ==
    /\ Resumes(j, "preparing")
    /\ sandbox[j] = "open"
    /\ GoTo(j, "customizing") \/ GoTo(j, "serving")
    /\ UNCHANGED <<sandbox, memory, redis, active, restarts>>

Customize(j) ==
    /\ job[j].phase = "customizing"
    /\ GoTo(j, "serving")
    /\ UNCHANGED <<sandbox, memory, redis, active, restarts>>

(* Build, serve, self-test and push; the last two cannot fail the job.     *)
Serve(j) ==
    /\ Resumes(j, "serving")
    /\ sandbox[j] = "open"
    /\ job' = [job EXCEPT ![j].phase = "closing", ![j].outcome = "success"]
    /\ UNCHANGED <<sandbox, memory, redis, active, restarts>>

(* A step of the session reports a failure, or raises an exception, which  *)
(* stays pending while the session is closed.                              *)
StepFails(j) ==
    /\ \/ Resumes(j, "preparing")
       \/ Resumes(j, "serving")
       \/ job[j].phase = "customizing"
    /\ \E outcome \in {"failed", "error"} :
            job' = [job EXCEPT ![j].phase = "closing", ![j].outcome = outcome]
    /\ UNCHANGED <<sandbox, memory, redis, active, restarts>>

(***************************************************************************)
(* JobStore._run, after the runner                                         *)
(***************************************************************************)
(* Mutation: the slot is given back in the except clause already.          *)
RaiseFreesSlot(j) ==
    /\ job' = [job EXCEPT ![j].phase = "raised", ![j].outcome = "error"]
    /\ Remember(j, "failed")
    /\ active' = [active EXCEPT ![job[j].replica] = @ - 1]

(* except: save FAILED; the slot is given back by the finally after it.    *)
Raise(j) ==
    /\ job' = [job EXCEPT ![j].phase = "raised", ![j].outcome = "error"]
    /\ Remember(j, "failed")
    /\ UNCHANGED active

(* Mutation: every job that returned is saved as a success.                *)
ReturnSuccess(j) ==
    /\ active' = [active EXCEPT ![job[j].replica] = @ - 1]
    /\ Remember(j, "success")
    /\ GoTo(j, "saving")

(* No exception: the finally gives the slot back, then the outcome is      *)
(* saved.                                                                  *)
Return(j) ==
    /\ active' = [active EXCEPT ![job[j].replica] = @ - 1]
    /\ Remember(j, job[j].outcome)
    /\ GoTo(j, "saving")

(* The sandbox service refuses, or the mkdir fails and nobody closes the   *)
(* sandbox.                                                                *)
AcquireFails(j) ==
    /\ Resumes(j, "acquiring") \/ Resumes(j, "mkdir")
    /\ Raise(j)
    /\ UNCHANGED <<sandbox, redis, restarts>>

(* session.close() hides a failing kill.  Writing the log may raise too.   *)
CloseSession(j) ==
    /\ Resumes(j, "closing")
    /\ sandbox' \in {sandbox, [sandbox EXCEPT ![j] = "closed"]}
    /\ \/ Raise(j)
       \/ job[j].outcome # "error" /\ Return(j)
    /\ UNCHANGED <<redis, restarts>>

Saved(j) ==
    /\ Resumes(j, "saving")
    /\ Persist(j, job[j].outcome)
    /\ GoTo(j, "ended")
    /\ UNCHANGED <<sandbox, memory, active, restarts>>

(* Mutation: an exception keeps the slot.                                  *)
FailureKeepsSlot(j) ==
    /\ Resumes(j, "raised")
    /\ Persist(j, "failed")
    /\ GoTo(j, "ended")
    /\ UNCHANGED <<sandbox, memory, active, restarts>>

FailureSaved(j) ==
    /\ Resumes(j, "raised")
    /\ Persist(j, "failed")
    /\ active' = [active EXCEPT ![job[j].replica] = @ - 1]
    /\ GoTo(j, "ended")
    /\ UNCHANGED <<sandbox, memory, restarts>>

(***************************************************************************)
(* The environment                                                         *)
(***************************************************************************)
(* E2B kills a sandbox after sandbox_timeout, in use or not.               *)
SandboxExpires(j) ==
    /\ sandbox[j] = "open"
    /\ sandbox' = [sandbox EXCEPT ![j] = "closed"]
    /\ UNCHANGED <<job, memory, redis, active, restarts>>

(* A new process starts with an empty memory and counter; the coroutines   *)
(* of the old one are gone, its sandboxes are not.                         *)
Restart(r) ==
    /\ restarts < MaxRestarts
    /\ restarts' = restarts + 1
    /\ job' = [j \in Jobs |-> IF At(j, r) /\ job[j].phase \in InProgress
                             THEN [job[j] EXCEPT !.phase = "lost"] ELSE job[j]]
    /\ memory' = [memory EXCEPT ![r] = [j \in Jobs |-> "unknown"]]
    /\ active' = [active EXCEPT ![r] = 0]
    /\ UNCHANGED <<sandbox, redis>>

JobStep(j) ==
    \/ Launch(j)
    \/ CreateSandbox(j)
    \/ MakeWorkdir(j)
    \/ Prepare(j)
    \/ Customize(j)
    \/ Serve(j)
    \/ StepFails(j)
    \/ AcquireFails(j)
    \/ CloseSession(j)
    \/ Saved(j)
    \/ FailureSaved(j)
=============================================================================
