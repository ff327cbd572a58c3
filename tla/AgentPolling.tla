---------------------------- MODULE AgentPolling ----------------------------
(***************************************************************************)
(* The worker's side of a build's job: HttpAgentClient                     *)
(* (control-plane/app/tasks/agent_client.py), _poll_until_done of the      *)
(* executor and the retries of run_build around them, composed with the    *)
(* replicas of the agent.  Only one delivery of a build runs at a time;    *)
(* what it does to the database is BuildTask's subject.                    *)
(***************************************************************************)
EXTENDS AgentJobs

CONSTANT MaxRetries   \* run_build's max_retries

ASSUME RetriesAssumption == MaxRetries \in Nat

VARIABLES
    delivery,    \* what the current delivery of each build is doing
    abandoned    \* POST requests the agent will serve though nobody waits

vars == <<agentVars, delivery, abandoned>>

(* ready: about to submit.  posting, starting: POST /builds is in flight,  *)
(* not yet taken up or taken up.  polling: between two polls.  asking,     *)
(* reading: GET /builds/{id} is in flight, the latter with Redis' answer.  *)
Stages == {"ready", "posting", "starting", "polling", "asking", "reading",
           "review", "failed"}
Waiting == {"posting", "starting", "asking", "reading"}
Attempts == 0 .. MaxRetries

(* The fields of the requests made so far; a new attempt starts over.      *)
NewAttempt(n) == [at |-> "ready", attempt |-> n]
Posted == [at : {"posting"}, attempt : Attempts, replica : Replicas]
Submissions == [at : {"starting", "polling", "asking", "review"}, attempt : Attempts,
                replica : Replicas, job : Jobs]
Lookups == [at : {"reading"}, attempt : Attempts, replica : Replicas, job : Jobs,
            answer : JobStatuses]
Settled == [at : {"ready", "failed"}, attempt : Attempts]
Requests == [replica : Replicas, build : Builds, attempt : Attempts]

Init ==
    /\ AgentInit
    /\ delivery = [b \in Builds |-> NewAttempt(0)]
    /\ abandoned = {}

Set(b, d) == delivery' = [delivery EXCEPT ![b] = d]

(* Mutation: retries do not count themselves.                              *)
FailureNotCounted(d) == NewAttempt(d.attempt)

AfterFailure(d) ==
    IF d.attempt < MaxRetries THEN NewAttempt(d.attempt + 1)
                              ELSE [at |-> "failed", attempt |-> d.attempt]

(* An exception of the client or of the executor: the delivery is retried, *)
(* which starts a job of its own.                                          *)
Fails(b) == Set(b, AfterFailure(delivery[b]))

(***************************************************************************)
(* POST /builds                                                            *)
(***************************************************************************)
SubmitBuild(b) ==
    /\ delivery[b].at = "ready"
    /\ \E r \in Replicas :
            Set(b, [at |-> "posting", attempt |-> delivery[b].attempt, replica |-> r])
    /\ UNCHANGED <<agentVars, abandoned>>

StartJob(b, j) ==
    LET d == delivery[b] IN
    /\ d.at = "posting"
    /\ Accept(d.replica, j, b)
    /\ Set(b, [at |-> "starting", attempt |-> d.attempt, replica |-> d.replica, job |-> j])
    /\ UNCHANGED abandoned

(* CapacityError: 429, raised as an error like any other.                  *)
Rejected(b) ==
    /\ delivery[b].at = "posting"
    /\ AtCapacity(delivery[b].replica)
    /\ Fails(b)
    /\ UNCHANGED <<agentVars, abandoned>>

(* start returns the id once the coroutine is launched.                    *)
Launched(b) ==
    /\ delivery[b].at = "starting"
    /\ job[delivery[b].job].phase \notin {"storing", "lost"}
    /\ Set(b, [delivery[b] EXCEPT !.at = "polling"])
    /\ UNCHANGED <<agentVars, abandoned>>

(***************************************************************************)
(* GET /builds/{id}: any replica may get it                                *)
(***************************************************************************)
Poll(b) ==
    /\ delivery[b].at = "polling"
    /\ \E r \in Replicas : Set(b, [delivery[b] EXCEPT !.at = "asking", !.replica = r])
    /\ UNCHANGED <<agentVars, abandoned>>

Receive(b, status) ==
    LET d == delivery[b]
        submission == [at |-> "polling", attempt |-> d.attempt,
                       replica |-> d.replica, job |-> d.job] IN
    \/ status = "running" /\ Set(b, submission)
    \/ status = "success" /\ Set(b, [submission EXCEPT !.at = "review"])
    \/ status \in {"failed", "unknown"} /\ Fails(b)

Asked(b) == delivery[b].at = "asking" /\ ~Blocked(delivery[b].replica)
InMemory(b) == memory[delivery[b].replica][delivery[b].job]

AnswerFromMemory(b) ==
    /\ Asked(b)
    /\ InMemory(b) # "unknown"
    /\ Receive(b, InMemory(b))
    /\ UNCHANGED <<agentVars, abandoned>>

(* Mutation: Redis is asked, and believed, though memory knows the job.    *)
ReadRedisAlways(b) ==
    LET d == delivery[b] IN
    /\ Asked(b)
    /\ \E answer \in {redis[d.job], "unknown"} :
        Set(b, [at |-> "reading", attempt |-> d.attempt, replica |-> d.replica,
                job |-> d.job, answer |-> answer])
    /\ UNCHANGED <<agentVars, abandoned>>

(* A job this process does not remember: ask Redis, if it answers.         *)
ReadRedis(b) ==
    LET d == delivery[b] IN
    /\ Asked(b)
    /\ InMemory(b) = "unknown"
    /\ \E answer \in {redis[d.job], "unknown"} :
        Set(b, [at |-> "reading", attempt |-> d.attempt, replica |-> d.replica,
                job |-> d.job, answer |-> answer])
    /\ UNCHANGED <<agentVars, abandoned>>

(* What Redis said is kept in memory from now on; nothing said is a 404.   *)
WarmMemory(b) ==
    LET d == delivery[b] IN
    /\ d.at = "reading"
    /\ ~Blocked(d.replica)
    /\ memory' = IF d.answer = "unknown" THEN memory
                 ELSE [memory EXCEPT ![d.replica][d.job] = d.answer]
    /\ Receive(b, d.answer)
    /\ UNCHANGED <<job, sandbox, redis, active, restarts, abandoned>>

(***************************************************************************)
(* Giving up                                                               *)
(***************************************************************************)
(* A POST that was sent may be served all the same.  So may a GET: its     *)
(* handler could only warm the memory for a job nobody asks for again, and *)
(* is left out.                                                            *)
HangUp(b) ==
    LET d == delivery[b] IN
    /\ d.at \in Waiting \cup {"polling"}
    /\ IF d.at = "posting"
       THEN abandoned' \in {abandoned, abandoned \cup
                {[replica |-> d.replica, build |-> b, attempt |-> d.attempt]}}
       ELSE UNCHANGED abandoned
    /\ UNCHANGED agentVars

(* The HTTP timeout, or the deadline of the polling.                       *)
GiveUp(b) == HangUp(b) /\ Fails(b)

(* run_build is interrupted and does not retry.                            *)
SoftTimeLimit(b) ==
    /\ HangUp(b)
    /\ Set(b, [at |-> "failed", attempt |-> delivery[b].attempt])

ServeAbandoned(request) ==
    /\ request \in abandoned
    /\ abandoned' = abandoned \ {request}
    /\ \/ \E j \in Jobs : Accept(request.replica, j, request.build)
       \/ AtCapacity(request.replica) /\ UNCHANGED agentVars
    /\ UNCHANGED delivery

(* A restart breaks the connections to the replica.                        *)
RestartReplica(r) ==
    /\ Restart(r)
    /\ delivery' = [b \in Builds |->
            IF delivery[b].at \in Waiting /\ delivery[b].replica = r
            THEN AfterFailure(delivery[b]) ELSE delivery[b]]
    /\ abandoned' = {request \in abandoned : request.replica # r}

Deliver(b) ==
    \/ SubmitBuild(b)
    \/ \E j \in Jobs : StartJob(b, j)
    \/ Rejected(b)
    \/ Launched(b)
    \/ Poll(b)
    \/ AnswerFromMemory(b)
    \/ ReadRedis(b)
    \/ WarmMemory(b)

AgentRuns(j) == JobStep(j) /\ UNCHANGED <<delivery, abandoned>>
Expires(j) == SandboxExpires(j) /\ UNCHANGED <<delivery, abandoned>>

Next ==
    \/ \E b \in Builds : Deliver(b) \/ GiveUp(b) \/ SoftTimeLimit(b)
    \/ \E j \in Jobs : AgentRuns(j) \/ Expires(j)
    \/ \E request \in abandoned : ServeAbandoned(request)
    \/ \E r \in Replicas : RestartReplica(r)

Spec == Init /\ [][Next]_vars

(* An event loop runs whatever can go on; the commands of a sandbox have   *)
(* time limits and the conversation a limit of iterations; E2B kills       *)
(* sandboxes; a client goes on, and its deadline is a clock.               *)
Fairness ==
    /\ \A b \in Builds : WF_vars(Deliver(b)) /\ WF_vars(GiveUp(b))
    /\ \A j \in Jobs : WF_vars(AgentRuns(j)) /\ WF_vars(Expires(j))

FairSpec == Spec /\ Fairness

(***************************************************************************)
(* Properties                                                              *)
(***************************************************************************)
TypeOK ==
    /\ job \in [Jobs -> JobRecords \cup {Fresh}]
    /\ sandbox \in [Jobs -> {"none", "open", "closed"}]
    /\ memory \in [Replicas -> [Jobs -> JobStatuses]]
    /\ redis \in [Jobs -> JobStatuses]
    /\ active \in [Replicas -> Nat]
    /\ restarts \in Nat
    /\ delivery \in [Builds -> Posted \cup Submissions \cup Lookups \cup Settled]
    /\ abandoned \in SUBSET Requests

(* The counter is the number of jobs that hold a slot, whichever way they  *)
(* end and whatever restarts, so a replica never runs more than            *)
(* max_concurrent and never refuses work for jobs that are gone            *)
(* (jobs.py, start and the finally of _run).                               *)
SlotsMatchJobs ==
    \A r \in Replicas : /\ active[r] = Cardinality(SlotHolders(r))
                        /\ active[r] <= MaxConcurrent

(* A verdict is never made up: wherever one is kept, in a replica's        *)
(* memory, in Redis or in an answer on its way, it is how that job ended,  *)
(* and a build goes to REVIEW only for a job of its own that succeeded     *)
(* (jobs.py, _save and get; _poll_until_done).                             *)
VerdictOf(j) == IF job[j].outcome = "error" THEN "failed" ELSE job[j].outcome
Concluded(j, status) ==
    job[j].phase \in {"raised", "saving", "ended", "lost"} /\ status = VerdictOf(j)

VerdictsAreTrue ==
    /\ \A j \in Jobs, r \in Replicas :
            memory[r][j] \in Verdicts => Concluded(j, memory[r][j])
    /\ \A j \in Jobs : redis[j] \in Verdicts => Concluded(j, redis[j])
    /\ \A b \in Builds :
        LET d == delivery[b] IN
        /\ d.at = "reading" /\ d.answer \in Verdicts => Concluded(d.job, d.answer)
        /\ d.at = "review" => Concluded(d.job, "success") /\ job[d.job].build = b

(* A verdict once known stays known: the late write of RUNNING, a poll     *)
(* that warms the memory with an older answer, and a second job of the     *)
(* same build never put a finished job back to running; only a restart     *)
(* forgets, and only that replica's memory (jobs.py, start saves before it *)
(* creates the task).                                                      *)
VerdictIsFinal ==
    [][\A j \in Jobs :
        /\ redis[j] \in Verdicts => redis'[j] = redis[j]
        /\ \A r \in Replicas : memory[r][j] \in Verdicts =>
              \/ memory'[r][j] = memory[r][j]
              \/ memory'[r][j] = "unknown" /\ restarts' # restarts]_vars

(***************************************************************************)
(* The inductive invariant                                                 *)
(***************************************************************************)
(* Where a job is decides whether it has an outcome, and which.            *)
OutcomeInv == \A j \in Jobs :
    /\ job[j].phase = "closing" => job[j].outcome # "none"
    /\ job[j].phase = "saving" => job[j].outcome \in Verdicts
    /\ job[j].phase = "raised" => job[j].outcome = "error"

(* A delivery asks for a job that was started for its build.               *)
HasJob(d) == d.at \in {"starting", "polling", "asking", "reading", "review"}
OwnJob == \A b \in Builds : HasJob(delivery[b]) =>
    job[delivery[b].job].phase # "new" /\ job[delivery[b].job].build = b

(* The process that runs a job remembers it, so it never asks Redis for it *)
(* and an answer from Redis overwrites nothing.                            *)
HomeRemembers == \A j \in Jobs :
    job[j].phase \in InProgress => memory[job[j].replica][j] # "unknown"
ReadingMisses == \A b \in Builds : delivery[b].at = "reading" =>
    memory[delivery[b].replica][delivery[b].job] = "unknown"

IInv ==
    /\ TypeOK
    /\ OutcomeInv
    /\ OwnJob
    /\ HomeRemembers
    /\ ReadingMisses
    /\ SlotsMatchJobs
    /\ VerdictsAreTrue

(* Every slot comes back: a replica is idle again whatever its jobs ran    *)
(* into (the finally of _run).                                             *)
SlotsAreReturned == \A r \in Replicas : active[r] > 0 ~> active[r] = 0

(* Every delivery comes to REVIEW or fails for good, though jobs are lost, *)
(* answers are stale and replicas refuse (_poll_until_done, max_retries).  *)
DeliveriesEnd == \A b \in Builds : <>(delivery[b].at \in {"review", "failed"})

(***************************************************************************)
(* What the documents say and the code does not do                         *)
(***************************************************************************)
(* JobStore.get: it falls back to Redis so a status poll after an agent    *)
(* restart still resolves correctly.  So a poll is answered "running" only *)
(* for a job that is in progress.                                          *)
PollsResolve ==
    [][\A b \in Builds :
        delivery[b].at \in {"asking", "reading"} /\ delivery'[b].at = "polling" =>
            job[delivery[b].job].phase \in InProgress]_vars
=============================================================================
