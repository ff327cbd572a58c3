----------------------------- MODULE AgentProofs -----------------------------
(***************************************************************************)
(* Proofs about AgentPolling, for every set of builds, replicas and jobs   *)
(* and every limit: the slots of a replica are those of its jobs, and a    *)
(* verdict that is kept anywhere is true and final.                        *)
(***************************************************************************)
EXTENDS AgentPolling, FiniteSetTheorems, TLAPS

(* The phases in which a runner has not yet concluded its job.             *)
Undecided == SlotPhases \ {"raised"}

(***************************************************************************)
(* Slots                                                                   *)
(***************************************************************************)
(* The holders of a replica's slots are finitely many: they are jobs.      *)
LEMMA HoldersAreFinite ==
    \A r : IsFiniteSet(SlotHolders(r)) /\ Cardinality(SlotHolders(r)) \in Nat
BY JobsAssumption, FS_Subset, FS_CardinalityType DEF SlotHolders

(* A step that moves no job into or out of a slot keeps the account.       *)
LEMMA SlotsKept ==
    ASSUME SlotsMatchJobs, active' = active,
           \A r \in Replicas : SlotHolders(r)' = SlotHolders(r)
    PROVE  SlotsMatchJobs'
BY DEF SlotsMatchJobs

(* A job that takes a slot below the limit and is counted keeps it.        *)
LEMMA SlotTaken ==
    ASSUME SlotsMatchJobs, TypeOK, NEW s \in Replicas, NEW j \in Jobs,
           active[s] < MaxConcurrent, active' = [active EXCEPT ![s] = @ + 1],
           j \notin SlotHolders(s), SlotHolders(s)' = SlotHolders(s) \cup {j},
           \A r \in Replicas : r # s => SlotHolders(r)' = SlotHolders(r)
    PROVE  SlotsMatchJobs'
<1>1. Cardinality(SlotHolders(s) \cup {j}) = Cardinality(SlotHolders(s)) + 1
  BY HoldersAreFinite, FS_AddElement
<1>2. active[s] \in Nat /\ active \in [Replicas -> Nat]
  BY DEF TypeOK
<1>3. QED
  BY <1>1, <1>2, MaxConcurrentAssumption DEF SlotsMatchJobs

(* So does a job that gives its slot back and is counted off.              *)
LEMMA SlotFreed ==
    ASSUME SlotsMatchJobs, TypeOK, NEW s \in Replicas, NEW j \in Jobs,
           active' = [active EXCEPT ![s] = @ - 1],
           j \in SlotHolders(s), SlotHolders(s)' = SlotHolders(s) \ {j},
           \A r \in Replicas : r # s => SlotHolders(r)' = SlotHolders(r)
    PROVE  SlotsMatchJobs' /\ active' \in [Replicas -> Nat]
<1>1. Cardinality(SlotHolders(s) \ {j}) = Cardinality(SlotHolders(s)) - 1
  BY HoldersAreFinite, FS_RemoveElement
<1>2. Cardinality(SlotHolders(s) \ {j}) \in Nat
  BY HoldersAreFinite, FS_Subset, FS_CardinalityType
<1>3. active[s] \in Nat /\ active \in [Replicas -> Nat]
  BY DEF TypeOK
<1>4. QED
  BY <1>1, <1>2, <1>3, MaxConcurrentAssumption DEF SlotsMatchJobs

(***************************************************************************)
(* Types                                                                   *)
(***************************************************************************)
(* A job that was started has a replica, a build and an outcome.           *)
LEMMA StartedJob ==
    ASSUME TypeOK, NEW j \in Jobs, job[j].phase # "new"
    PROVE  /\ job[j] \in JobRecords
           /\ job[j].phase \in Phases /\ job[j].replica \in Replicas
           /\ job[j].build \in Builds
           /\ job[j].outcome \in {"none", "error"} \cup Verdicts
BY DEF TypeOK, Fresh, JobRecords

(* A delivery with a request in flight says where; with a job, which.      *)
LEMMA DeliveryFields ==
    ASSUME TypeOK, NEW b \in Builds
    PROVE  /\ delivery[b].at \in Stages /\ delivery[b].attempt \in Attempts
           /\ delivery[b].at = "posting" \/ HasJob(delivery[b]) =>
                    delivery[b].replica \in Replicas
           /\ HasJob(delivery[b]) => delivery[b].job \in Jobs
           /\ delivery[b].at = "reading" => delivery[b].answer \in JobStatuses
<1>1. delivery[b] \in Posted \cup Submissions \cup Lookups \cup Settled
  BY DEF TypeOK
<1>2. CASE delivery[b] \in Posted
  BY <1>2 DEF Posted, HasJob, Stages
<1>3. CASE delivery[b] \in Submissions
  BY <1>3 DEF Submissions, HasJob, Stages
<1>4. CASE delivery[b] \in Lookups
  BY <1>4 DEF Lookups, HasJob, Stages
<1>5. CASE delivery[b] \in Settled
  BY <1>5 DEF Settled, HasJob, Stages
<1>6. QED
  BY <1>1, <1>2, <1>3, <1>4, <1>5

(***************************************************************************)
(* Steps of a job                                                          *)
(***************************************************************************)
(* A runner that goes from one step to the next, nothing concluded yet;    *)
(* the first of these steps may write RUNNING to Redis.                    *)
LEMMA RunnerMoves ==
    ASSUME IInv, NEW j \in Jobs, job[j].phase \in Undecided,
           NEW phase \in Undecided, NEW outcome \in {"none", "error"} \cup Verdicts,
           phase = "closing" => outcome # "none",
           job' = [job EXCEPT ![j].phase = phase, ![j].outcome = outcome],
           redis' \in {redis, [redis EXCEPT ![j] = "running"]},
           sandbox' \in [Jobs -> {"none", "open", "closed"}],
           UNCHANGED <<memory, active, restarts, delivery, abandoned>>
    PROVE  IInv'
<1> USE DEF IInv
<1>1. job[j] \in JobRecords
  BY StartedJob DEF Undecided, SlotPhases, RunnerPhases
<1>2. job' \in [Jobs -> JobRecords \cup {Fresh}]
  BY <1>1 DEF TypeOK, JobRecords, Undecided, Phases, InProgress
<1>3. /\ job'[j].phase = phase /\ job'[j].outcome = outcome
      /\ job'[j].replica = job[j].replica /\ job'[j].build = job[j].build
      /\ \A k \in Jobs : k # j => job'[k] = job[k]
  BY <1>1 DEF TypeOK, JobRecords
<1>4. job[j].phase # "new" /\ phase # "new"
  BY DEF Undecided, SlotPhases, RunnerPhases
<1>5. TypeOK'
  BY <1>2 DEF TypeOK, JobStatuses
<1>6. OutcomeInv'
  BY <1>3 DEF OutcomeInv, Undecided, SlotPhases, RunnerPhases
<1>7. OwnJob' /\ HomeRemembers' /\ ReadingMisses'
  <2>1. OwnJob'
    <3>1. \A b \in Builds : HasJob(delivery[b]) => delivery[b].job \in Jobs
      BY DeliveryFields
    <3>2. \A k \in Jobs : job'[k].build = job[k].build /\ (job[k].phase # "new" => job'[k].phase # "new")
      BY <1>3, <1>4
    <3>3. QED
      BY <3>1, <3>2 DEF OwnJob, HasJob
  <2>2. HomeRemembers'
    <3>1. \A k \in Jobs : job'[k].phase \in InProgress =>
                job[k].phase \in InProgress /\ job'[k].replica = job[k].replica
      BY <1>3 DEF Undecided, InProgress
    <3>2. QED
      BY <3>1 DEF HomeRemembers
  <2>3. QED
    BY <2>1, <2>2 DEF ReadingMisses
<1>8. SlotsMatchJobs'
  <2>1. \A r \in Replicas : SlotHolders(r)' = SlotHolders(r)
    <3>1. \A k \in Jobs : /\ job'[k].phase \in SlotPhases <=> job[k].phase \in SlotPhases
                          /\ job'[k].phase = "new" <=> job[k].phase = "new"
                          /\ job'[k].replica = job[k].replica
      BY <1>3, <1>4 DEF Undecided
    <3>2. QED
      BY <3>1 DEF SlotHolders, At
  <2>2. QED
    BY <2>1, SlotsKept
<1>9. VerdictsAreTrue'
  <2>1. \A status : \A k \in Jobs : Concluded(k, status) => Concluded(k, status)' /\ k # j
    BY <1>3 DEF Concluded, VerdictOf, Undecided, SlotPhases, RunnerPhases
  <2>2. \A k \in Jobs : redis'[k] \in Verdicts => redis'[k] = redis[k]
    BY DEF TypeOK, Verdicts
  <2>3. QED
    <3>1. \A b \in Builds : HasJob(delivery[b]) => delivery[b].job \in Jobs
      BY DeliveryFields
    <3>2. \A b \in Builds : delivery[b].at = "review" =>
                job'[delivery[b].job].build = job[delivery[b].job].build
      BY <1>3, <3>1 DEF HasJob
    <3>3. QED
      BY <2>1, <2>2, <3>1, <3>2 DEF VerdictsAreTrue, HasJob
<1>10. QED
  BY <1>5, <1>6, <1>7, <1>8, <1>9

(* A job that concludes, by an exception or with the runner's outcome: the *)
(* verdict goes to the memory of its replica, where none was before.  That *)
(* the slots add up is shown for each case apart.                          *)
LEMMA JobConcludes ==
    ASSUME IInv, NEW j \in Jobs, job[j].phase \in RunnerPhases,
           NEW phase, NEW outcome, NEW status \in Verdicts,
           \/ phase = "raised" /\ outcome = "error" /\ status = "failed"
           \/ phase = "saving" /\ outcome = status,
           job' = [job EXCEPT ![j].phase = phase, ![j].outcome = outcome],
           memory' = [memory EXCEPT ![job[j].replica][j] = status],
           sandbox' \in [Jobs -> {"none", "open", "closed"}],
           active' \in [Replicas -> Nat], SlotsMatchJobs',
           UNCHANGED <<redis, restarts, delivery, abandoned>>
    PROVE  IInv'
<1> USE DEF IInv
<1>1. /\ job[j] \in JobRecords /\ job[j].replica \in Replicas
      /\ phase \in {"raised", "saving"} /\ outcome \in {"none", "error"} \cup Verdicts
  BY StartedJob DEF RunnerPhases
<1>2. job' \in [Jobs -> JobRecords \cup {Fresh}]
  BY <1>1 DEF TypeOK, JobRecords, Phases, InProgress, SlotPhases
<1>3. /\ job'[j].phase = phase /\ job'[j].outcome = outcome
      /\ job'[j].replica = job[j].replica /\ job'[j].build = job[j].build
      /\ \A k \in Jobs : k # j => job'[k] = job[k]
  BY <1>1 DEF TypeOK, JobRecords
<1>4. /\ memory' \in [Replicas -> [Jobs -> JobStatuses]]
      /\ memory'[job[j].replica][j] = status
      /\ \A r \in Replicas, k \in Jobs :
            r # job[j].replica \/ k # j => memory'[r][k] = memory[r][k]
  BY <1>1 DEF TypeOK, JobStatuses
<1>5. TypeOK'
  BY <1>2, <1>4 DEF TypeOK
<1>6. OutcomeInv'
  BY <1>1, <1>3 DEF OutcomeInv
<1>7. \A b \in Builds : HasJob(delivery[b]) => delivery[b].job \in Jobs
                                              /\ delivery[b].replica \in Replicas
  BY DeliveryFields
<1>8. OwnJob'
  <2>1. \A k \in Jobs : /\ job'[k].build = job[k].build
                        /\ job[k].phase # "new" => job'[k].phase # "new"
    BY <1>1, <1>3
  <2>2. \A b \in Builds : HasJob(delivery[b]) => delivery[b].job \in Jobs
    BY <1>7
  <2>3. QED
    BY <2>1, <2>2 DEF OwnJob, HasJob
<1>9. HomeRemembers'
  <2>1. ASSUME NEW k \in Jobs, job'[k].phase \in InProgress
        PROVE  /\ job[k].phase \in InProgress /\ job[k].replica \in Replicas
               /\ job'[k].replica = job[k].replica
    <3>1. CASE k = j
      BY <1>1, <1>3, <3>1, <2>1 DEF InProgress, SlotPhases
    <3>2. CASE k # j
      BY <1>3, <3>2, <2>1, StartedJob DEF InProgress, SlotPhases, RunnerPhases
    <3>3. QED
      BY <3>1, <3>2
  <2>2. ASSUME NEW k \in Jobs, job'[k].phase \in InProgress
        PROVE  memory'[job'[k].replica][k] # "unknown"
    <3>1. memory[job[k].replica][k] # "unknown" /\ job'[k].replica = job[k].replica
      BY <2>1, <2>2 DEF HomeRemembers
    <3>2. CASE k = j
      BY <1>4, <3>1, <3>2 DEF Verdicts
    <3>3. CASE k # j
      BY <1>4, <2>1, <2>2, <3>1, <3>3
    <3>4. QED
      BY <3>2, <3>3
  <2>3. QED
    BY <2>2 DEF HomeRemembers
<1>10. ReadingMisses'
  BY <1>4, <1>7 DEF ReadingMisses, HomeRemembers, HasJob, InProgress, SlotPhases
<1>11. VerdictsAreTrue'
  <2>1. \A s : \A k \in Jobs : Concluded(k, s) => Concluded(k, s)' /\ k # j
    BY <1>3 DEF Concluded, VerdictOf, RunnerPhases
  <2>2. Concluded(j, status)'
    BY <1>1, <1>3 DEF Concluded, VerdictOf, Verdicts
  <2>3. \A b \in Builds : delivery[b].at = "review" =>
            job'[delivery[b].job].build = job[delivery[b].job].build
    BY <1>3, <1>7 DEF HasJob
  <2>4. \A r \in Replicas, k \in Jobs :
            (memory[r][k] \in Verdicts => Concluded(k, memory[r][k]))'
    <3>1. ASSUME NEW r \in Replicas, NEW k \in Jobs
          PROVE  memory'[r][k] = memory[r][k] \/ (k = j /\ memory'[r][k] = status)
      <4>1. CASE r = job[j].replica /\ k = j
        BY <1>4, <4>1
      <4>2. CASE r # job[j].replica \/ k # j
        BY <1>4, <4>2
      <4>3. QED
        BY <4>1, <4>2
    <3>2. QED
      BY <3>1, <2>1, <2>2 DEF VerdictsAreTrue
  <2>5. \A b \in Builds : HasJob(delivery[b]) => delivery[b].job \in Jobs
    BY <1>7
  <2>6. QED
    BY <2>1, <2>3, <2>4, <2>5 DEF VerdictsAreTrue, HasJob
<1>12. QED
  BY <1>5, <1>6, <1>8, <1>9, <1>10, <1>11

(* The last write of a job: Redis gets the verdict the memory already has, *)
(* or nothing.                                                             *)
LEMMA JobEnds ==
    ASSUME IInv, NEW j \in Jobs, job[j].phase \in {"raised", "saving"},
           job' = [job EXCEPT ![j].phase = "ended"],
           Persist(j, VerdictOf(j)),
           active' \in [Replicas -> Nat], SlotsMatchJobs',
           UNCHANGED <<sandbox, memory, restarts, delivery, abandoned>>
    PROVE  IInv'
<1> USE DEF IInv
<1>1. job[j] \in JobRecords /\ VerdictOf(j) \in Verdicts
  BY StartedJob DEF OutcomeInv, VerdictOf, Verdicts
<1>2. job' \in [Jobs -> JobRecords \cup {Fresh}]
  BY <1>1 DEF TypeOK, JobRecords, Phases
<1>3. /\ job'[j].phase = "ended" /\ job'[j].outcome = job[j].outcome
      /\ job'[j].replica = job[j].replica /\ job'[j].build = job[j].build
      /\ \A k \in Jobs : k # j => job'[k] = job[k]
  BY <1>1 DEF TypeOK, JobRecords
<1>4. /\ redis' \in [Jobs -> JobStatuses]
      /\ \A k \in Jobs : redis'[k] = redis[k] \/ (k = j /\ redis'[k] = VerdictOf(j))
  <2>1. redis \in [Jobs -> JobStatuses] /\ VerdictOf(j) \in JobStatuses
    BY <1>1 DEF TypeOK, JobStatuses
  <2>2. redis' = redis \/ redis' = [redis EXCEPT ![j] = VerdictOf(j)]
    BY DEF Persist
  <2>3. CASE redis' = redis
    BY <2>1, <2>3
  <2>4. CASE redis' = [redis EXCEPT ![j] = VerdictOf(j)]
    BY <2>1, <2>4
  <2>5. QED
    BY <2>2, <2>3, <2>4
<1>5. TypeOK'
  BY <1>2, <1>4 DEF TypeOK
<1>6. OutcomeInv'
  BY <1>3 DEF OutcomeInv
<1>7. \A b \in Builds : HasJob(delivery[b]) => delivery[b].job \in Jobs
  BY DeliveryFields
<1>8. OwnJob'
  <2>1. \A k \in Jobs : /\ job'[k].build = job[k].build
                        /\ job[k].phase # "new" => job'[k].phase # "new"
    BY <1>3
  <2>2. QED
    BY <1>7, <2>1 DEF OwnJob, HasJob
<1>9. HomeRemembers' /\ ReadingMisses'
  <2>1. \A k \in Jobs : job'[k].phase \in InProgress => job'[k] = job[k]
    BY <1>3 DEF InProgress, SlotPhases, RunnerPhases
  <2>2. QED
    BY <2>1 DEF HomeRemembers, ReadingMisses
<1>10. VerdictsAreTrue'
  <2>1. \A s : \A k \in Jobs : Concluded(k, s) => Concluded(k, s)'
    BY <1>3 DEF Concluded, VerdictOf
  <2>2. Concluded(j, VerdictOf(j))'
    BY <1>3 DEF Concluded, VerdictOf
  <2>3. \A b \in Builds : delivery[b].at = "review" =>
            job'[delivery[b].job].build = job[delivery[b].job].build
    BY <1>3, <1>7 DEF HasJob
  <2>4. VerdictOf(j)' = VerdictOf(j)
    BY <1>3 DEF VerdictOf
  <2>5. \A k \in Jobs : (redis[k] \in Verdicts => Concluded(k, redis[k]))'
    BY <1>4, <2>1, <2>2, <2>4 DEF VerdictsAreTrue
  <2>6. QED
    BY <1>7, <2>1, <2>3, <2>5 DEF VerdictsAreTrue, HasJob
<1>11. QED
  BY <1>5, <1>6, <1>8, <1>9, <1>10

(* Moving a job between phases leaves its outcome alone.                   *)
LEMMA PhaseOnly ==
    ASSUME TypeOK, NEW j \in Jobs, job[j].phase # "new", NEW phase, GoTo(j, phase)
    PROVE  job' = [job EXCEPT ![j].phase = phase, ![j].outcome = job[j].outcome]
BY StartedJob DEF TypeOK, GoTo, JobRecords

(* A job that raises keeps its slot, one that returns gives it back.       *)
LEMMA RaiseStep ==
    ASSUME IInv, NEW j \in Jobs, job[j].phase \in RunnerPhases, Raise(j),
           sandbox' \in [Jobs -> {"none", "open", "closed"}],
           UNCHANGED <<redis, restarts, delivery, abandoned>>
    PROVE  IInv'
<1>1. job[j] \in JobRecords /\ TypeOK /\ SlotsMatchJobs
  BY StartedJob DEF IInv, RunnerPhases
<1>2. \A k \in Jobs : /\ job'[k].phase \in SlotPhases <=> job[k].phase \in SlotPhases
                      /\ job'[k].phase = "new" <=> job[k].phase = "new"
                      /\ job'[k].replica = job[k].replica
  BY <1>1 DEF Raise, TypeOK, JobRecords, SlotPhases, RunnerPhases
<1>3. \A r \in Replicas : SlotHolders(r)' = SlotHolders(r)
  BY <1>2 DEF SlotHolders, At
<1>4. SlotsMatchJobs' /\ active' \in [Replicas -> Nat]
  BY <1>1, <1>3, SlotsKept DEF Raise, TypeOK
<1>5. QED
  BY <1>4, JobConcludes DEF Raise, Remember, Verdicts

(* The slot of a job that leaves the slot phases.                          *)
LEMMA SlotLeft ==
    ASSUME IInv, NEW j \in Jobs, job[j].phase \in SlotPhases,
           NEW phase \in {"saving", "ended"}, GoTo(j, phase),
           active' = [active EXCEPT ![job[j].replica] = @ - 1]
    PROVE  SlotsMatchJobs' /\ active' \in [Replicas -> Nat]
<1>0. job[j].phase # "new" /\ TypeOK /\ SlotsMatchJobs
  BY DEF IInv, SlotPhases, RunnerPhases
<1> SUFFICES ASSUME NEW s \in Replicas, s = job[j].replica
             PROVE  SlotsMatchJobs' /\ active' \in [Replicas -> Nat]
  BY <1>0, StartedJob
<1>1. job[j] \in JobRecords
  BY <1>0, StartedJob
<1>2. \A k \in Jobs : /\ k # j => job'[k] = job[k]
                      /\ job'[k].replica = job[k].replica
  BY <1>0, <1>1 DEF GoTo, TypeOK, JobRecords
<1>3. job'[j].phase = phase /\ phase # "new" /\ phase \notin SlotPhases
  BY <1>0, <1>1 DEF GoTo, TypeOK, SlotPhases, RunnerPhases
<1>4. j \in SlotHolders(s)
  BY <1>0 DEF SlotHolders, At
<1>5. SlotHolders(s)' = SlotHolders(s) \ {j}
  BY <1>0, <1>2, <1>3 DEF SlotHolders, At
<1>6. \A r \in Replicas : r # s => SlotHolders(r)' = SlotHolders(r)
  BY <1>0, <1>2, <1>3 DEF SlotHolders, At
<1>7. QED
  BY <1>0, <1>4, <1>5, <1>6, SlotFreed

(* A job that returns normally gives its slot back and keeps the rest.      *)
LEMMA ReturnStep ==
    ASSUME IInv, NEW j \in Jobs, job[j].phase = "closing", job[j].outcome # "error",
           Return(j), sandbox' \in [Jobs -> {"none", "open", "closed"}],
           UNCHANGED <<redis, restarts, delivery, abandoned>>
    PROVE  IInv'
<1>1. job[j].outcome \in Verdicts /\ TypeOK /\ job[j].phase # "new"
  BY StartedJob DEF IInv, OutcomeInv
<1>2. job' = [job EXCEPT ![j].phase = "saving", ![j].outcome = job[j].outcome]
  BY <1>1, PhaseOnly DEF Return
<1>3. SlotsMatchJobs' /\ active' \in [Replicas -> Nat]
  BY SlotLeft DEF Return, SlotPhases, RunnerPhases
<1>4. QED
  BY <1>1, <1>2, <1>3, JobConcludes DEF Return, Remember, RunnerPhases

(* Every step of a job keeps the invariant.                                *)
LEMMA JobStepPreserves ==
    ASSUME IInv, NEW j \in Jobs, JobStep(j), UNCHANGED <<delivery, abandoned>>
    PROVE  IInv'
<1> USE DEF Resumes
<1>1. TypeOK /\ OutcomeInv /\ SlotsMatchJobs
  BY DEF IInv
<1>2. redis \in {redis, [redis EXCEPT ![j] = "running"]}
  OBVIOUS
<1>3. ASSUME job[j].phase # "new"
      PROVE  job[j].outcome \in {"none", "error"} \cup Verdicts
  BY <1>1, <1>3, StartedJob
<1>4. ASSUME job[j].phase \in Undecided, NEW phase \in Undecided \ {"closing"},
             GoTo(j, phase), redis' \in {redis, [redis EXCEPT ![j] = "running"]},
             sandbox' \in [Jobs -> {"none", "open", "closed"}],
             UNCHANGED <<memory, active, restarts>>
      PROVE  IInv'
  <2>1. job[j].phase # "new"
    BY <1>4 DEF Undecided, SlotPhases, RunnerPhases
  <2>2. job' = [job EXCEPT ![j].phase = phase, ![j].outcome = job[j].outcome]
    BY <1>1, <1>4, <2>1, PhaseOnly
  <2>3. QED
    BY <1>3, <1>4, <2>1, <2>2, RunnerMoves
<1>5. CASE Launch(j)
  BY <1>1, <1>4, <1>5 DEF Launch, Persist, TypeOK, Undecided, SlotPhases, RunnerPhases
<1>6. CASE CreateSandbox(j)
  BY <1>1, <1>2, <1>4, <1>6 DEF CreateSandbox, TypeOK, Undecided, SlotPhases, RunnerPhases
<1>7. CASE MakeWorkdir(j)
  BY <1>1, <1>2, <1>4, <1>7 DEF MakeWorkdir, TypeOK, Undecided, SlotPhases, RunnerPhases
<1>8. CASE Prepare(j)
  BY <1>1, <1>2, <1>4, <1>8 DEF Prepare, TypeOK, Undecided, SlotPhases, RunnerPhases
<1>9. CASE Customize(j)
  BY <1>1, <1>2, <1>4, <1>9 DEF Customize, TypeOK, Undecided, SlotPhases, RunnerPhases
<1>10. CASE Serve(j)
  <2>1. /\ job[j].phase \in Undecided /\ "closing" \in Undecided
        /\ "success" \in {"none", "error"} \cup Verdicts /\ "success" # "none"
    BY <1>10 DEF Serve, Undecided, SlotPhases, RunnerPhases, Verdicts
  <2>2. QED
    BY <1>1, <1>2, <1>10, <2>1, RunnerMoves DEF Serve, TypeOK
<1>11. CASE StepFails(j)
  BY <1>1, <1>11, RunnerMoves
     DEF StepFails, TypeOK, Undecided, SlotPhases, RunnerPhases, Verdicts
<1>12. CASE AcquireFails(j)
  BY <1>1, <1>12, RaiseStep DEF AcquireFails, TypeOK, RunnerPhases
<1>13. CASE CloseSession(j)
  <2>1. job[j].phase = "closing" /\ sandbox' \in [Jobs -> {"none", "open", "closed"}]
        /\ UNCHANGED <<redis, restarts>>
    BY <1>1, <1>13 DEF CloseSession, TypeOK
  <2>2. Raise(j) \/ (job[j].outcome # "error" /\ Return(j))
    BY <1>13 DEF CloseSession
  <2>3. QED
    BY <2>1, <2>2, RaiseStep, ReturnStep DEF RunnerPhases
<1>14. CASE Saved(j)
  <2>1. job[j].outcome = VerdictOf(j) /\ job[j].phase = "saving"
    BY <1>1, <1>14 DEF Saved, OutcomeInv, VerdictOf, Verdicts
  <2>2. \A r \in Replicas : SlotHolders(r)' = SlotHolders(r)
    <3>1. \A k \in Jobs : /\ job'[k].phase \in SlotPhases <=> job[k].phase \in SlotPhases
                          /\ job'[k].phase = "new" <=> job[k].phase = "new"
                          /\ job'[k].replica = job[k].replica
      BY <1>1, <2>1, <1>14, StartedJob
         DEF Saved, GoTo, TypeOK, JobRecords, SlotPhases, RunnerPhases
    <3>2. QED
      BY <3>1 DEF SlotHolders, At
  <2>3. SlotsMatchJobs' /\ active' \in [Replicas -> Nat]
    BY <1>1, <1>14, <2>2, SlotsKept DEF Saved, TypeOK
  <2>4. QED
    BY <1>14, <2>1, <2>3, JobEnds DEF Saved, GoTo
<1>15. CASE FailureSaved(j)
  <2>1. VerdictOf(j) = "failed" /\ job[j].phase = "raised"
    BY <1>1, <1>15 DEF FailureSaved, OutcomeInv, VerdictOf
  <2>2. SlotsMatchJobs' /\ active' \in [Replicas -> Nat]
    BY <1>15, <2>1, SlotLeft DEF FailureSaved, SlotPhases
  <2>3. QED
    BY <1>15, <2>1, <2>2, JobEnds DEF FailureSaved, GoTo
<1>16. QED
  BY <1>5, <1>6, <1>7, <1>8, <1>9, <1>10, <1>11, <1>12, <1>13, <1>14, <1>15 DEF JobStep

(***************************************************************************)
(* Steps of a delivery                                                     *)
(***************************************************************************)
(* A delivery whose request moves on, the agent standing still: it may     *)
(* take a job or a verdict only as the agent has them.                     *)
LEMMA DeliveryMoves ==
    ASSUME IInv, NEW b \in Builds, NEW d \in Posted \cup Submissions \cup Lookups \cup Settled,
           Set(b, d), abandoned' \in SUBSET Requests, UNCHANGED agentVars,
           HasJob(d) => HasJob(delivery[b]) /\ d.job = delivery[b].job,
           d.at = "reading" =>
                /\ memory[d.replica][d.job] = "unknown"
                /\ d.answer \in Verdicts => Concluded(d.job, d.answer),
           d.at = "review" => Concluded(d.job, "success")
    PROVE  IInv'
<1> USE DEF IInv
<1>1. /\ delivery' \in [Builds -> Posted \cup Submissions \cup Lookups \cup Settled]
      /\ \A c \in Builds : delivery'[c] = IF c = b THEN d ELSE delivery[c]
  BY DEF Set, TypeOK
<1>2. TypeOK'
  BY <1>1 DEF TypeOK, agentVars
<1>3. OutcomeInv' /\ HomeRemembers' /\ SlotsMatchJobs'
  <2>1. \A r \in Replicas : SlotHolders(r)' = SlotHolders(r)
    BY DEF agentVars, SlotHolders, At
  <2>2. QED
    BY <2>1, SlotsKept DEF agentVars, OutcomeInv, HomeRemembers
<1>4. OwnJob' /\ ReadingMisses'
  BY <1>1 DEF OwnJob, ReadingMisses, HasJob, agentVars
<1>5. \A s : \A k \in Jobs : Concluded(k, s)' <=> Concluded(k, s)
  BY DEF Concluded, VerdictOf, agentVars
<1>6. /\ \A c \in Builds : HasJob(delivery[c]) => delivery[c].job \in Jobs
      /\ HasJob(d) => job[d.job].build = b
  BY DeliveryFields DEF OwnJob
<1>7. VerdictsAreTrue'
  BY <1>1, <1>5, <1>6 DEF VerdictsAreTrue, HasJob, agentVars
<1>8. QED
  BY <1>2, <1>3, <1>4, <1>7

(* A failed delivery is about to submit again or has failed for good.      *)
LEMMA FailureSettles ==
    ASSUME TypeOK, NEW b \in Builds
    PROVE  /\ AfterFailure(delivery[b]) \in Settled
           /\ AfterFailure(delivery[b]).at \in {"ready", "failed"}
BY DeliveryFields, RetriesAssumption
   DEF AfterFailure, NewAttempt, Settled, Attempts

(* A delivery that gives its job up keeps the invariant.                   *)
LEMMA SettlingStep ==
    ASSUME IInv, NEW b \in Builds, NEW d \in Settled, Set(b, d), UNCHANGED agentVars,
           abandoned' \in SUBSET Requests
    PROVE  IInv'
<1>1. ~HasJob(d) /\ d.at # "reading" /\ d.at # "review"
  BY DEF HasJob, Settled
<1>2. QED
  BY <1>1, DeliveryMoves

(* So does a delivery that fails, whether it is retried or not.            *)
LEMMA FailureStep ==
    ASSUME IInv, NEW b \in Builds, Fails(b), UNCHANGED agentVars,
           abandoned' \in SUBSET Requests
    PROVE  IInv'
<1>1. AfterFailure(delivery[b]) \in Settled
  BY FailureSettles DEF IInv
<1>2. QED
  BY <1>1, SettlingStep DEF Fails

(* A new job takes a free slot and is remembered as running.               *)
LEMMA AcceptStep ==
    ASSUME IInv, NEW r \in Replicas, NEW j \in Jobs, NEW b \in Builds, Accept(r, j, b),
           delivery' \in [Builds -> Posted \cup Submissions \cup Lookups \cup Settled],
           \A c \in Builds : \/ delivery'[c] = delivery[c]
                             \/ c = b /\ delivery'[c].at = "starting" /\ delivery'[c].job = j,
           abandoned' \in SUBSET Requests
    PROVE  IInv'
<1> USE DEF IInv
<1>1. job[j].phase = "new" /\ active[r] < MaxConcurrent /\ UNCHANGED <<sandbox, redis, restarts>>
  BY DEF Accept
<1>2. /\ job' \in [Jobs -> JobRecords \cup {Fresh}]
      /\ job'[j].phase = "storing" /\ job'[j].replica = r /\ job'[j].build = b
      /\ \A k \in Jobs : k # j => job'[k] = job[k]
  BY DEF Accept, TypeOK, JobRecords, Phases, InProgress, SlotPhases
<1>3. /\ memory' \in [Replicas -> [Jobs -> JobStatuses]]
      /\ memory'[r][j] = "running"
      /\ \A s \in Replicas, k \in Jobs : (s # r \/ k # j) => memory'[s][k] = memory[s][k]
  BY DEF Accept, TypeOK, JobStatuses
<1>4. active' = [active EXCEPT ![r] = @ + 1] /\ active' \in [Replicas -> Nat]
  BY DEF Accept, TypeOK
<1>5. TypeOK'
  BY <1>1, <1>2, <1>3, <1>4 DEF TypeOK
<1>6. OutcomeInv'
  BY <1>2 DEF OutcomeInv
<1>7. \A c \in Builds : HasJob(delivery[c]) => /\ delivery[c].job \in Jobs
                                              /\ delivery[c].replica \in Replicas
                                              /\ delivery[c].job # j
  BY <1>1, DeliveryFields DEF OwnJob
<1>8. OwnJob'
  BY <1>2, <1>7 DEF OwnJob, HasJob
<1>9. HomeRemembers'
  <2>1. ASSUME NEW k \in Jobs, job'[k].phase \in InProgress, k # j
        PROVE  memory'[job'[k].replica][k] # "unknown"
    <3>1. job[k].phase # "new" /\ job[k].phase \in InProgress /\ job'[k] = job[k]
      BY <1>2, <2>1 DEF InProgress, SlotPhases, RunnerPhases
    <3>2. QED
      BY <1>3, <2>1, <3>1, StartedJob DEF HomeRemembers
  <2>2. QED
    BY <1>2, <1>3, <2>1 DEF HomeRemembers
<1>10. ReadingMisses'
  BY <1>3, <1>7 DEF ReadingMisses, HasJob
<1>11. SlotsMatchJobs'
  <2>1. j \notin SlotHolders(r)
    BY <1>1 DEF SlotHolders, At
  <2>2. SlotHolders(r)' = SlotHolders(r) \cup {j}
    BY <1>2 DEF SlotHolders, At, SlotPhases
  <2>3. \A s \in Replicas : s # r => SlotHolders(s)' = SlotHolders(s)
    BY <1>1, <1>2 DEF SlotHolders, At
  <2>4. QED
    BY <1>1, <1>4, <2>1, <2>2, <2>3, SlotTaken
<1>12. VerdictsAreTrue'
  <2>1. \A s : \A k \in Jobs : Concluded(k, s) => Concluded(k, s)' /\ k # j
    BY <1>1, <1>2 DEF Concluded, VerdictOf
  <2>2. \A s \in Replicas, k \in Jobs :
            (memory[s][k] \in Verdicts => Concluded(k, memory[s][k]))'
    <3>1. ASSUME NEW s \in Replicas, NEW k \in Jobs
          PROVE  memory'[s][k] = memory[s][k] \/ memory'[s][k] \notin Verdicts
      <4>1. CASE s = r /\ k = j
        BY <1>3, <4>1 DEF Verdicts
      <4>2. CASE s # r \/ k # j
        BY <1>3, <4>2
      <4>3. QED
        BY <4>1, <4>2
    <3>2. QED
      BY <2>1, <3>1 DEF VerdictsAreTrue
  <2>3. \A k \in Jobs : (redis[k] \in Verdicts => Concluded(k, redis[k]))'
    BY <1>1, <2>1 DEF VerdictsAreTrue
  <2>4. \A c \in Builds :
            (LET d == delivery[c] IN
             /\ d.at = "reading" /\ d.answer \in Verdicts => Concluded(d.job, d.answer)
             /\ d.at = "review" => Concluded(d.job, "success") /\ job[d.job].build = c)'
    BY <1>2, <1>7, <2>1 DEF VerdictsAreTrue, HasJob
  <2>5. QED
    BY <2>2, <2>3, <2>4 DEF VerdictsAreTrue
<1>13. QED
  BY <1>5, <1>6, <1>8, <1>9, <1>10, <1>11, <1>12

(* What Receive makes of a delivery that is told a status.                 *)
LEMMA ReceivedRequest ==
    ASSUME TypeOK, NEW b \in Builds, delivery[b].at \in {"asking", "reading"},
           NEW status \in JobStatuses, Receive(b, status)
    PROVE  \E d \in Posted \cup Submissions \cup Lookups \cup Settled :
             /\ Set(b, d)
             /\ d.at # "reading"
             /\ HasJob(d) => d.job = delivery[b].job
             /\ d.at = "review" => status = "success"
<1> DEFINE now == delivery[b]
           submission == [at |-> "polling", attempt |-> now.attempt,
                          replica |-> now.replica, job |-> now.job]
<1>1. now.attempt \in Attempts /\ now.replica \in Replicas /\ now.job \in Jobs
  BY DeliveryFields DEF HasJob
<1>2. submission \in Submissions
  BY <1>1 DEF Submissions
<1>3. CASE status = "running" /\ Set(b, submission)
  BY <1>2, <1>3
<1>4. CASE status = "success" /\ Set(b, [submission EXCEPT !.at = "review"])
  <2>1. [submission EXCEPT !.at = "review"] =
            [at |-> "review", attempt |-> now.attempt,
             replica |-> now.replica, job |-> now.job]
    OBVIOUS
  <2>2. [submission EXCEPT !.at = "review"] \in Submissions
    BY <1>1, <2>1 DEF Submissions
  <2>3. QED
    BY <1>4, <2>1, <2>2
<1>5. CASE Fails(b)
  BY <1>5, FailureSettles DEF Fails, HasJob
<1>6. QED
  BY <1>3, <1>4, <1>5 DEF Receive

(* The answer of Redis is kept in the memory of the replica that asked:    *)
(* no other request waits for the same answer there.                       *)
LEMMA WarmStep ==
    ASSUME IInv, NEW b \in Builds, WarmMemory(b)
    PROVE  IInv'
<1> DEFINE r == delivery[b].replica
           j == delivery[b].job
           answer == delivery[b].answer
<1> USE DEF IInv
<1>1. /\ delivery[b].at = "reading" /\ r \in Replicas /\ j \in Jobs
      /\ answer \in JobStatuses /\ memory[r][j] = "unknown"
      /\ answer \in Verdicts => Concluded(j, answer)
      /\ job[j].build = b /\ job[j].phase # "new"
  BY DeliveryFields DEF WarmMemory, HasJob, ReadingMisses, VerdictsAreTrue, OwnJob
<1>2. /\ UNCHANGED <<job, sandbox, redis, active, restarts, abandoned>>
      /\ memory' = IF answer = "unknown" THEN memory ELSE [memory EXCEPT ![r][j] = answer]
      /\ Receive(b, answer)
  BY DEF WarmMemory
<1>3. PICK d \in Posted \cup Submissions \cup Lookups \cup Settled :
             /\ Set(b, d)
             /\ d.at # "reading"
             /\ HasJob(d) => d.job = j
             /\ d.at = "review" => answer = "success"
  BY <1>1, <1>2, ReceivedRequest
<1> HIDE DEF r, j, answer
<1>4. /\ delivery' \in [Builds -> Posted \cup Submissions \cup Lookups \cup Settled]
      /\ \A c \in Builds : delivery'[c] = IF c = b THEN d ELSE delivery[c]
  BY <1>3 DEF Set, TypeOK
<1>5. /\ memory' \in [Replicas -> [Jobs -> JobStatuses]]
      /\ \A s \in Replicas, k \in Jobs :
            \/ memory'[s][k] = memory[s][k]
            \/ s = r /\ k = j /\ memory'[s][k] = answer /\ answer # "unknown"
  <2>1. CASE answer = "unknown"
    BY <1>2, <2>1 DEF TypeOK
  <2>2. CASE answer # "unknown"
    <3>1. memory' = [memory EXCEPT ![r][j] = answer]
      BY <1>2, <2>2
    <3>2. memory' \in [Replicas -> [Jobs -> JobStatuses]]
      BY <1>1, <3>1 DEF TypeOK
    <3>3. ASSUME NEW s \in Replicas, NEW k \in Jobs
          PROVE  \/ memory'[s][k] = memory[s][k]
                 \/ s = r /\ k = j /\ memory'[s][k] = answer
      <4>1. CASE s = r /\ k = j
        BY <1>1, <3>1, <4>1 DEF TypeOK
      <4>2. CASE s # r \/ k # j
        BY <3>1, <4>2 DEF TypeOK
      <4>3. QED
        BY <4>1, <4>2
    <3>4. QED
      BY <2>2, <3>2, <3>3
  <2>3. QED
    BY <2>1, <2>2
<1>6. TypeOK'
  BY <1>2, <1>4, <1>5 DEF TypeOK
<1>7. OutcomeInv' /\ SlotsMatchJobs'
  <2>1. \A s \in Replicas : SlotHolders(s)' = SlotHolders(s)
    BY <1>2 DEF SlotHolders, At
  <2>2. QED
    BY <1>2, <2>1, SlotsKept DEF OutcomeInv
<1>8. OwnJob'
  <2>1. ASSUME NEW c \in Builds, HasJob(delivery'[c])
        PROVE  job'[delivery'[c].job].phase # "new" /\ job'[delivery'[c].job].build = c
    <3>1. CASE c = b
      BY <1>1, <1>2, <1>3, <1>4, <2>1, <3>1
    <3>2. CASE c # b
      BY <1>2, <1>4, <2>1, <3>2 DEF OwnJob
    <3>3. QED
      BY <3>1, <3>2
  <2>2. QED
    BY <2>1 DEF OwnJob, HasJob
<1>9. HomeRemembers'
  <2>1. \A k \in Jobs : job[k].phase \in InProgress =>
            job[k].replica \in Replicas /\ memory[job[k].replica][k] # "unknown"
    BY StartedJob DEF HomeRemembers, InProgress, SlotPhases, RunnerPhases
  <2>2. \A s \in Replicas, k \in Jobs :
            memory[s][k] # "unknown" => memory'[s][k] # "unknown"
    BY <1>5
  <2>3. QED
    BY <1>2, <2>1, <2>2 DEF HomeRemembers
<1>10. ReadingMisses'
  <2>1. ASSUME NEW c \in Builds, delivery'[c].at = "reading"
        PROVE  memory'[delivery'[c].replica][delivery'[c].job] = "unknown"
    <3>1. c # b /\ delivery'[c] = delivery[c] /\ delivery[c].at = "reading"
      BY <1>3, <1>4, <2>1
    <3>2. delivery[c].replica \in Replicas /\ delivery[c].job \in Jobs
          /\ delivery[c].job # j /\ memory[delivery[c].replica][delivery[c].job] = "unknown"
      BY <1>1, <3>1, DeliveryFields DEF OwnJob, HasJob, ReadingMisses
    <3>3. QED
      BY <1>5, <3>1, <3>2
  <2>2. QED
    BY <2>1 DEF ReadingMisses
<1>11. VerdictsAreTrue'
  <2>1. \A s : \A k \in Jobs : Concluded(k, s)' <=> Concluded(k, s)
    BY <1>2 DEF Concluded, VerdictOf
  <2>2. \A s \in Replicas, k \in Jobs :
            (memory[s][k] \in Verdicts => Concluded(k, memory[s][k]))'
    BY <1>1, <1>5, <2>1 DEF VerdictsAreTrue
  <2>3. \A c \in Builds : HasJob(delivery[c]) => delivery[c].job \in Jobs
    BY DeliveryFields
  <2>4. d.at = "review" => Concluded(d.job, "success") /\ job[d.job].build = b
    BY <1>1, <1>3 DEF HasJob, Verdicts
  <2>5. \A c \in Builds :
            (LET e == delivery[c] IN
             /\ e.at = "reading" /\ e.answer \in Verdicts => Concluded(e.job, e.answer)
             /\ e.at = "review" => Concluded(e.job, "success") /\ job[e.job].build = c)'
    <3>1. d.at = "review" => d.job \in Jobs
      BY <1>1, <1>3 DEF HasJob
    <3>2. QED
      BY <1>2, <1>3, <1>4, <2>1, <2>3, <2>4, <3>1 DEF VerdictsAreTrue, HasJob
  <2>6. QED
    BY <1>2, <2>1, <2>2, <2>5 DEF VerdictsAreTrue
<1>12. QED
  BY <1>6, <1>7, <1>8, <1>9, <1>10, <1>11

(* Every step of a delivery keeps the invariant.                           *)
LEMMA DeliverPreserves ==
    ASSUME IInv, NEW b \in Builds, Deliver(b) \/ GiveUp(b) \/ SoftTimeLimit(b)
    PROVE  IInv'
<1> DEFINE now == delivery[b]
<1>1. TypeOK /\ now.attempt \in Attempts
  BY DeliveryFields DEF IInv
<1>2. (now.at = "posting" \/ HasJob(now) => now.replica \in Replicas)
      /\ (HasJob(now) => now.job \in Jobs)
  BY <1>1, DeliveryFields
<1>3. abandoned \in SUBSET Requests
  BY <1>1 DEF TypeOK
<1>4. CASE SubmitBuild(b)
  <2>1. PICK r \in Replicas :
            Set(b, [at |-> "posting", attempt |-> now.attempt, replica |-> r])
    BY <1>4 DEF SubmitBuild
  <2>2. [at |-> "posting", attempt |-> now.attempt, replica |-> r] \in Posted
    BY <1>1 DEF Posted
  <2>3. QED
    BY <1>3, <1>4, <2>1, <2>2, DeliveryMoves DEF SubmitBuild, HasJob
<1>5. CASE \E j \in Jobs : StartJob(b, j)
  <2>1. PICK j \in Jobs : StartJob(b, j)
    BY <1>5
  <2> DEFINE d == [at |-> "starting", attempt |-> now.attempt,
                   replica |-> now.replica, job |-> j]
  <2>2. /\ Accept(now.replica, j, b) /\ now.replica \in Replicas
        /\ Set(b, d) /\ abandoned' = abandoned
    BY <1>2, <2>1 DEF StartJob
  <2>3. d \in Submissions
    BY <1>1, <2>2 DEF Submissions
  <2>4. /\ delivery' \in [Builds -> Posted \cup Submissions \cup Lookups \cup Settled]
        /\ \A c \in Builds : \/ delivery'[c] = delivery[c]
                             \/ c = b /\ delivery'[c].at = "starting" /\ delivery'[c].job = j
    BY <1>1, <2>2, <2>3 DEF Set, TypeOK
  <2>5. QED
    BY <1>3, <2>2, <2>4, AcceptStep
<1>6. CASE Rejected(b)
  BY <1>3, <1>6, FailureStep DEF Rejected
<1>7. CASE Launched(b)
  <2> DEFINE d == [now EXCEPT !.at = "polling"]
  <2>1. now.at = "starting" /\ now \in Submissions /\ Set(b, d)
    BY <1>1, <1>7 DEF Launched, TypeOK, Posted, Submissions, Lookups, Settled
  <2>2. d \in Submissions /\ d.at = "polling" /\ d.job = now.job
    BY <2>1 DEF Submissions
  <2>3. QED
    BY <1>3, <1>7, <2>1, <2>2, DeliveryMoves DEF Launched, HasJob
<1>8. CASE Poll(b)
  <2>1. PICK r \in Replicas : Set(b, [now EXCEPT !.at = "asking", !.replica = r])
    BY <1>8 DEF Poll
  <2> DEFINE d == [now EXCEPT !.at = "asking", !.replica = r]
  <2>2. now.at = "polling" /\ now \in Submissions
    BY <1>1, <1>8 DEF Poll, TypeOK, Posted, Submissions, Lookups, Settled
  <2>3. d \in Submissions /\ d.at = "asking" /\ d.job = now.job
    BY <2>2 DEF Submissions
  <2>4. QED
    BY <1>3, <1>8, <2>1, <2>2, <2>3, DeliveryMoves DEF Poll, HasJob
<1>9. CASE AnswerFromMemory(b)
  <2>1. now.at = "asking" /\ now.replica \in Replicas /\ now.job \in Jobs
    BY <1>2, <1>9 DEF AnswerFromMemory, Asked, HasJob
  <2>2. InMemory(b) \in JobStatuses /\ Receive(b, InMemory(b))
        /\ UNCHANGED <<agentVars, abandoned>>
    BY <1>1, <1>9, <2>1 DEF AnswerFromMemory, InMemory, TypeOK
  <2>3. PICK d \in Posted \cup Submissions \cup Lookups \cup Settled :
             /\ Set(b, d)
             /\ d.at # "reading"
             /\ HasJob(d) => d.job = now.job
             /\ d.at = "review" => InMemory(b) = "success"
    BY <1>1, <2>1, <2>2, ReceivedRequest
  <2>4. InMemory(b) = "success" => Concluded(now.job, "success")
    BY <2>1 DEF InMemory, IInv, VerdictsAreTrue, Verdicts
  <2>5. QED
    BY <1>3, <2>1, <2>2, <2>3, <2>4, DeliveryMoves DEF HasJob
<1>10. CASE ReadRedis(b)
  <2>1. PICK answer \in {redis[now.job], "unknown"} :
            Set(b, [at |-> "reading", attempt |-> now.attempt, replica |-> now.replica,
                    job |-> now.job, answer |-> answer])
    BY <1>10 DEF ReadRedis
  <2> DEFINE d == [at |-> "reading", attempt |-> now.attempt, replica |-> now.replica,
                   job |-> now.job, answer |-> answer]
  <2>2. /\ now.at = "asking" /\ now.replica \in Replicas /\ now.job \in Jobs
        /\ memory[now.replica][now.job] = "unknown"
        /\ UNCHANGED <<agentVars, abandoned>>
    BY <1>2, <1>10 DEF ReadRedis, Asked, InMemory, HasJob
  <2>3. answer \in JobStatuses /\ (answer \in Verdicts => Concluded(now.job, answer))
    BY <1>1, <2>1, <2>2 DEF TypeOK, JobStatuses, IInv, VerdictsAreTrue, Verdicts
  <2>4. d \in Lookups
    BY <1>1, <2>2, <2>3 DEF Lookups
  <2>5. QED
    BY <1>3, <2>1, <2>2, <2>3, <2>4, DeliveryMoves DEF HasJob
<1>11. CASE WarmMemory(b)
  BY <1>11, WarmStep
<1>12. ASSUME HangUp(b)
       PROVE  abandoned' \in SUBSET Requests /\ UNCHANGED agentVars
  <2>1. now.at = "posting" =>
            [replica |-> now.replica, build |-> b, attempt |-> now.attempt] \in Requests
    BY <1>1, <1>2 DEF Requests
  <2>2. QED
    BY <1>3, <1>12, <2>1 DEF HangUp
<1>13. CASE GiveUp(b)
  BY <1>12, <1>13, FailureStep DEF GiveUp
<1>14. CASE SoftTimeLimit(b)
  <2>1. [at |-> "failed", attempt |-> now.attempt] \in Settled
    BY <1>1, <1>2 DEF Settled
  <2>2. QED
    BY <1>12, <1>14, <2>1, SettlingStep DEF SoftTimeLimit
<1>15. QED
  BY <1>4, <1>5, <1>6, <1>7, <1>8, <1>9, <1>10, <1>11, <1>13, <1>14 DEF Deliver

(* A request whose client went away is served or refused all the same.     *)
LEMMA AbandonedPreserves ==
    ASSUME IInv, NEW request \in abandoned, ServeAbandoned(request)
    PROVE  IInv'
<1>1. TypeOK /\ request \in Requests /\ request.replica \in Replicas
      /\ request.build \in Builds /\ abandoned' \in SUBSET Requests /\ delivery' = delivery
  BY DEF IInv, TypeOK, Requests, ServeAbandoned
<1>2. CASE \E j \in Jobs : Accept(request.replica, j, request.build)
  BY <1>1, <1>2, AcceptStep DEF TypeOK
<1>3. CASE UNCHANGED agentVars
  <2>1. \A r \in Replicas : SlotHolders(r)' = SlotHolders(r)
    BY <1>3 DEF agentVars, SlotHolders, At
  <2>2. SlotsMatchJobs'
    BY <1>3, <2>1, SlotsKept DEF agentVars, IInv
  <2>3. QED
    BY <1>1, <1>3, <2>2
       DEF agentVars, IInv, TypeOK, OutcomeInv, OwnJob, HomeRemembers, ReadingMisses,
           VerdictsAreTrue, Concluded, VerdictOf, HasJob
<1>4. QED
  BY <1>2, <1>3 DEF ServeAbandoned

(***************************************************************************)
(* The environment                                                         *)
(***************************************************************************)
(* A sandbox that expires changes nothing the invariant relates.           *)
LEMMA ExpiryPreserves ==
    ASSUME IInv, NEW j \in Jobs, Expires(j)
    PROVE  IInv'
<1>1. UNCHANGED <<job, memory, redis, active, restarts, delivery, abandoned>>
  BY DEF Expires, SandboxExpires
<1>2. \A r \in Replicas : SlotHolders(r)' = SlotHolders(r)
  BY <1>1 DEF SlotHolders, At
<1>3. SlotsMatchJobs'
  BY <1>1, <1>2, SlotsKept DEF IInv
<1>4. TypeOK'
  BY <1>1 DEF IInv, TypeOK, Expires, SandboxExpires
<1>5. QED
  BY <1>1, <1>3, <1>4
     DEF IInv, OutcomeInv, OwnJob, HomeRemembers, ReadingMisses,
         VerdictsAreTrue, Concluded, VerdictOf, HasJob

(* A restart leaves no job of the replica in a slot, and forgets verdicts  *)
(* but makes none up.                                                      *)
LEMMA RestartPreserves ==
    ASSUME IInv, NEW r \in Replicas, RestartReplica(r)
    PROVE  IInv'
<1> USE DEF IInv
<1>1. \A k \in Jobs :
        /\ job[k].phase = "new" => job'[k] = job[k]
        /\ job[k].phase # "new" =>
             /\ job'[k] \in JobRecords
             /\ job'[k].replica = job[k].replica /\ job'[k].build = job[k].build
             /\ job'[k].outcome = job[k].outcome
             /\ job'[k].phase = IF job[k].replica = r /\ job[k].phase \in InProgress
                                THEN "lost" ELSE job[k].phase
  <2>1. ASSUME NEW k \in Jobs
        PROVE  job'[k] = IF At(k, r) /\ job[k].phase \in InProgress
                         THEN [job[k] EXCEPT !.phase = "lost"] ELSE job[k]
    BY DEF RestartReplica, Restart
  <2>2. ASSUME NEW k \in Jobs, job[k].phase # "new"
        PROVE  job[k] \in JobRecords
    BY <2>2, StartedJob
  <2>3. QED
    BY <2>1, <2>2 DEF At, JobRecords, Phases
<1>2. job' \in [Jobs -> JobRecords \cup {Fresh}]
  <2>1. job' = [k \in Jobs |-> IF At(k, r) /\ job[k].phase \in InProgress
                              THEN [job[k] EXCEPT !.phase = "lost"] ELSE job[k]]
    BY DEF RestartReplica, Restart
  <2>2. \A k \in Jobs : job'[k] \in JobRecords \cup {Fresh}
    BY <1>1 DEF TypeOK
  <2>3. QED
    BY <2>1, <2>2
<1>3. /\ memory' = [memory EXCEPT ![r] = [k \in Jobs |-> "unknown"]]
      /\ memory' \in [Replicas -> [Jobs -> JobStatuses]]
      /\ active' = [active EXCEPT ![r] = 0] /\ active' \in [Replicas -> Nat]
      /\ restarts' \in Nat /\ UNCHANGED <<sandbox, redis>>
  BY DEF RestartReplica, Restart, TypeOK, JobStatuses
<1>4. /\ delivery' \in [Builds -> Posted \cup Submissions \cup Lookups \cup Settled]
      /\ \A b \in Builds :
            \/ /\ delivery'[b] = delivery[b]
               /\ delivery[b].at = "reading" => delivery[b].replica # r
            \/ delivery'[b].at \in {"ready", "failed"}
  <2>1. \A b \in Builds : /\ AfterFailure(delivery[b]) \in Settled
                          /\ AfterFailure(delivery[b]).at \in {"ready", "failed"}
    BY FailureSettles
  <2>2. delivery' = [b \in Builds |->
            IF delivery[b].at \in Waiting /\ delivery[b].replica = r
            THEN AfterFailure(delivery[b]) ELSE delivery[b]]
    BY DEF RestartReplica
  <2>3. QED
    BY <2>1, <2>2 DEF TypeOK, Waiting
<1>5. TypeOK'
  BY <1>2, <1>3, <1>4 DEF TypeOK, RestartReplica
<1>6. OutcomeInv'
  BY <1>1 DEF OutcomeInv
<1>7. \A b \in Builds : HasJob(delivery[b]) => /\ delivery[b].job \in Jobs
                                              /\ delivery[b].replica \in Replicas
  BY DeliveryFields
<1>8. OwnJob'
  <2>1. \A k \in Jobs : job[k].phase # "new" =>
            job'[k].phase # "new" /\ job'[k].build = job[k].build
    BY <1>1
  <2>2. QED
    BY <1>4, <1>7, <2>1 DEF OwnJob, HasJob
<1>9. HomeRemembers'
  <2>1. ASSUME NEW k \in Jobs, job'[k].phase \in InProgress
        PROVE  memory'[job'[k].replica][k] # "unknown"
    <3>1. job[k].phase # "new" /\ job[k].phase \in InProgress /\ job[k].replica # r
          /\ job'[k].replica = job[k].replica
      BY <1>1, <2>1 DEF InProgress, SlotPhases, RunnerPhases
    <3>2. QED
      BY <1>3, <3>1, StartedJob DEF HomeRemembers, TypeOK
  <2>2. QED
    BY <2>1 DEF HomeRemembers
<1>10. ReadingMisses'
  BY <1>3, <1>4, <1>7 DEF ReadingMisses, HasJob, TypeOK
<1>11. SlotsMatchJobs'
  <2>1. SlotHolders(r)' = {}
    BY <1>1 DEF SlotHolders, At, InProgress, SlotPhases, RunnerPhases
  <2>2. \A s \in Replicas : s # r => SlotHolders(s)' = SlotHolders(s)
    <3>1. \A k \in Jobs : job[k].phase # "new" /\ job[k].replica # r =>
              job'[k].phase = job[k].phase
      BY <1>1
    <3>2. \A k \in Jobs : /\ job'[k].phase = "new" <=> job[k].phase = "new"
                          /\ job[k].phase # "new" => job'[k].replica = job[k].replica
      BY <1>1
    <3>3. QED
      BY <3>1, <3>2 DEF SlotHolders, At
  <2>3. \A s \in Replicas : active'[s] = IF s = r THEN 0 ELSE active[s]
    BY <1>3 DEF TypeOK
  <2>4. QED
    BY <2>1, <2>2, <2>3, FS_EmptySet, MaxConcurrentAssumption DEF SlotsMatchJobs
<1>12. VerdictsAreTrue'
  <2>1. \A s : \A k \in Jobs : Concluded(k, s) => Concluded(k, s)'
    BY <1>1 DEF Concluded, VerdictOf, InProgress, SlotPhases, RunnerPhases
  <2>2. \A s \in Replicas, k \in Jobs :
            (memory[s][k] \in Verdicts => Concluded(k, memory[s][k]))'
    <3>1. \A s \in Replicas, k \in Jobs :
            memory'[s][k] = memory[s][k] \/ memory'[s][k] = "unknown"
      BY <1>3 DEF TypeOK
    <3>2. QED
      BY <2>1, <3>1 DEF VerdictsAreTrue, Verdicts
  <2>3. \A k \in Jobs : job[k].phase # "new" => job'[k].build = job[k].build
    BY <1>1
  <2>4. \A b \in Builds :
            (LET d == delivery[b] IN
             /\ d.at = "reading" /\ d.answer \in Verdicts => Concluded(d.job, d.answer)
             /\ d.at = "review" => Concluded(d.job, "success") /\ job[d.job].build = b)'
    BY <1>4, <1>7, <2>1, <2>3 DEF VerdictsAreTrue, HasJob, Concluded
  <2>5. QED
    BY <1>3, <2>1, <2>2, <2>4 DEF VerdictsAreTrue
<1>13. QED
  BY <1>5, <1>6, <1>8, <1>9, <1>10, <1>11, <1>12

(***************************************************************************)
(* The theorems                                                            *)
(***************************************************************************)
(* Nothing is started and nothing is known at first.                       *)
LEMMA InitEstablishes == Init => IInv
<1> SUFFICES ASSUME Init PROVE IInv
  OBVIOUS
<1> USE DEF Init, AgentInit
<1>1. \A j \in Jobs : job[j].phase = "new"
  BY DEF Fresh
<1>2. \A b \in Builds : delivery[b].at = "ready" /\ delivery[b] \in Settled
  BY RetriesAssumption DEF NewAttempt, Settled, Attempts
<1>3. TypeOK
  <2>1. delivery \in [Builds -> Posted \cup Submissions \cup Lookups \cup Settled]
    BY <1>2
  <2>2. QED
    BY <2>1 DEF TypeOK, JobStatuses
<1>4. OutcomeInv /\ HomeRemembers
  BY <1>1 DEF OutcomeInv, HomeRemembers, InProgress, SlotPhases, RunnerPhases
<1>5. OwnJob /\ ReadingMisses
  BY <1>2 DEF OwnJob, ReadingMisses, HasJob
<1>6. SlotsMatchJobs
  <2>1. \A r \in Replicas : SlotHolders(r) = {}
    BY <1>1 DEF SlotHolders, At
  <2>2. QED
    BY <2>1, FS_EmptySet, MaxConcurrentAssumption DEF SlotsMatchJobs
<1>7. VerdictsAreTrue
  BY <1>2 DEF VerdictsAreTrue, Verdicts
<1>8. QED
  BY <1>3, <1>4, <1>5, <1>6, <1>7 DEF IInv

(* Every step, of whoever, keeps the invariant.                            *)
LEMMA NextPreserves == IInv /\ [Next]_vars => IInv'
<1> SUFFICES ASSUME IInv, [Next]_vars PROVE IInv'
  OBVIOUS
<1>1. CASE \E b \in Builds : Deliver(b) \/ GiveUp(b) \/ SoftTimeLimit(b)
  BY <1>1, DeliverPreserves
<1>2. CASE \E j \in Jobs : AgentRuns(j) \/ Expires(j)
  BY <1>2, JobStepPreserves, ExpiryPreserves DEF AgentRuns
<1>3. CASE \E request \in abandoned : ServeAbandoned(request)
  BY <1>3, AbandonedPreserves
<1>4. CASE \E r \in Replicas : RestartReplica(r)
  BY <1>4, RestartPreserves
<1>5. CASE UNCHANGED vars
  <2>1. UNCHANGED <<job, sandbox, memory, redis, active, restarts, delivery, abandoned>>
    BY <1>5 DEF vars, agentVars
  <2>2. \A r \in Replicas : SlotHolders(r)' = SlotHolders(r)
    BY <2>1 DEF SlotHolders, At
  <2>3. SlotsMatchJobs'
    BY <2>1, <2>2, SlotsKept DEF IInv
  <2>4. QED
    BY <2>1, <2>3
       DEF IInv, TypeOK, OutcomeInv, OwnJob, HomeRemembers, ReadingMisses,
           VerdictsAreTrue, Concluded, VerdictOf, HasJob
<1>6. QED
  BY <1>1, <1>2, <1>3, <1>4, <1>5 DEF Next

(* The inductive invariant of the agent and its pollers holds.             *)
THEOREM AgentInvariant == Spec => []IInv
BY InitEstablishes, NextPreserves, PTL DEF Spec

(* Jobs, deliveries, replicas and Redis hold what they should.             *)
THEOREM AgentTypes == Spec => []TypeOK
<1>1. IInv => TypeOK
  BY DEF IInv
<1>2. QED
  BY <1>1, AgentInvariant, PTL

(* However jobs end and replicas restart, a replica's counter is the       *)
(* number of its jobs that hold a slot, and never above max_concurrent.    *)
THEOREM SlotsAreAccountedFor == Spec => []SlotsMatchJobs
<1>1. IInv => SlotsMatchJobs
  BY DEF IInv
<1>2. QED
  BY <1>1, AgentInvariant, PTL

(* A verdict kept or answered is how that very job ended, and a build is   *)
(* ready for review only for a job of its own that succeeded.              *)
THEOREM VerdictsAreNeverMadeUp == Spec => []VerdictsAreTrue
<1>1. IInv => VerdictsAreTrue
  BY DEF IInv
<1>2. QED
  BY <1>1, AgentInvariant, PTL

(***************************************************************************)
(* Verdicts are final                                                      *)
(***************************************************************************)
RedisKeepsVerdicts == \A j \in Jobs : redis[j] \in Verdicts => redis'[j] = redis[j]
MemoryKeepsVerdicts == \A j \in Jobs, r \in Replicas :
    memory[r][j] \in Verdicts =>
        \/ memory'[r][j] = memory[r][j]
        \/ memory'[r][j] = "unknown" /\ restarts' # restarts

(* A write to a job's entry that has no verdict yet loses none.            *)
LEMMA FirstVerdict ==
    ASSUME TypeOK, NEW s \in Replicas, NEW k \in Jobs, NEW status,
           memory[s][k] \notin Verdicts,
           memory' = [memory EXCEPT ![s][k] = status]
    PROVE  MemoryKeepsVerdicts
<1>1. ASSUME NEW r \in Replicas, NEW j \in Jobs, memory[r][j] \in Verdicts
      PROVE  memory'[r][j] = memory[r][j]
  <2>1. r # s \/ j # k
    BY <1>1
  <2>2. QED
    BY <2>1 DEF TypeOK
<1>2. QED
  BY <1>1 DEF MemoryKeepsVerdicts

(* A job step writes a verdict where there is none, or the same again.     *)
LEMMA JobStepKeepsVerdicts ==
    ASSUME IInv, NEW k \in Jobs, JobStep(k)
    PROVE  RedisKeepsVerdicts /\ MemoryKeepsVerdicts
<1> USE DEF Resumes
<1>1. TypeOK /\ OutcomeInv /\ VerdictsAreTrue
  BY DEF IInv
<1>2. ASSUME job[k].phase \in Undecided
      PROVE  redis[k] \notin Verdicts
             /\ \A r \in Replicas : memory[r][k] \notin Verdicts
  BY <1>1, <1>2 DEF VerdictsAreTrue, Concluded, Undecided, SlotPhases, RunnerPhases
<1>3. CASE UNCHANGED <<memory, redis>>
  BY <1>3 DEF RedisKeepsVerdicts, MemoryKeepsVerdicts
<1>4. CASE Launch(k)
  <2>1. redis[k] \notin Verdicts /\ memory' = memory
    BY <1>2, <1>4 DEF Launch, Undecided, SlotPhases
  <2>2. redis' = redis \/ redis' = [redis EXCEPT ![k] = "running"]
    BY <1>4 DEF Launch, Persist
  <2>3. QED
    BY <1>1, <2>1, <2>2 DEF TypeOK, RedisKeepsVerdicts, MemoryKeepsVerdicts
<1>5. ASSUME job[k].phase \in RunnerPhases, UNCHANGED redis,
             NEW status, Remember(k, status)
      PROVE  RedisKeepsVerdicts /\ MemoryKeepsVerdicts
  <2>1. job[k].replica \in Replicas /\ job[k].phase \in Undecided
    BY <1>1, <1>5, StartedJob DEF Undecided, SlotPhases, RunnerPhases
  <2>2. QED
    BY <1>1, <1>2, <1>5, <2>1, FirstVerdict DEF Remember, RedisKeepsVerdicts
<1>6. CASE AcquireFails(k)
  BY <1>5, <1>6 DEF AcquireFails, Raise, RunnerPhases
<1>7. CASE CloseSession(k)
  BY <1>5, <1>7 DEF CloseSession, Raise, Return, RunnerPhases
<1>8. ASSUME Persist(k, VerdictOf(k)), UNCHANGED memory
      PROVE  RedisKeepsVerdicts /\ MemoryKeepsVerdicts
  <2>1. redis[k] \in Verdicts => redis[k] = VerdictOf(k)
    BY <1>1 DEF VerdictsAreTrue, Concluded
  <2>2. redis' = redis \/ redis' = [redis EXCEPT ![k] = VerdictOf(k)]
    BY <1>8 DEF Persist
  <2>3. QED
    BY <1>1, <1>8, <2>1, <2>2 DEF TypeOK, RedisKeepsVerdicts, MemoryKeepsVerdicts
<1>9. CASE Saved(k)
  <2>1. job[k].outcome = VerdictOf(k)
    BY <1>1, <1>9 DEF Saved, OutcomeInv, VerdictOf, Verdicts
  <2>2. QED
    BY <1>8, <1>9, <2>1 DEF Saved
<1>10. CASE FailureSaved(k)
  <2>1. "failed" = VerdictOf(k)
    BY <1>1, <1>10 DEF FailureSaved, OutcomeInv, VerdictOf
  <2>2. QED
    BY <1>8, <1>10, <2>1 DEF FailureSaved
<1>11. QED
  BY <1>3, <1>4, <1>6, <1>7, <1>9, <1>10
     DEF JobStep, CreateSandbox, MakeWorkdir, Prepare, Customize, Serve, StepFails

(* So does every step.                                                     *)
LEMMA NextKeepsVerdicts ==
    ASSUME IInv, [Next]_vars
    PROVE  RedisKeepsVerdicts /\ MemoryKeepsVerdicts
<1>1. TypeOK
  BY DEF IInv
<1>2. CASE UNCHANGED <<memory, redis>>
  BY <1>2 DEF RedisKeepsVerdicts, MemoryKeepsVerdicts
<1>3. ASSUME NEW r \in Replicas, NEW j \in Jobs, NEW b, Accept(r, j, b)
      PROVE  RedisKeepsVerdicts /\ MemoryKeepsVerdicts
  <2>1. memory[r][j] \notin Verdicts
    BY <1>3 DEF Accept, IInv, VerdictsAreTrue, Concluded
  <2>2. QED
    BY <1>1, <1>3, <2>1, FirstVerdict DEF Accept, RedisKeepsVerdicts
<1>4. ASSUME NEW b \in Builds, Deliver(b) \/ GiveUp(b) \/ SoftTimeLimit(b)
      PROVE  RedisKeepsVerdicts /\ MemoryKeepsVerdicts
  <2>1. CASE \E j \in Jobs : StartJob(b, j)
    BY <1>1, <1>3, <2>1, DeliveryFields DEF StartJob
  <2>2. CASE WarmMemory(b)
    <3>1. /\ delivery[b].replica \in Replicas /\ delivery[b].job \in Jobs
          /\ memory[delivery[b].replica][delivery[b].job] \notin Verdicts
      BY <1>1, <2>2, DeliveryFields DEF WarmMemory, HasJob, IInv, ReadingMisses, Verdicts
    <3>2. CASE delivery[b].answer = "unknown"
      BY <1>2, <2>2, <3>2 DEF WarmMemory
    <3>3. CASE delivery[b].answer # "unknown"
      BY <1>1, <2>2, <3>1, <3>3, FirstVerdict DEF WarmMemory, RedisKeepsVerdicts
    <3>4. QED
      BY <3>2, <3>3
  <2>3. QED
    BY <1>2, <1>4, <2>1, <2>2
       DEF Deliver, SubmitBuild, Rejected, Launched, Poll, AnswerFromMemory, ReadRedis,
           GiveUp, SoftTimeLimit, HangUp, agentVars
<1>5. ASSUME NEW request \in abandoned, ServeAbandoned(request)
      PROVE  RedisKeepsVerdicts /\ MemoryKeepsVerdicts
  <2>1. request.replica \in Replicas
    BY <1>1 DEF TypeOK, Requests
  <2>2. QED
    BY <1>2, <1>3, <1>5, <2>1 DEF ServeAbandoned, agentVars
<1>6. ASSUME NEW r \in Replicas, RestartReplica(r)
      PROVE  RedisKeepsVerdicts /\ MemoryKeepsVerdicts
  BY <1>1, <1>6
     DEF RestartReplica, Restart, TypeOK, RedisKeepsVerdicts, MemoryKeepsVerdicts
<1>7. ASSUME NEW j \in Jobs, AgentRuns(j) \/ Expires(j)
      PROVE  RedisKeepsVerdicts /\ MemoryKeepsVerdicts
  BY <1>2, <1>7, JobStepKeepsVerdicts DEF AgentRuns, Expires, SandboxExpires
<1>8. CASE UNCHANGED vars
  BY <1>2, <1>8 DEF vars, agentVars
<1>9. QED
  BY <1>4, <1>5, <1>6, <1>7, <1>8 DEF Next

(* A job that is known as finished is never seen running again, except by  *)
(* a replica that restarted and forgot it.                                 *)
THEOREM VerdictsStay == Spec => VerdictIsFinal
<1>1. IInv /\ [Next]_vars => RedisKeepsVerdicts /\ MemoryKeepsVerdicts
  BY NextKeepsVerdicts
<1>2. IInv /\ [Next]_vars =>
        [\A j \in Jobs :
            /\ redis[j] \in Verdicts => redis'[j] = redis[j]
            /\ \A r \in Replicas : memory[r][j] \in Verdicts =>
                  \/ memory'[r][j] = memory[r][j]
                  \/ memory'[r][j] = "unknown" /\ restarts' # restarts]_vars
  BY <1>1 DEF RedisKeepsVerdicts, MemoryKeepsVerdicts
<1>3. QED
  BY <1>2, AgentInvariant, PTL DEF Spec, VerdictIsFinal
=============================================================================
