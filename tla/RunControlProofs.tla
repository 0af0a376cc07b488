-------------------------- MODULE RunControlProofs --------------------------
(***************************************************************************)
(* Proofs about RunQueue and about RunControl, which drives it, for every  *)
(* set of jobs and workers, every lease, retry and timer constant and      *)
(* every number of cycles.                                                 *)
(*                                                                         *)
(* The queue, in three parts:                                              *)
(*                                                                         *)
(* - type correctness, the authority of an attempt's worker and the single *)
(*   accepted completion;                                                  *)
(* - what looks at the records only: a completed job is final, outcomes    *)
(*   are written once, a dead letter has used up its attempts, and the     *)
(*   queue implements JobLedger;                                           *)
(* - what looks at time: a lease is lost under its worker only when a      *)
(*   renewal failed or came late.                                          *)
(*                                                                         *)
(* The control: it is an implementation of the queue, so that all that is  *)
(* proved of the queue holds here; types; what a job that the queue calls  *)
(* completed says of its session; when a run may go on; and that the       *)
(* record of a run stands.                                                 *)
(***************************************************************************)
EXTENDS RunControl, FiniteSetTheorems, TLAPS

(***************************************************************************)
(* Types, authority, completion.                                           *)
(***************************************************************************)

AttemptOutcome == {"open", "completed", "failed"}

(* Annotating the latest attempt keeps the length, the workers and every   *)
(* earlier attempt, and sets the outcome of the last (annotateLatestAttempt). *)
LEMMA AnnotateProperties ==
  ASSUME NEW s \in Seq(Attempt), NEW o \in AttemptOutcome
  PROVE  /\ AnnotateLatestAttempt(s, o) \in Seq(Attempt)
         /\ Len(AnnotateLatestAttempt(s, o)) = Len(s)
         /\ DOMAIN AnnotateLatestAttempt(s, o) = DOMAIN s
         /\ \A i \in DOMAIN s : i # Len(s) => AnnotateLatestAttempt(s, o)[i] = s[i]
         /\ Len(s) \in DOMAIN s =>
              AnnotateLatestAttempt(s, o)[Len(s)]
                = [worker |-> s[Len(s)].worker, outcome |-> o]
<1> DEFINE t == AnnotateLatestAttempt(s, o)
<1>1. DOMAIN s = 1..Len(s) /\ Len(s) \in Nat
  OBVIOUS
<1>2. DOMAIN t = 1..Len(s)
  BY <1>1 DEF AnnotateLatestAttempt
<1>3. \A i \in DOMAIN s : s[i] \in Attempt
  OBVIOUS
<1>4. \A i \in DOMAIN s : t[i] \in Attempt
  <2> TAKE i \in DOMAIN s
  <2>1. t[i] = IF i = Len(s) THEN [s[i] EXCEPT !.outcome = o] ELSE s[i]
    BY DEF AnnotateLatestAttempt
  <2>2. s[i] \in Attempt
    BY <1>3
  <2> QED
    BY <2>1, <2>2 DEF Attempt, AttemptOutcome
<1>5. t \in [1..Len(s) -> Attempt]
  <2>1. t = [i \in 1..Len(s) |-> t[i]]
    BY <1>1 DEF AnnotateLatestAttempt
  <2> QED
    BY <2>1, <1>4, <1>1
<1>6. t \in Seq(Attempt) /\ Len(t) = Len(s)
  BY <1>1, <1>5
<1>7. \A i \in DOMAIN s : i # Len(s) => t[i] = s[i]
  BY DEF AnnotateLatestAttempt
<1>8. Len(s) \in DOMAIN s => t[Len(s)] = [worker |-> s[Len(s)].worker, outcome |-> o]
  <2> SUFFICES ASSUME Len(s) \in DOMAIN s
               PROVE  t[Len(s)] = [worker |-> s[Len(s)].worker, outcome |-> o]
    OBVIOUS
  <2>1. t[Len(s)] = [s[Len(s)] EXCEPT !.outcome = o]
    BY DEF AnnotateLatestAttempt
  <2>2. s[Len(s)] \in Attempt
    BY <1>3
  <2> QED
    BY <2>1, <2>2 DEF Attempt
<1> QED
  BY <1>1, <1>2, <1>6, <1>7, <1>8

(* Every record the repository writes is a well-formed job.                *)
LEMMA CreatedJobsTyped ==
  ASSUME NEW job \in Job
  PROVE  /\ AbsentJob \in Job
         /\ \A time \in Nat : CreateQueuedJob(time) \in Job
         /\ \A w \in Worker : CreateLeasedJob(job, w) \in Job
         /\ CreateRenewedLeaseJob(job) \in Job
         /\ Unleased(job) \in Job
         /\ CreateCompletedJob(job) \in Job
         /\ CreateFailedJob(job) \in Job
         /\ \A budget, delay \in Nat :
              CreateReplayedDeadLetterJob(job, budget, delay) \in Job
<1> USE RunQueueAssumption
<1>1. AbsentJob \in Job
  BY DEF AbsentJob, Job, Status
<1>2. ASSUME NEW time \in Nat PROVE CreateQueuedJob(time) \in Job
  BY <1>1 DEF CreateQueuedJob, Job, Status
<1>3. ASSUME NEW w \in Worker PROVE CreateLeasedJob(job, w) \in Job
  <2>1. job.attempts \in Seq(Attempt) /\ [worker |-> w, outcome |-> "open"] \in Attempt
    BY DEF Job, Attempt
  <2>2. Append(job.attempts, [worker |-> w, outcome |-> "open"]) \in Seq(Attempt)
    BY <2>1
  <2> QED
    BY <2>2 DEF CreateLeasedJob, Job, Status
<1>4. CreateRenewedLeaseJob(job) \in Job
  BY DEF CreateRenewedLeaseJob, Job
<1>5. Unleased(job) \in Job
  BY DEF Unleased, Job
<1>6. Unleased(job).attempts = job.attempts /\ job.attempts \in Seq(Attempt)
  BY DEF Unleased, Job
<1>7. CreateCompletedJob(job) \in Job
  <2>1. AnnotateLatestAttempt(job.attempts, "completed") \in Seq(Attempt)
    BY <1>6, AnnotateProperties DEF AttemptOutcome
  <2> QED
    BY <1>5, <1>6, <2>1 DEF CreateCompletedJob, Job, Status
<1>8. CreateFailedJob(job) \in Job
  <2>1. AnnotateLatestAttempt(job.attempts, "failed") \in Seq(Attempt)
    BY <1>6, AnnotateProperties DEF AttemptOutcome
  <2> DEFINE recorded ==
        [Unleased(job) EXCEPT !.attempts = AnnotateLatestAttempt(@, "failed"),
                              !.failedAttemptCount = @ + 1,
                              !.maxAttempts = MaxAttempts]
  <2>2. recorded \in Job
    <3> DEFINE u == Unleased(job)
    <3>1. u \in Job /\ AnnotateLatestAttempt(u.attempts, "failed") \in Seq(Attempt)
      BY <1>5, <1>6, <2>1
    <3>2. MaxAttempts \in Nat
      OBVIOUS
    <3> HIDE DEF u
    <3>3. u.failedAttemptCount + 1 \in Nat
      BY <3>1 DEF Job
    <3>4. [u EXCEPT !.attempts = AnnotateLatestAttempt(@, "failed"),
                    !.failedAttemptCount = @ + 1,
                    !.maxAttempts = MaxAttempts] \in Job
      BY <3>1, <3>2, <3>3 DEF Job
    <3> QED
      BY <3>4 DEF u
  <2>3. [recorded EXCEPT !.status = "queued", !.delayLeft = RetryDelay] \in Job
    <3> HIDE DEF recorded
    <3> QED BY <2>2 DEF Job, Status
  <2>4. [recorded EXCEPT !.status = "dead-lettered"] \in Job
    <3> HIDE DEF recorded
    <3> QED BY <2>2 DEF Job, Status
  <2> QED
    BY <2>3, <2>4 DEF CreateFailedJob
<1>9. ASSUME NEW budget \in Nat, NEW delay \in Nat
      PROVE  CreateReplayedDeadLetterJob(job, budget, delay) \in Job
  <2> DEFINE u == Unleased(job)
             next == AttemptCount(job) + 1
             default == IF job.maxAttempts > next THEN job.maxAttempts ELSE next
             assigned == IF budget = 0 THEN default ELSE budget
  <2>1. AttemptCount(job) \in Nat
    BY <1>6 DEF AttemptCount
  <2>2. job.maxAttempts \in Nat
    BY DEF Job
  <2>3. assigned \in Nat
    BY <2>1, <2>2
  <2>4. u \in Job
    BY <1>5
  <2> HIDE DEF u, assigned
  <2>5. u.replayCount + 1 \in Nat
    BY <2>4 DEF Job
  <2>6. [u EXCEPT !.status = "queued", !.maxAttempts = assigned,
                  !.delayLeft = delay, !.replayCount = @ + 1] \in Job
    BY <2>3, <2>4, <2>5 DEF Job, Status
  <2> QED
    BY <2>6 DEF CreateReplayedDeadLetterJob, u, assigned
<1> QED
  BY <1>1, <1>2, <1>3, <1>4, <1>5, <1>7, <1>8, <1>9

(* What each record the repository writes says of status, attempts, owner. *)
LEMMA CreatedJobsFields ==
  ASSUME NEW job \in Job
  PROVE  /\ \A time \in Nat : /\ CreateQueuedJob(time).status = "queued"
                              /\ CreateQueuedJob(time).attempts = <<>>
         /\ \A w \in Worker :
              LET leased == CreateLeasedJob(job, w)
              IN /\ leased.status = "leased" /\ leased.leaseOwnerId = w
                 /\ leased.attempts =
                      Append(job.attempts, [worker |-> w, outcome |-> "open"])
         /\ LET renewed == CreateRenewedLeaseJob(job)
            IN /\ renewed.status = job.status
               /\ renewed.leaseOwnerId = job.leaseOwnerId
               /\ renewed.attempts = job.attempts
         /\ CreateCompletedJob(job).status = "completed"
         /\ CreateCompletedJob(job).attempts
              = AnnotateLatestAttempt(job.attempts, "completed")
         /\ CreateFailedJob(job).attempts
              = AnnotateLatestAttempt(job.attempts, "failed")
         /\ AttemptCount(job) < MaxAttempts =>
              CreateFailedJob(job).status = "queued"
         /\ ~(AttemptCount(job) < MaxAttempts) =>
              CreateFailedJob(job).status = "dead-lettered"
         /\ \A budget, delay \in Nat :
              LET replayed == CreateReplayedDeadLetterJob(job, budget, delay)
              IN replayed.status = "queued" /\ replayed.attempts = job.attempts
<1>1. Unleased(job) \in Job /\ Unleased(job).attempts = job.attempts
  BY RunQueueAssumption DEF Unleased, Job
<1>2. \A time \in Nat : /\ CreateQueuedJob(time).status = "queued"
                       /\ CreateQueuedJob(time).attempts = <<>>
  BY DEF CreateQueuedJob, AbsentJob
<1>3. \A w \in Worker :
        LET leased == CreateLeasedJob(job, w)
        IN /\ leased.status = "leased" /\ leased.leaseOwnerId = w
           /\ leased.attempts =
                Append(job.attempts, [worker |-> w, outcome |-> "open"])
  BY DEF CreateLeasedJob, Job
<1>4. LET renewed == CreateRenewedLeaseJob(job)
      IN /\ renewed.status = job.status
         /\ renewed.leaseOwnerId = job.leaseOwnerId
         /\ renewed.attempts = job.attempts
  BY DEF CreateRenewedLeaseJob, Job
<1>5. /\ CreateCompletedJob(job).status = "completed"
      /\ CreateCompletedJob(job).attempts
           = AnnotateLatestAttempt(job.attempts, "completed")
  BY <1>1 DEF CreateCompletedJob, Job
<1> DEFINE recorded ==
        [Unleased(job) EXCEPT !.attempts = AnnotateLatestAttempt(@, "failed"),
                              !.failedAttemptCount = @ + 1,
                              !.maxAttempts = MaxAttempts]
<1>6. /\ recorded.attempts = AnnotateLatestAttempt(job.attempts, "failed")
      /\ DOMAIN recorded = DOMAIN job
  BY <1>1 DEF Job
<1>7. /\ [recorded EXCEPT !.status = "queued", !.delayLeft = RetryDelay].attempts
           = recorded.attempts
      /\ [recorded EXCEPT !.status = "queued", !.delayLeft = RetryDelay].status
           = "queued"
      /\ [recorded EXCEPT !.status = "dead-lettered"].attempts = recorded.attempts
      /\ [recorded EXCEPT !.status = "dead-lettered"].status = "dead-lettered"
  <2> HIDE DEF recorded
  <2> QED BY <1>6 DEF Job
<1>8. /\ CreateFailedJob(job).attempts
           = AnnotateLatestAttempt(job.attempts, "failed")
      /\ AttemptCount(job) < MaxAttempts =>
           CreateFailedJob(job).status = "queued"
      /\ ~(AttemptCount(job) < MaxAttempts) =>
           CreateFailedJob(job).status = "dead-lettered"
  BY <1>6, <1>7 DEF CreateFailedJob
<1>9. \A budget, delay \in Nat :
        LET replayed == CreateReplayedDeadLetterJob(job, budget, delay)
        IN replayed.status = "queued" /\ replayed.attempts = job.attempts
  BY <1>1 DEF CreateReplayedDeadLetterJob, Job
<1> QED
  BY <1>2, <1>3, <1>4, <1>5, <1>8, <1>9

-----------------------------------------------------------------------------
(* Type correctness.                                                       *)

LEMMA InitTyped == Init => TypeOK
<1> SUFFICES ASSUME Init PROVE TypeOK
  OBVIOUS
<1>1. AbsentJob \in Job
  BY RunQueueAssumption DEF AbsentJob, Job, Status
<1>2. IdleWorker \in WorkerState
  BY DEF IdleWorker, WorkerState
<1> QED
  BY <1>1, <1>2 DEF Init, TypeOK, IdleWorker

(* The updates of a worker's local state keep its type.                    *)
LEMMA WorkerUpdatesTyped ==
  ASSUME NEW s \in WorkerState, NEW t \in Int, NEW b \in BOOLEAN
  PROVE  /\ [s EXCEPT !.timer = t] \in WorkerState
         /\ [s EXCEPT !.timer = t, !.heartbeatError = b] \in WorkerState
         /\ [s EXCEPT !.pc = "recording", !.runError = b] \in WorkerState
<1>1. [s EXCEPT !.timer = t] \in WorkerState
  BY DEF WorkerState
<1>2. [s EXCEPT !.timer = t, !.heartbeatError = b] \in WorkerState
  BY <1>1, Zenon DEF WorkerState
<1>3. [s EXCEPT !.pc = "recording", !.runError = b] \in WorkerState
  BY Zenon DEF WorkerState
<1> QED
  BY <1>1, <1>2, <1>3

LEMMA NextTyped == TypeOK /\ [Next]_vars => TypeOK'
<1> SUFFICES ASSUME TypeOK, [Next]_vars PROVE TypeOK'
  OBVIOUS
<1> USE RunQueueAssumption
<1>0. /\ jobs \in [JobId -> Job] /\ workers \in [Worker -> WorkerState]
      /\ crashes \in Nat /\ ioErrors \in Nat
      /\ \A w \in Worker : workers[w].pc # "idle" => workers[w].job \in JobId
  BY DEF TypeOK
<1>i. IdleWorker \in WorkerState /\ IdleWorker.pc = "idle"
  BY DEF IdleWorker, WorkerState
<1>h. HeartbeatInterval \in Int
  BY DEF HeartbeatInterval
<1>1. ASSUME NEW j \in JobId, NEW time \in JobId, Enqueue(j, time) PROVE TypeOK'
  <2>1. jobs[j] \in Job /\ time \in Nat
    BY <1>0
  <2>2. CreateQueuedJob(time) \in Job
    BY <2>1, CreatedJobsTyped
  <2> QED
    BY <1>0, <1>1, <2>2 DEF Enqueue, faults, TypeOK
<1>2. ASSUME NEW w \in Worker, NEW j \in JobId, Claim(w, j) PROVE TypeOK'
  <2>1. jobs[j] \in Job /\ CreateLeasedJob(jobs[j], w) \in Job
    BY <1>0, CreatedJobsTyped
  <2>2. AttemptCount(jobs[j]) + 1 \in Nat
    BY <2>1 DEF AttemptCount, Job
  <2>3. [pc |-> "executing", job |-> j, attempt |-> AttemptCount(jobs[j]) + 1,
         timer |-> HeartbeatInterval,
         heartbeatError |-> FALSE, runError |-> FALSE] \in WorkerState
    BY <2>2, <1>h DEF WorkerState
  <2>4. jobs' \in [JobId -> Job]
    BY <1>0, <1>2, <2>1 DEF Claim
  <2>5. workers' \in [Worker -> WorkerState]
    BY <1>0, <1>2, <2>3 DEF Claim
  <2>6. \A v \in Worker : v # w => workers'[v] = workers[v]
    BY <1>0, <1>2 DEF Claim
  <2>7. workers'[w].job = j
    BY <1>0, <1>2 DEF Claim
  <2>8. \A v \in Worker : workers'[v].pc # "idle" => workers'[v].job \in JobId
    BY <1>0, <2>6, <2>7
  <2>9. crashes' = crashes /\ ioErrors' = ioErrors
    BY <1>2 DEF Claim, faults
  <2> QED
    BY <1>0, <2>4, <2>5, <2>8, <2>9 DEF TypeOK
<1>3. ASSUME NEW w \in Worker, Heartbeat(w) PROVE TypeOK'
  <2> DEFINE j == workers[w].job
  <2>1. j \in JobId /\ CreateRenewedLeaseJob(jobs[j]) \in Job
    BY <1>0, <1>3, CreatedJobsTyped DEF Heartbeat
  <2>2. jobs' \in [JobId -> Job]
    BY <1>0, <1>3, <2>1 DEF Heartbeat
  <2>3. (workers[w].heartbeatError \/ ~Owns(w)) \in BOOLEAN
    BY <1>0 DEF WorkerState
  <2>4. workers' \in [Worker -> WorkerState]
    <3>1. [workers[w] EXCEPT !.timer = HeartbeatInterval,
                             !.heartbeatError = @ \/ ~Owns(w)] \in WorkerState
      BY <1>0, <1>h, <2>3, WorkerUpdatesTyped
    <3> QED
      BY <1>0, <1>3, <3>1 DEF Heartbeat
  <2>5. \A v \in Worker : workers'[v].pc = workers[v].pc /\ workers'[v].job = workers[v].job
    BY <1>0, <1>3 DEF Heartbeat, WorkerState
  <2> QED
    BY <1>0, <1>3, <2>2, <2>4, <2>5 DEF Heartbeat, faults, TypeOK
<1>4. ASSUME NEW w \in Worker, HeartbeatThrows(w) PROVE TypeOK'
  <2>1. workers' \in [Worker -> WorkerState]
    BY <1>0, <1>4, <1>h DEF HeartbeatThrows, WorkerState
  <2>2. \A v \in Worker : workers'[v].pc = workers[v].pc /\ workers'[v].job = workers[v].job
    BY <1>0, <1>4 DEF HeartbeatThrows, WorkerState
  <2> QED
    BY <1>0, <1>4, <2>1, <2>2 DEF HeartbeatThrows, TypeOK
<1>5. ASSUME NEW w \in Worker, NEW error \in BOOLEAN, RunSettles(w, error) PROVE TypeOK'
  <2>1. workers' \in [Worker -> WorkerState]
    <3>1. [workers[w] EXCEPT !.pc = "recording", !.runError = error] \in WorkerState
      BY <1>0, <1>h, WorkerUpdatesTyped
    <3> QED
      BY <1>0, <1>5, <3>1 DEF RunSettles
  <2>2. \A v \in Worker : /\ workers'[v].job = workers[v].job
                         /\ workers'[v].pc # "idle" => workers[v].pc # "idle"
    BY <1>0, <1>5 DEF RunSettles, WorkerState
  <2> QED
    BY <1>0, <1>5, <2>1, <2>2 DEF RunSettles, faults, TypeOK
<1>6. ASSUME NEW w \in Worker, RecordCompletion(w) PROVE TypeOK'
  <2> DEFINE j == workers[w].job
  <2>1. j \in JobId /\ CreateCompletedJob(jobs[j]) \in Job
    BY <1>0, <1>6, CreatedJobsTyped DEF RecordCompletion
  <2> QED
    BY <1>0, <1>i, <1>6, <2>1 DEF RecordCompletion, faults, TypeOK
<1>7. ASSUME NEW w \in Worker, RecordFailure(w) PROVE TypeOK'
  <2> DEFINE j == workers[w].job
  <2>1. j \in JobId /\ CreateFailedJob(jobs[j]) \in Job
    BY <1>0, <1>7, CreatedJobsTyped DEF RecordFailure
  <2> QED
    BY <1>0, <1>i, <1>7, <2>1 DEF RecordFailure, faults, TypeOK
<1>8. ASSUME NEW w \in Worker, Crash(w) PROVE TypeOK'
  BY <1>0, <1>i, <1>8 DEF Crash, TypeOK
<1>9. ASSUME NEW j \in JobId, NEW budget \in ReplayBudgets \cup {0},
             NEW delay \in {0, RetryDelay}, ReplayDeadLetter(j, budget, delay)
      PROVE  TypeOK'
  <2>1. jobs[j] \in Job /\ budget \in Nat /\ delay \in Nat
    BY <1>0
  <2>2. CreateReplayedDeadLetterJob(jobs[j], budget, delay) \in Job
    BY <2>1, CreatedJobsTyped
  <2> QED
    BY <1>0, <1>9, <2>2 DEF ReplayDeadLetter, faults, TypeOK
<1>10. ASSUME Tick PROVE TypeOK'
  <2>1. \A t \in Nat : Left(t) \in Nat
    BY DEF Left
  <2>2. jobs' \in [JobId -> Job]
    <3>1. \A j \in JobId :
            [jobs[j] EXCEPT !.leaseLeft = Left(@), !.delayLeft = Left(@)] \in Job
      <4> TAKE j \in JobId
      <4>1. jobs[j] \in Job /\ Left(jobs[j].leaseLeft) \in Nat /\ Left(jobs[j].delayLeft) \in Nat
        BY <1>0, <2>1 DEF Job
      <4> QED
        BY <4>1 DEF Job
    <3> QED
      BY <1>10, <3>1 DEF Tick
  <2>3. workers' \in [Worker -> WorkerState]
    <3>1. \A v \in Worker : [workers[v] EXCEPT !.timer = @ - 1] \in WorkerState
      <4> TAKE v \in Worker
      <4>1. workers[v] \in WorkerState /\ workers[v].timer - 1 \in Int
        BY <1>0 DEF WorkerState
      <4> QED
        BY <4>1, WorkerUpdatesTyped
    <3> QED
      BY <1>0, <1>10, <3>1 DEF Tick
  <2>4. \A v \in Worker : workers'[v].pc = workers[v].pc /\ workers'[v].job = workers[v].job
    BY <1>0, <1>10 DEF Tick, WorkerState
  <2> QED
    BY <1>0, <1>10, <2>2, <2>3, <2>4 DEF Tick, faults, TypeOK
<1>11. CASE UNCHANGED vars
  BY <1>11 DEF vars, TypeOK
<1> QED
  BY <1>1, <1>2, <1>3, <1>4, <1>5, <1>6, <1>7, <1>8, <1>9, <1>10, <1>11 DEF Next

(* Every record of the repository and every worker's local state keep their *)
(* types, in every behaviour of the queue.                                  *)
THEOREM TypeCorrect == Spec => []TypeOK
  BY InitTyped, NextTyped, PTL DEF Spec

-----------------------------------------------------------------------------
(* The records of the repository.                                          *)

Sound(job) == RecordConsistent(job) /\ LastAttemptCompletes(job)

(* Each repository operation, applied where its guard allows, turns a sound *)
(* record into a sound record.                                              *)
LEMMA CreatedJobsSound ==
  ASSUME NEW job \in Job, Sound(job)
  PROVE  /\ \A time \in Nat : Sound(CreateQueuedJob(time))
         /\ job.status \in {"queued", "leased"} =>
              \A w \in Worker : Sound(CreateLeasedJob(job, w))
         /\ Sound(CreateRenewedLeaseJob(job))
         /\ job.status = "leased" =>
              Sound(CreateCompletedJob(job)) /\ Sound(CreateFailedJob(job))
         /\ job.status = "dead-lettered" =>
              \A budget, delay \in Nat :
                Sound(CreateReplayedDeadLetterJob(job, budget, delay))
<1> USE DEF Sound, RecordConsistent, LastAttemptCompletes
<1> DEFINE s == job.attempts
<1>1. s \in Seq(Attempt) /\ DOMAIN s = 1..Len(s) /\ Len(s) \in Nat
  BY DEF Job
<1>2. ASSUME NEW time \in Nat PROVE Sound(CreateQueuedJob(time))
  BY CreatedJobsFields
<1>3. ASSUME job.status \in {"queued", "leased"}, NEW w \in Worker
      PROVE  Sound(CreateLeasedJob(job, w))
  <2> DEFINE r == CreateLeasedJob(job, w)
             e == [worker |-> w, outcome |-> "open"]
  <2>1. r.status = "leased" /\ r.attempts = Append(s, e)
    BY CreatedJobsFields
  <2>2. e \in Attempt
    BY DEF Attempt
  <2>3. /\ Len(Append(s, e)) = Len(s) + 1
        /\ DOMAIN Append(s, e) = 1..(Len(s) + 1)
        /\ Append(s, e)[Len(s) + 1] = e
        /\ \A i \in 1..Len(s) : Append(s, e)[i] = s[i]
    BY <1>1, <2>2
  <2>4. \A i \in DOMAIN s : s[i].outcome # "completed"
    BY <1>3
  <2>5. \A i \in DOMAIN r.attempts : r.attempts[i].outcome # "completed"
    BY <1>1, <2>1, <2>3, <2>4
  <2>6. r.attempts # <<>> /\ r.attempts[Len(r.attempts)].outcome = "open"
    BY <1>1, <2>1, <2>3
  <2> QED
    BY <2>1, <2>5, <2>6
<1>4. Sound(CreateRenewedLeaseJob(job))
  BY CreatedJobsFields
<1>5. ASSUME job.status = "leased"
      PROVE  Sound(CreateCompletedJob(job)) /\ Sound(CreateFailedJob(job))
  <2>1. \A i \in DOMAIN s : s[i].outcome # "completed"
    BY <1>5
  <2>2. s # <<>> /\ Len(s) \in DOMAIN s
    BY <1>1, <1>5
  <2>3. Sound(CreateCompletedJob(job))
    <3> DEFINE t == AnnotateLatestAttempt(s, "completed")
    <3>1. /\ Len(t) = Len(s) /\ DOMAIN t = DOMAIN s
          /\ \A i \in DOMAIN s : i # Len(s) => t[i] = s[i]
          /\ t[Len(s)] = [worker |-> s[Len(s)].worker, outcome |-> "completed"]
      BY <1>1, <2>2, AnnotateProperties DEF AttemptOutcome
    <3>2. t # <<>>
      BY <2>2, <3>1
    <3>3. \A i \in DOMAIN t : t[i].outcome = "completed" => i = Len(t)
      BY <3>1, <2>1
    <3> HIDE DEF t
    <3> QED
      BY <3>1, <3>2, <3>3, CreatedJobsFields DEF t
  <2>4. Sound(CreateFailedJob(job))
    <3> DEFINE t == AnnotateLatestAttempt(s, "failed")
    <3>1. /\ Len(t) = Len(s) /\ DOMAIN t = DOMAIN s
          /\ \A i \in DOMAIN s : i # Len(s) => t[i] = s[i]
          /\ t[Len(s)] = [worker |-> s[Len(s)].worker, outcome |-> "failed"]
      BY <1>1, <2>2, AnnotateProperties DEF AttemptOutcome
    <3>2. \A i \in DOMAIN t : t[i].outcome # "completed"
      BY <3>1, <2>1
    <3>3. CreateFailedJob(job).status \in {"queued", "dead-lettered"}
      BY CreatedJobsFields
    <3>4. CreateFailedJob(job).attempts = t
      BY CreatedJobsFields
    <3> HIDE DEF t
    <3> QED
      BY <3>2, <3>3, <3>4
  <2> QED
    BY <2>3, <2>4
<1>6. ASSUME job.status = "dead-lettered", NEW budget \in Nat, NEW delay \in Nat
      PROVE  Sound(CreateReplayedDeadLetterJob(job, budget, delay))
  BY <1>6, CreatedJobsFields
<1> QED
  BY <1>2, <1>3, <1>4, <1>5, <1>6

JobsSound == \A j \in JobId : Sound(jobs[j])

(* What the passing of time leaves alone in a record.                      *)
LEMMA TickKeeps ==
  ASSUME TypeOK, Tick, NEW j \in JobId
  PROVE  /\ jobs'[j].status = jobs[j].status
         /\ jobs'[j].attempts = jobs[j].attempts
         /\ jobs'[j].leaseOwnerId = jobs[j].leaseOwnerId
<1>1. jobs[j] \in Job
  BY DEF TypeOK
<1>2. jobs'[j] = [jobs[j] EXCEPT !.leaseLeft = Left(@), !.delayLeft = Left(@)]
  BY DEF Tick
<1> QED
  BY <1>1, <1>2 DEF Job

LEMMA NextKeepsJobsSound ==
  TypeOK /\ JobsSound /\ AttemptAuthority /\ [Next]_vars => JobsSound'
<1> SUFFICES ASSUME TypeOK, JobsSound, AttemptAuthority, [Next]_vars,
                    NEW k \in JobId
             PROVE  Sound(jobs[k])'
  BY DEF JobsSound
<1> USE RunQueueAssumption
<1>0. /\ jobs \in [JobId -> Job] /\ workers \in [Worker -> WorkerState]
      /\ jobs[k] \in Job /\ Sound(jobs[k])
      /\ \A w \in Worker : workers[w].pc # "idle" => workers[w].job \in JobId
  BY DEF TypeOK, JobsSound
<1>s. jobs'[k] = jobs[k] => Sound(jobs[k])'
  BY <1>0 DEF Sound, RecordConsistent, LastAttemptCompletes
<1>1. ASSUME NEW j \in JobId, NEW time \in JobId, Enqueue(j, time)
      PROVE  Sound(jobs'[k])
  <2>1. jobs'[k] = jobs[k] \/ jobs'[k] = CreateQueuedJob(time)
    BY <1>0, <1>1 DEF Enqueue
  <2> QED
    BY <1>0, <2>1, CreatedJobsSound
<1>2. ASSUME NEW w \in Worker, NEW j \in JobId, Claim(w, j)
      PROVE  Sound(jobs'[k])
  <2>1. \/ jobs'[k] = jobs[k]
        \/ j = k /\ jobs'[k] = CreateLeasedJob(jobs[k], w)
    BY <1>0, <1>2 DEF Claim
  <2>2. jobs[j].status \in {"queued", "leased"}
    BY <1>2 DEF Claim, IsClaimCandidate, JobIsClaimEligible
  <2> QED
    BY <1>0, <2>1, <2>2, CreatedJobsSound
<1>3. ASSUME NEW w \in Worker, Heartbeat(w) PROVE Sound(jobs'[k])
  <2>1. jobs'[k] = jobs[k] \/ jobs'[k] = CreateRenewedLeaseJob(jobs[k])
    BY <1>0, <1>3 DEF Heartbeat
  <2> QED
    BY <1>0, <2>1, CreatedJobsSound
<1>4. ASSUME NEW w \in Worker, RecordCompletion(w) PROVE Sound(jobs'[k])
  <2>1. \/ jobs'[k] = jobs[k]
        \/ jobs[k].status = "leased" /\ jobs'[k] = CreateCompletedJob(jobs[k])
    BY <1>0, <1>4 DEF RecordCompletion, Owns, RequestOwnsLease
  <2> QED
    BY <1>0, <2>1, CreatedJobsSound
<1>5. ASSUME NEW w \in Worker, RecordFailure(w) PROVE Sound(jobs'[k])
  <2>1. \/ jobs'[k] = jobs[k]
        \/ jobs[k].status = "leased" /\ jobs'[k] = CreateFailedJob(jobs[k])
    BY <1>0, <1>5 DEF RecordFailure, Owns, RequestOwnsLease
  <2> QED
    BY <1>0, <2>1, CreatedJobsSound
<1>6. ASSUME NEW j \in JobId, NEW budget \in ReplayBudgets \cup {0},
             NEW delay \in {0, RetryDelay}, ReplayDeadLetter(j, budget, delay)
      PROVE  Sound(jobs'[k])
  <2>1. budget \in Nat /\ delay \in Nat
    OBVIOUS
  <2>2. \/ jobs'[k] = jobs[k]
        \/ /\ jobs[k].status = "dead-lettered"
           /\ jobs'[k] = CreateReplayedDeadLetterJob(jobs[k], budget, delay)
    BY <1>0, <1>6 DEF ReplayDeadLetter
  <2> QED
    BY <1>0, <2>1, <2>2, CreatedJobsSound
<1>7. ASSUME Tick PROVE Sound(jobs'[k])
  <2>1. jobs'[k].status = jobs[k].status /\ jobs'[k].attempts = jobs[k].attempts
    BY <1>7, TickKeeps
  <2> QED
    BY <1>0, <2>1 DEF Sound, RecordConsistent, LastAttemptCompletes
<1>8. ASSUME NEW w \in Worker, NEW error \in BOOLEAN,
             HeartbeatThrows(w) \/ RunSettles(w, error) \/ Crash(w)
      PROVE  Sound(jobs'[k])
  BY <1>0, <1>8 DEF HeartbeatThrows, RunSettles, Crash
<1>9. CASE UNCHANGED vars
  BY <1>0, <1>9 DEF vars
<1>10. Sound(jobs'[k])
  BY <1>1, <1>2, <1>3, <1>4, <1>5, <1>6, <1>7, <1>8, <1>9, TRUE \in BOOLEAN DEF Next
<1> QED
  BY <1>10 DEF Sound, RecordConsistent, LastAttemptCompletes

-----------------------------------------------------------------------------
(* The authority of an attempt's worker.                                   *)

Authority(w) ==
  LET job == jobs[workers[w].job] IN
    /\ workers[w].attempt \in DOMAIN job.attempts
    /\ job.attempts[workers[w].attempt] = [worker |-> w, outcome |-> "open"]
    /\ Owns(w) \/ workers[w].attempt < AttemptCount(job)

(* A busy worker keeps its authority when its own local job and attempt do *)
(* not change and its job's record keeps the worker's attempt, and either  *)
(* keeps the status, owner and length or adds to or settles a later one.   *)
LEMMA AuthorityKept ==
  ASSUME NEW v \in Worker, Authority(v),
         workers'[v].job = workers[v].job,
         workers'[v].attempt = workers[v].attempt,
         LET old == jobs[workers[v].job]
             new == jobs'[workers[v].job]
             a == workers[v].attempt
         IN /\ a \in DOMAIN old.attempts =>
                 a \in DOMAIN new.attempts /\ new.attempts[a] = old.attempts[a]
            /\ \/ /\ new.status = old.status
                  /\ new.leaseOwnerId = old.leaseOwnerId
                  /\ new.attempts = old.attempts
               \/ a < Len(new.attempts)
  PROVE  Authority(v)'
  BY DEF Authority, Owns, RequestOwnsLease, AttemptCount

LEMMA NextKeepsAuthority ==
  TypeOK /\ JobsSound /\ AttemptAuthority /\ [Next]_vars => AttemptAuthority'
<1> SUFFICES ASSUME TypeOK, JobsSound, AttemptAuthority, [Next]_vars,
                    NEW v \in Worker, workers'[v].pc # "idle"
             PROVE  Authority(v)'
  BY DEF AttemptAuthority, Authority
<1> USE RunQueueAssumption
<1> DEFINE k == workers[v].job
           a == workers[v].attempt
<1>0. /\ jobs \in [JobId -> Job] /\ workers \in [Worker -> WorkerState]
      /\ \A w \in Worker : workers[w].pc # "idle" =>
           workers[w].job \in JobId /\ Authority(w)
  BY DEF TypeOK, AttemptAuthority, Authority
<1>j. ASSUME NEW j \in JobId
      PROVE  /\ jobs[j] \in Job /\ Sound(jobs[j])
             /\ jobs[j].attempts \in Seq(Attempt)
             /\ DOMAIN jobs[j].attempts = 1..Len(jobs[j].attempts)
             /\ Len(jobs[j].attempts) \in Nat
  <2>1. jobs[j] \in Job /\ Sound(jobs[j])
    BY <1>0 DEF JobsSound
  <2>2. jobs[j].attempts \in Seq(Attempt)
    BY <2>1 DEF Job
  <2> QED
    BY <2>1, <2>2
<1>1. ASSUME NEW j \in JobId, NEW time \in JobId, Enqueue(j, time)
      PROVE  Authority(v)'
  <2>1. workers' = workers /\ k \in JobId /\ Authority(v)
    BY <1>0, <1>1 DEF Enqueue, faults
  <2>2. jobs[j].attempts = <<>>
    BY <1>1, <1>j DEF Enqueue, Sound, RecordConsistent
  <2>3. j # k
    BY <1>j, <2>1, <2>2 DEF Authority
  <2>4. jobs'[k] = jobs[k]
    BY <1>0, <1>1, <2>1, <2>3 DEF Enqueue
  <2> QED
    BY <2>1, <2>4, AuthorityKept
<1>2. ASSUME NEW w \in Worker, NEW j \in JobId, Claim(w, j)
      PROVE  Authority(v)'
  <2> DEFINE s == jobs[j].attempts
             e == [worker |-> w, outcome |-> "open"]
  <2>1. /\ jobs' = [jobs EXCEPT ![j] = CreateLeasedJob(jobs[j], w)]
        /\ \A u \in Worker : u # w => workers'[u] = workers[u]
        /\ workers'[w].job = j /\ workers'[w].attempt = Len(s) + 1
    BY <1>0, <1>2 DEF Claim, AttemptCount
  <2>2. /\ jobs'[j].status = "leased" /\ jobs'[j].leaseOwnerId = w
        /\ jobs'[j].attempts = Append(s, e)
    BY <1>0, <1>j, <2>1, CreatedJobsFields
  <2>3. e \in Attempt
    BY DEF Attempt
  <2>4. /\ Len(Append(s, e)) = Len(s) + 1
        /\ DOMAIN Append(s, e) = 1..(Len(s) + 1)
        /\ Append(s, e)[Len(s) + 1] = e
        /\ \A i \in 1..Len(s) : Append(s, e)[i] = s[i]
    BY <1>j, <2>3
  <2>5. CASE v = w
    <3>1. Len(s) + 1 \in 1..(Len(s) + 1)
      BY <1>j
    <3> QED
      BY <2>1, <2>2, <2>4, <2>5, <3>1 DEF Authority, Owns, RequestOwnsLease, AttemptCount
  <2>6. CASE v # w
    <3>1. workers'[v] = workers[v] /\ k \in JobId /\ Authority(v)
      BY <1>0, <2>1, <2>6
    <3>2. CASE k # j
      <4>1. jobs'[k] = jobs[k]
        BY <1>0, <2>1, <3>1, <3>2
      <4> QED
        BY <3>1, <4>1, AuthorityKept
    <3>3. CASE k = j
      <4>1. a \in 1..Len(s)
        BY <1>j, <3>1, <3>3 DEF Authority
      <4>2. a < Len(jobs'[k].attempts) /\ a \in DOMAIN jobs'[k].attempts
        BY <1>j, <2>2, <2>4, <3>3, <4>1
      <4>3. jobs'[k].attempts[a] = jobs[k].attempts[a]
        BY <2>2, <2>4, <3>3, <4>1
      <4> QED
        BY <3>1, <4>2, <4>3, AuthorityKept
    <3> QED
      BY <3>2, <3>3
  <2> QED
    BY <2>5, <2>6
<1>3. ASSUME NEW w \in Worker, Heartbeat(w) PROVE Authority(v)'
  <2>1. \A u \in Worker : /\ workers'[u].pc = workers[u].pc
                         /\ workers'[u].job = workers[u].job
                         /\ workers'[u].attempt = workers[u].attempt
    BY <1>0, <1>3 DEF Heartbeat, WorkerState
  <2>2. k \in JobId /\ Authority(v)
    BY <1>0, <2>1
  <2>3. jobs'[k] = jobs[k] \/ jobs'[k] = CreateRenewedLeaseJob(jobs[k])
    BY <1>0, <1>3, <2>2 DEF Heartbeat
  <2>4. /\ jobs'[k].status = jobs[k].status
        /\ jobs'[k].leaseOwnerId = jobs[k].leaseOwnerId
        /\ jobs'[k].attempts = jobs[k].attempts
    <3>1. jobs[k] \in Job
      BY <1>j, <2>2
    <3>2. /\ CreateRenewedLeaseJob(jobs[k]).status = jobs[k].status
          /\ CreateRenewedLeaseJob(jobs[k]).leaseOwnerId = jobs[k].leaseOwnerId
          /\ CreateRenewedLeaseJob(jobs[k]).attempts = jobs[k].attempts
      BY <3>1, CreatedJobsFields
    <3> QED
      BY <2>3, <3>2
  <2> QED
    BY <2>1, <2>2, <2>4, AuthorityKept
<1>4. ASSUME NEW w \in Worker, HeartbeatThrows(w) PROVE Authority(v)'
  <2>1. \A u \in Worker : /\ workers'[u].pc = workers[u].pc
                         /\ workers'[u].job = workers[u].job
                         /\ workers'[u].attempt = workers[u].attempt
    BY <1>0, <1>4 DEF HeartbeatThrows, WorkerState
  <2>2. k \in JobId /\ Authority(v) /\ jobs' = jobs
    BY <1>0, <1>4, <2>1 DEF HeartbeatThrows
  <2> QED
    BY <2>1, <2>2, AuthorityKept
<1>5. ASSUME NEW w \in Worker, NEW error \in BOOLEAN, RunSettles(w, error)
      PROVE  Authority(v)'
  <2>1. \A u \in Worker : /\ workers'[u].pc # "idle" => workers[u].pc # "idle"
                         /\ workers'[u].job = workers[u].job
                         /\ workers'[u].attempt = workers[u].attempt
    BY <1>0, <1>5 DEF RunSettles, WorkerState
  <2>2. k \in JobId /\ Authority(v) /\ jobs' = jobs
    BY <1>0, <1>5, <2>1 DEF RunSettles
  <2> QED
    BY <2>1, <2>2, AuthorityKept
<1>6. ASSUME NEW w \in Worker, RecordCompletion(w) \/ RecordFailure(w)
      PROVE  Authority(v)'
  <2> DEFINE j == workers[w].job
             s == jobs[j].attempts
  <2>0. j \in JobId
    BY <1>0, <1>6 DEF RecordCompletion, RecordFailure
  <2>1. /\ v # w /\ workers'[v] = workers[v]
        /\ workers[v].pc # "idle"
    BY <1>0, <1>6 DEF RecordCompletion, RecordFailure, IdleWorker
  <2>2. k \in JobId /\ Authority(v)
    BY <1>0, <2>1
  <2>3. CASE jobs'[k] = jobs[k]
    BY <2>1, <2>2, <2>3, AuthorityKept
  <2>4. CASE jobs'[k] # jobs[k]
    <3>1. /\ k = j /\ Owns(w)
          /\ \/ jobs'[j] = CreateCompletedJob(jobs[j])
             \/ jobs'[j] = CreateFailedJob(jobs[j])
      BY <1>0, <1>6, <2>0, <2>2, <2>4 DEF RecordCompletion, RecordFailure
    <3>2. \E o \in AttemptOutcome : jobs'[j].attempts = AnnotateLatestAttempt(s, o)
      <4>1. jobs[j] \in Job
        BY <1>j, <2>0
      <4>2. /\ CreateCompletedJob(jobs[j]).attempts = AnnotateLatestAttempt(s, "completed")
            /\ CreateFailedJob(jobs[j]).attempts = AnnotateLatestAttempt(s, "failed")
        BY <4>1, CreatedJobsFields
      <4> QED
        BY <3>1, <4>2 DEF AttemptOutcome
    <3>3. PICK o \in AttemptOutcome : jobs'[j].attempts = AnnotateLatestAttempt(s, o)
      BY <3>2
    <3>4. a < Len(s) /\ a \in 1..Len(s)
      <4>1. ~Owns(v)
        BY <2>1, <3>1 DEF Owns, RequestOwnsLease
      <4> QED
        BY <1>j, <2>2, <3>1, <4>1 DEF Authority, AttemptCount
    <3>5. /\ Len(AnnotateLatestAttempt(s, o)) = Len(s)
          /\ DOMAIN AnnotateLatestAttempt(s, o) = DOMAIN s
          /\ \A i \in DOMAIN s : i # Len(s) => AnnotateLatestAttempt(s, o)[i] = s[i]
      BY <1>j, <2>0, AnnotateProperties
    <3>6. /\ a < Len(jobs'[k].attempts) /\ a \in DOMAIN jobs'[k].attempts
          /\ jobs'[k].attempts[a] = jobs[k].attempts[a]
      BY <1>j, <2>0, <3>1, <3>3, <3>4, <3>5
    <3> QED
      BY <2>1, <2>2, <3>6, AuthorityKept
  <2> QED
    BY <2>3, <2>4
<1>7. ASSUME NEW w \in Worker, Crash(w) PROVE Authority(v)'
  <2>1. workers'[v] = workers[v] /\ workers[v].pc # "idle" /\ jobs' = jobs
    BY <1>0, <1>7 DEF Crash, IdleWorker
  <2> QED
    BY <1>0, <2>1, AuthorityKept
<1>8. ASSUME NEW j \in JobId, NEW budget \in ReplayBudgets \cup {0},
             NEW delay \in {0, RetryDelay}, ReplayDeadLetter(j, budget, delay)
      PROVE  Authority(v)'
  <2>0. budget \in Nat /\ delay \in Nat
    OBVIOUS
  <2>1. workers' = workers /\ k \in JobId /\ Authority(v)
    BY <1>0, <1>8 DEF ReplayDeadLetter, faults
  <2>2. CASE k # j
    <3>1. jobs'[k] = jobs[k]
      BY <1>0, <1>8, <2>1, <2>2 DEF ReplayDeadLetter
    <3> QED
      BY <2>1, <3>1, AuthorityKept
  <2>3. CASE k = j
    <3>1. jobs'[k].attempts = jobs[k].attempts
      BY <1>0, <1>8, <1>j, <2>0, <2>1, <2>3, CreatedJobsFields DEF ReplayDeadLetter
    <3>2. a < Len(jobs[k].attempts)
      BY <1>8, <2>1, <2>3
         DEF ReplayDeadLetter, Authority, Owns, RequestOwnsLease, AttemptCount
    <3> QED
      BY <2>1, <3>1, <3>2, AuthorityKept
  <2> QED
    BY <2>2, <2>3
<1>9. ASSUME Tick PROVE Authority(v)'
  <2>1. /\ workers'[v].pc = workers[v].pc
        /\ workers'[v].job = workers[v].job
        /\ workers'[v].attempt = workers[v].attempt
    BY <1>0, <1>9 DEF Tick, WorkerState
  <2>2. k \in JobId /\ Authority(v)
    BY <1>0, <2>1
  <2> QED
    BY <1>9, <2>1, <2>2, TickKeeps, AuthorityKept
<1>10. CASE UNCHANGED vars
  <2>1. workers' = workers /\ jobs' = jobs
    BY <1>10 DEF vars
  <2> QED
    BY <1>0, <2>1, AuthorityKept
<1> QED
  BY <1>1, <1>2, <1>3, <1>4, <1>5, <1>6, <1>7, <1>8, <1>9, <1>10 DEF Next

LEMMA InitQueueInv == Init => QueueInv
<1> SUFFICES ASSUME Init PROVE QueueInv
  OBVIOUS
<1>1. TypeOK
  BY InitTyped
<1>2. \A j \in JobId : jobs[j].status = "absent" /\ jobs[j].attempts = <<>>
  BY DEF Init, AbsentJob
<1>3. RecordsConsistent /\ CompletedByLastAttempt
  BY <1>2 DEF RecordsConsistent, RecordConsistent,
              CompletedByLastAttempt, LastAttemptCompletes
<1>4. AttemptAuthority
  BY DEF Init, IdleWorker, AttemptAuthority
<1> QED
  BY <1>1, <1>3, <1>4 DEF QueueInv

LEMMA NextKeepsQueueInv == QueueInv /\ [Next]_vars => QueueInv'
<1> SUFFICES ASSUME QueueInv, [Next]_vars PROVE QueueInv'
  OBVIOUS
<1>1. TypeOK /\ JobsSound /\ AttemptAuthority
  BY DEF QueueInv, JobsSound, Sound, RecordsConsistent, CompletedByLastAttempt
<1>2. TypeOK' /\ JobsSound' /\ AttemptAuthority'
  BY <1>1, NextTyped, NextKeepsJobsSound, NextKeepsAuthority
<1> QED
  BY <1>2 DEF QueueInv, JobsSound, Sound, RecordsConsistent, CompletedByLastAttempt

(* The inductive invariant of the queue.                                   *)
THEOREM QueueInvariant == Spec => []QueueInv
  BY InitQueueInv, NextKeepsQueueInv, PTL DEF Spec

(* Whatever crashes, expires, is renewed late or replayed, the attempt of a *)
(* busy worker is either still its own lease or superseded, never settled   *)
(* by another.                                                              *)
THEOREM AttemptsHaveAuthority == Spec => []AttemptAuthority
<1>1. QueueInv => AttemptAuthority
  BY DEF QueueInv
<1> QED
  BY <1>1, QueueInvariant, PTL

(* A job is completed by its last attempt and by no other.                 *)
THEOREM SingleCompletion == Spec => []CompletedByLastAttempt
<1>1. QueueInv => CompletedByLastAttempt
  BY DEF QueueInv
<1> QED
  BY <1>1, QueueInvariant, PTL

-----------------------------------------------------------------------------
(***************************************************************************)
(* The records.  One lemma about steps carries this part: each step leaves *)
(* the records alone, lets time pass for all of them, or replaces one      *)
(* record by what a repository operation makes of it.                      *)
(***************************************************************************)

(* What a repository operation may make of a record.                       *)
Changes(old, new) ==
  \/ old.status = "absent" /\ \E time \in Nat : new = CreateQueuedJob(time)
  \/ /\ old.status \in {"queued", "leased"}
     /\ \E w \in Worker : new = CreateLeasedJob(old, w)
  \/ old.status = "leased" /\ new = CreateRenewedLeaseJob(old)
  \/ old.status = "leased" /\ new = CreateCompletedJob(old)
  \/ old.status = "leased" /\ new = CreateFailedJob(old)
  \/ /\ old.status = "dead-lettered"
     /\ \E budget, delay \in Nat : new = CreateReplayedDeadLetterJob(old, budget, delay)

Aged(job) == [job EXCEPT !.leaseLeft = Left(@), !.delayLeft = Left(@)]

ChangesOne == \E j \in JobId :
  Changes(jobs[j], jobs'[j]) /\ jobs' = [jobs EXCEPT ![j] = jobs'[j]]

AgesAll == jobs' = [j \in JobId |-> Aged(jobs[j])]

LEMMA StepsOfTheQueue ==
  ASSUME TypeOK, [Next]_vars
  PROVE  UNCHANGED jobs \/ AgesAll \/ ChangesOne
<1> USE RunQueueAssumption
<1>0. /\ jobs \in [JobId -> Job] /\ workers \in [Worker -> WorkerState]
      /\ \A w \in Worker : workers[w].pc # "idle" => workers[w].job \in JobId
  BY DEF TypeOK
<1>1. ASSUME NEW j \in JobId, NEW time \in JobId, Enqueue(j, time)
      PROVE  ChangesOne
  BY <1>0, <1>1 DEF Enqueue, ChangesOne, Changes
<1>2. ASSUME NEW w \in Worker, NEW j \in JobId, Claim(w, j)
      PROVE  ChangesOne
  <2>1. jobs[j].status \in {"queued", "leased"}
    BY <1>2 DEF Claim, IsClaimCandidate, JobIsClaimEligible
  <2>2. jobs' = [jobs EXCEPT ![j] = CreateLeasedJob(jobs[j], w)]
    BY <1>2 DEF Claim
  <2> QED
    BY <1>0, <2>1, <2>2 DEF ChangesOne, Changes
<1>3. ASSUME NEW w \in Worker, Heartbeat(w)
      PROVE  UNCHANGED jobs \/ ChangesOne
  <2> DEFINE j == workers[w].job
  <2>1. j \in JobId
    BY <1>0, <1>3 DEF Heartbeat
  <2>2. \/ UNCHANGED jobs
        \/ /\ jobs[j].status = "leased"
           /\ jobs' = [jobs EXCEPT ![j] = CreateRenewedLeaseJob(jobs[j])]
    BY <1>3 DEF Heartbeat, Owns, RequestOwnsLease
  <2> QED
    BY <1>0, <2>1, <2>2 DEF ChangesOne, Changes
<1>4. ASSUME NEW w \in Worker, RecordCompletion(w)
      PROVE  UNCHANGED jobs \/ ChangesOne
  <2> DEFINE j == workers[w].job
  <2>1. j \in JobId
    BY <1>0, <1>4 DEF RecordCompletion
  <2>2. \/ UNCHANGED jobs
        \/ /\ jobs[j].status = "leased"
           /\ jobs' = [jobs EXCEPT ![j] = CreateCompletedJob(jobs[j])]
    BY <1>4 DEF RecordCompletion, Owns, RequestOwnsLease
  <2> QED
    BY <1>0, <2>1, <2>2 DEF ChangesOne, Changes
<1>5. ASSUME NEW w \in Worker, RecordFailure(w)
      PROVE  UNCHANGED jobs \/ ChangesOne
  <2> DEFINE j == workers[w].job
  <2>1. j \in JobId
    BY <1>0, <1>5 DEF RecordFailure
  <2>2. \/ UNCHANGED jobs
        \/ /\ jobs[j].status = "leased"
           /\ jobs' = [jobs EXCEPT ![j] = CreateFailedJob(jobs[j])]
    BY <1>5 DEF RecordFailure, Owns, RequestOwnsLease
  <2> QED
    BY <1>0, <2>1, <2>2 DEF ChangesOne, Changes
<1>6. ASSUME NEW j \in JobId, NEW budget \in ReplayBudgets \cup {0},
             NEW delay \in {0, RetryDelay}, ReplayDeadLetter(j, budget, delay)
      PROVE  ChangesOne
  <2>1. budget \in Nat /\ delay \in Nat
    OBVIOUS
  <2>2. /\ jobs[j].status = "dead-lettered"
        /\ jobs' = [jobs EXCEPT ![j] =
                      CreateReplayedDeadLetterJob(jobs[j], budget, delay)]
    BY <1>6 DEF ReplayDeadLetter
  <2> QED
    BY <1>0, <2>1, <2>2 DEF ChangesOne, Changes
<1>7. Tick => AgesAll
  BY DEF Tick, AgesAll, Aged
<1>8. ASSUME NEW w \in Worker, NEW error \in BOOLEAN,
             HeartbeatThrows(w) \/ RunSettles(w, error) \/ Crash(w)
      PROVE  UNCHANGED jobs
  BY <1>8 DEF HeartbeatThrows, RunSettles, Crash
<1>9. UNCHANGED vars => UNCHANGED jobs
  BY DEF vars
<1> QED
  BY <1>1, <1>2, <1>3, <1>4, <1>5, <1>6, <1>7, <1>8, <1>9, TRUE \in BOOLEAN DEF Next

(* Time leaves alone what the ledger is about.                             *)
LEMMA AgedKeeps ==
  ASSUME NEW job \in Job
  PROVE  Aged(job).status = job.status /\ Aged(job).attempts = job.attempts
BY DEF Aged, Job

-----------------------------------------------------------------------------
(* The refinement.                                                         *)

(* The steps of the ledger, for one job: from p, b and a to q, c and d.     *)
LedgerStep(p, b, a, q, c, d) ==
  \/ p = "absent" /\ q = "pending" /\ c = b /\ d = a
  \/ p = "pending" /\ q = "pending" /\ c = b + 1 /\ d = a
  \/ p = "pending" /\ b > 0 /\ q = "done" /\ c = b /\ d = {b}
  \/ p = "pending" /\ b >= MaxAttempts /\ q = "dead" /\ c = b /\ d = a
  \/ p = "dead" /\ q = "pending" /\ c = b /\ d = a
  \/ q = p /\ c = b /\ d = a

LEMMA ChangesAreLedgerSteps ==
  ASSUME NEW old \in Job, NEW new, Sound(old), Changes(old, new)
  PROVE  LedgerStep(Phase(old.status), AttemptCount(old), CompletedAttempts(old),
                    Phase(new.status), AttemptCount(new), CompletedAttempts(new))
<1> USE RunQueueAssumption
<1> DEFINE s == old.attempts
           Step == LedgerStep(
             Phase(old.status), AttemptCount(old), CompletedAttempts(old),
             Phase(new.status), AttemptCount(new), CompletedAttempts(new))
<1>0. s \in Seq(Attempt) /\ DOMAIN s = 1..Len(s) /\ Len(s) \in Nat
  BY DEF Job
<1>a. old.status # "completed" => CompletedAttempts(old) = {}
  BY DEF Sound, LastAttemptCompletes, CompletedAttempts
<1>b. old.status = "leased" => Len(s) \in DOMAIN s /\ Len(s) > 0
  BY <1>0 DEF Sound, RecordConsistent
<1>p. /\ Phase("absent") = "absent" /\ Phase("queued") = "pending"
      /\ Phase("leased") = "pending" /\ Phase("completed") = "done"
      /\ Phase("dead-lettered") = "dead"
  BY DEF Phase
<1>1. ASSUME old.status = "absent", NEW time \in Nat, new = CreateQueuedJob(time)
      PROVE  Step
  <2>1. new.status = "queued" /\ new.attempts = << >>
    BY <1>1, CreatedJobsFields
  <2>2. s = << >>
    BY <1>1 DEF Sound, RecordConsistent
  <2>3. AttemptCount(new) = AttemptCount(old)
    BY <2>1, <2>2 DEF AttemptCount
  <2>4. CompletedAttempts(new) = CompletedAttempts(old)
    BY <2>1, <2>2 DEF CompletedAttempts
  <2> QED
    BY <1>1, <1>p, <2>1, <2>3, <2>4 DEF LedgerStep
<1>2. ASSUME old.status \in {"queued", "leased"}, NEW w \in Worker,
             new = CreateLeasedJob(old, w)
      PROVE  Step
  <2> DEFINE e == [worker |-> w, outcome |-> "open"]
  <2>1. new.status = "leased" /\ new.attempts = Append(s, e)
    BY <1>2, CreatedJobsFields
  <2>2. e \in Attempt
    BY DEF Attempt
  <2>3. /\ Len(Append(s, e)) = Len(s) + 1
        /\ DOMAIN Append(s, e) = 1..(Len(s) + 1)
        /\ Append(s, e)[Len(s) + 1] = e
        /\ \A i \in 1..Len(s) : Append(s, e)[i] = s[i]
    BY <1>0, <2>2
  <2>4. \A i \in DOMAIN s : s[i].outcome # "completed"
    BY <1>2, <1>a DEF CompletedAttempts
  <2>5. CompletedAttempts(new) = {}
    BY <1>0, <2>1, <2>3, <2>4 DEF CompletedAttempts
  <2>6. AttemptCount(new) = AttemptCount(old) + 1
    BY <2>1, <2>3 DEF AttemptCount
  <2>7. CompletedAttempts(old) = {}
    BY <1>2, <1>a
  <2> QED
    BY <1>2, <1>p, <2>1, <2>5, <2>6, <2>7 DEF LedgerStep
<1>3. ASSUME old.status = "leased", new = CreateRenewedLeaseJob(old) PROVE Step
  <2>1. new.status = old.status /\ new.attempts = s
    BY <1>3, CreatedJobsFields
  <2> QED
    BY <2>1 DEF LedgerStep, AttemptCount, CompletedAttempts
<1>4. ASSUME old.status = "leased", new = CreateCompletedJob(old) PROVE Step
  <2> DEFINE t == AnnotateLatestAttempt(s, "completed")
  <2>1. new.status = "completed" /\ new.attempts = t
    BY <1>4, CreatedJobsFields
  <2>2. /\ Len(t) = Len(s) /\ DOMAIN t = DOMAIN s
        /\ \A i \in DOMAIN s : i # Len(s) => t[i] = s[i]
        /\ t[Len(s)] = [worker |-> s[Len(s)].worker, outcome |-> "completed"]
    BY <1>0, <1>4, <1>b, AnnotateProperties DEF AttemptOutcome
  <2>3. \A i \in DOMAIN s : s[i].outcome # "completed"
    BY <1>4, <1>a DEF CompletedAttempts
  <2> HIDE DEF t
  <2>4. CompletedAttempts(new) = {Len(s)}
    BY <1>4, <1>b, <2>1, <2>2, <2>3 DEF CompletedAttempts
  <2>5. AttemptCount(new) = Len(s) /\ AttemptCount(old) = Len(s) /\ Len(s) > 0
    BY <1>4, <1>b, <2>1, <2>2 DEF AttemptCount
  <2> QED
    BY <1>4, <1>p, <2>1, <2>4, <2>5 DEF LedgerStep
<1>5. ASSUME old.status = "leased", new = CreateFailedJob(old) PROVE Step
  <2> DEFINE t == AnnotateLatestAttempt(s, "failed")
  <2>1. new.attempts = t
    BY <1>5, CreatedJobsFields
  <2>2. /\ Len(t) = Len(s) /\ DOMAIN t = DOMAIN s
        /\ \A i \in DOMAIN s : i # Len(s) => t[i] = s[i]
        /\ t[Len(s)] = [worker |-> s[Len(s)].worker, outcome |-> "failed"]
    BY <1>0, <1>5, <1>b, AnnotateProperties DEF AttemptOutcome
  <2>3. \A i \in DOMAIN s : s[i].outcome # "completed"
    BY <1>5, <1>a DEF CompletedAttempts
  <2> HIDE DEF t
  <2>4. CompletedAttempts(new) = {} /\ CompletedAttempts(old) = {}
    BY <1>5, <1>a, <2>1, <2>2, <2>3 DEF CompletedAttempts
  <2>5. AttemptCount(new) = AttemptCount(old) /\ AttemptCount(old) \in Nat
    BY <1>0, <2>1, <2>2 DEF AttemptCount
  <2>6. \/ AttemptCount(old) < MaxAttempts /\ new.status = "queued"
        \/ AttemptCount(old) >= MaxAttempts /\ new.status = "dead-lettered"
    BY <1>5, <2>5, CreatedJobsFields
  <2> QED
    BY <1>5, <1>p, <2>4, <2>5, <2>6 DEF LedgerStep
<1>6. ASSUME old.status = "dead-lettered", NEW budget \in Nat, NEW delay \in Nat,
             new = CreateReplayedDeadLetterJob(old, budget, delay)
      PROVE  Step
  <2>1. new.status = "queued" /\ new.attempts = s
    BY <1>6, CreatedJobsFields
  <2> QED
    BY <1>6, <1>p, <2>1 DEF LedgerStep, AttemptCount, CompletedAttempts
<1> QED
  BY <1>1, <1>2, <1>3, <1>4, <1>5, <1>6 DEF Changes

(* What does not change in any job does not change in the ledger.          *)
LEMMA LedgerStutter ==
  ASSUME \A j \in JobId :
           /\ Phase(jobs'[j].status) = Phase(jobs[j].status)
           /\ AttemptCount(jobs'[j]) = AttemptCount(jobs[j])
           /\ CompletedAttempts(jobs'[j]) = CompletedAttempts(jobs[j])
  PROVE  UNCHANGED Ledger!ledgerVars
BY DEF Ledger!ledgerVars

LEMMA ChangeOneInLedger ==
  ASSUME QueueInv, ChangesOne
  PROVE  Ledger!Next \/ UNCHANGED Ledger!ledgerVars
<1> DEFINE phase == [j \in JobId |-> Phase(jobs[j].status)]
           begun == [j \in JobId |-> AttemptCount(jobs[j])]
           accepted == [j \in JobId |-> CompletedAttempts(jobs[j])]
<1>0. jobs \in [JobId -> Job]
  BY DEF QueueInv, TypeOK
<1>1. PICK j \in JobId :
        Changes(jobs[j], jobs'[j]) /\ jobs' = [jobs EXCEPT ![j] = jobs'[j]]
  BY DEF ChangesOne
<1>2. \A i \in JobId : i # j => jobs'[i] = jobs[i]
  BY <1>0, <1>1
<1>3. Sound(jobs[j]) /\ jobs[j] \in Job
  BY <1>0 DEF QueueInv, RecordsConsistent, CompletedByLastAttempt, Sound
<1> DEFINE p == Phase(jobs'[j].status)
           b == AttemptCount(jobs'[j])
           a == CompletedAttempts(jobs'[j])
<1>4. LedgerStep(phase[j], begun[j], accepted[j], p, b, a)
  BY <1>1, <1>3, ChangesAreLedgerSteps
<1>5. /\ phase' = [phase EXCEPT ![j] = p]
      /\ begun' = [begun EXCEPT ![j] = b]
      /\ accepted' = [accepted EXCEPT ![j] = a]
  BY <1>2
<1> HIDE DEF phase, begun, accepted, p, b, a
<1>6. phase = [phase EXCEPT ![j] = phase[j]]
      /\ begun = [begun EXCEPT ![j] = begun[j]]
      /\ accepted = [accepted EXCEPT ![j] = accepted[j]]
  BY DEF phase, begun, accepted
<1>7. \/ /\ phase[j] = "absent" /\ phase' = [phase EXCEPT ![j] = "pending"]
         /\ UNCHANGED <<begun, accepted>>
      \/ /\ phase[j] = "pending" /\ begun' = [begun EXCEPT ![j] = begun[j] + 1]
         /\ UNCHANGED <<phase, accepted>>
      \/ /\ phase[j] = "pending" /\ begun[j] > 0
         /\ phase' = [phase EXCEPT ![j] = "done"]
         /\ accepted' = [accepted EXCEPT ![j] = {begun[j]}]
         /\ UNCHANGED begun
      \/ /\ phase[j] = "pending" /\ begun[j] >= MaxAttempts
         /\ phase' = [phase EXCEPT ![j] = "dead"]
         /\ UNCHANGED <<begun, accepted>>
      \/ /\ phase[j] = "dead" /\ phase' = [phase EXCEPT ![j] = "pending"]
         /\ UNCHANGED <<begun, accepted>>
      \/ UNCHANGED <<phase, begun, accepted>>
  BY <1>4, <1>5, <1>6 DEF LedgerStep
<1>8. \/ Ledger!Submit(j) \/ Ledger!Begin(j) \/ Ledger!Finish(j)
      \/ Ledger!GiveUp(j) \/ Ledger!Revive(j) \/ UNCHANGED Ledger!ledgerVars
  BY <1>7 DEF Ledger!Submit, Ledger!Begin, Ledger!Finish, Ledger!GiveUp,
              Ledger!Revive, Ledger!ledgerVars, phase, begun, accepted
<1> QED
  BY <1>8 DEF Ledger!Next

(* The run queue implements the ledger: whatever is claimed twice, renewed  *)
(* late, answered late, retried or replayed, a client sees its job pending, *)
(* then done by the attempt begun last, or given up after the attempts      *)
(* allowed, and a done job stays done.                                      *)
THEOREM QueueImplementsLedger == Spec => ImplementsLedger
<1>1. Init => Ledger!Init
  <2> SUFFICES ASSUME Init PROVE Ledger!Init
    OBVIOUS
  <2>1. \A j \in JobId : jobs[j].status = "absent" /\ jobs[j].attempts = << >>
    BY DEF Init, AbsentJob
  <2>2. \A j \in JobId : /\ Phase(jobs[j].status) = "absent"
                        /\ AttemptCount(jobs[j]) = 0
                        /\ CompletedAttempts(jobs[j]) = {}
    BY <2>1 DEF Phase, AttemptCount, CompletedAttempts
  <2> QED
    BY <2>2 DEF Ledger!Init
<1>2. QueueInv /\ [Next]_vars => [Ledger!Next]_(Ledger!ledgerVars)
  <2> SUFFICES ASSUME QueueInv, [Next]_vars
               PROVE  Ledger!Next \/ UNCHANGED Ledger!ledgerVars
    OBVIOUS
  <2>1. TypeOK /\ jobs \in [JobId -> Job]
    BY DEF QueueInv, TypeOK
  <2>2. CASE UNCHANGED jobs
    BY <2>2, LedgerStutter
  <2>3. CASE AgesAll
    <3>1. \A j \in JobId : jobs'[j].status = jobs[j].status
                          /\ jobs'[j].attempts = jobs[j].attempts
      BY <2>1, <2>3, AgedKeeps DEF AgesAll
    <3> QED
      BY <3>1, LedgerStutter DEF AttemptCount, CompletedAttempts
  <2>4. CASE ChangesOne
    BY <2>4, ChangeOneInLedger
  <2> QED
    BY <2>1, <2>2, <2>3, <2>4, StepsOfTheQueue
<1> QED
  BY <1>1, <1>2, QueueInvariant, PTL DEF Spec, ImplementsLedger, Ledger!Spec

-----------------------------------------------------------------------------
(* The attempt history.                                                    *)

(* The attempts of a changed record are as before, have one open attempt     *)
(* more, or have their open last attempt settled.                            *)
AddsOpen(s, t) ==
  /\ DOMAIN s \subseteq DOMAIN t
  /\ \A i \in DOMAIN t : i \in DOMAIN s \/ t[i].outcome = "open"
  /\ \A i \in DOMAIN s : t[i] = s[i]

SettlesLast(s, t, o) ==
  /\ Len(s) \in DOMAIN s /\ s[Len(s)].outcome = "open"
  /\ DOMAIN t = DOMAIN s
  /\ \A i \in DOMAIN s : i # Len(s) => t[i] = s[i]
  /\ t[Len(s)].worker = s[Len(s)].worker
  /\ t[Len(s)].outcome = o

LEMMA AppendAddsOpen ==
  ASSUME NEW s \in Seq(Attempt), NEW w \in Worker
  PROVE  AddsOpen(s, Append(s, [worker |-> w, outcome |-> "open"]))
<1> DEFINE e == [worker |-> w, outcome |-> "open"]
           t == Append(s, e)
<1>1. e \in Attempt /\ e.outcome = "open"
  BY DEF Attempt
<1>2. DOMAIN s = 1..Len(s) /\ Len(s) \in Nat
  OBVIOUS
<1>3. /\ DOMAIN t = 1..(Len(s) + 1)
      /\ \A i \in 1..Len(s) : t[i] = s[i]
      /\ t[Len(s) + 1] = e
  BY <1>1, <1>2
<1> HIDE DEF t, e
<1>4. DOMAIN s \subseteq DOMAIN t /\ \A i \in DOMAIN t : i \in DOMAIN s \/ i = Len(s) + 1
  BY <1>2, <1>3
<1>5. AddsOpen(s, t)
  BY <1>1, <1>2, <1>3, <1>4 DEF AddsOpen
<1> QED
  BY <1>5 DEF t, e

LEMMA AnnotateSettles ==
  ASSUME NEW s \in Seq(Attempt), NEW o \in AttemptOutcome,
         Len(s) \in DOMAIN s, s[Len(s)].outcome = "open"
  PROVE  SettlesLast(s, AnnotateLatestAttempt(s, o), o)
<1> DEFINE t == AnnotateLatestAttempt(s, o)
<1>1. /\ DOMAIN t = DOMAIN s
      /\ \A i \in DOMAIN s : i # Len(s) => t[i] = s[i]
      /\ t[Len(s)] = [worker |-> s[Len(s)].worker, outcome |-> o]
  BY AnnotateProperties
<1> HIDE DEF t
<1>2. SettlesLast(s, t, o)
  BY <1>1 DEF SettlesLast
<1> QED
  BY <1>2 DEF t

LEMMA ChangedAttempts ==
  ASSUME NEW old \in Job, NEW new, Sound(old), Changes(old, new)
  PROVE  \/ new.attempts = old.attempts
         \/ AddsOpen(old.attempts, new.attempts)
         \/ new = CreateCompletedJob(old)
            /\ SettlesLast(old.attempts, new.attempts, "completed")
         \/ new = CreateFailedJob(old)
            /\ SettlesLast(old.attempts, new.attempts, "failed")
<1>0. old.attempts \in Seq(Attempt)
  BY DEF Job
<1>1. ASSUME old.status = "absent", NEW time \in Nat, new = CreateQueuedJob(time)
      PROVE  new.attempts = old.attempts
  BY <1>1, CreatedJobsFields DEF Sound, RecordConsistent
<1>2. ASSUME NEW w \in Worker, new = CreateLeasedJob(old, w)
      PROVE  AddsOpen(old.attempts, new.attempts)
  BY <1>0, <1>2, CreatedJobsFields, AppendAddsOpen
<1>3. new = CreateRenewedLeaseJob(old) => new.attempts = old.attempts
  BY CreatedJobsFields
<1>4. ASSUME old.status = "leased", NEW o \in {"completed", "failed"},
             new.attempts = AnnotateLatestAttempt(old.attempts, o)
      PROVE  SettlesLast(old.attempts, new.attempts, o)
  <2>1. /\ Len(old.attempts) \in DOMAIN old.attempts
        /\ old.attempts[Len(old.attempts)].outcome = "open"
    BY <1>0, <1>4 DEF Sound, RecordConsistent
  <2>2. SettlesLast(old.attempts, AnnotateLatestAttempt(old.attempts, o), o)
    BY <1>0, <2>1, AnnotateSettles DEF AttemptOutcome
  <2> QED
    BY <1>4, <2>2
<1>5. /\ new = CreateCompletedJob(old) =>
           new.attempts = AnnotateLatestAttempt(old.attempts, "completed")
      /\ new = CreateFailedJob(old) =>
           new.attempts = AnnotateLatestAttempt(old.attempts, "failed")
  BY CreatedJobsFields
<1>6. ASSUME NEW budget \in Nat, NEW delay \in Nat,
             new = CreateReplayedDeadLetterJob(old, budget, delay)
      PROVE  new.attempts = old.attempts
  BY <1>6, CreatedJobsFields
<1> QED
  BY <1>1, <1>2, <1>3, <1>4, <1>5, <1>6 DEF Changes

(* What HistoryIsWriteOnce says of one record.                             *)
Kept(s, t) ==
  \A i \in DOMAIN s : /\ i \in DOMAIN t
                      /\ t[i].worker = s[i].worker
                      /\ s[i].outcome # "open" => t[i] = s[i]

LEMMA ChangesKeepAttempts ==
  ASSUME NEW old \in Job, NEW new, Sound(old), Changes(old, new)
  PROVE  Kept(old.attempts, new.attempts)
<1>1. ASSUME NEW s, NEW t, AddsOpen(s, t) PROVE Kept(s, t)
  BY <1>1 DEF AddsOpen, Kept
<1>2. ASSUME NEW s, NEW t, NEW o, SettlesLast(s, t, o) PROVE Kept(s, t)
  BY <1>2 DEF SettlesLast, Kept
<1>3. Kept(old.attempts, old.attempts)
  BY DEF Kept
<1> QED
  BY <1>1, <1>2, <1>3, ChangedAttempts

(* No late answer, retry or replay removes an attempt or rewrites a recorded *)
(* outcome.                                                                  *)
THEOREM OutcomesWrittenOnce == Spec => HistoryIsWriteOnce
<1>1. ASSUME QueueInv, [Next]_vars, NEW j \in JobId
      PROVE  Kept(jobs[j].attempts, jobs'[j].attempts)
  <2>1. /\ TypeOK /\ jobs \in [JobId -> Job] /\ jobs[j] \in Job
        /\ Sound(jobs[j])
    BY <1>1 DEF QueueInv, TypeOK, RecordsConsistent, CompletedByLastAttempt, Sound
  <2>2. jobs'[j].attempts = jobs[j].attempts => Kept(jobs[j].attempts, jobs'[j].attempts)
    BY DEF Kept
  <2>3. CASE UNCHANGED jobs
    BY <2>2, <2>3
  <2>4. CASE AgesAll
    BY <2>1, <2>2, <2>4, AgedKeeps DEF AgesAll
  <2>5. CASE ChangesOne
    BY <2>1, <2>2, <2>5, ChangesKeepAttempts DEF ChangesOne
  <2> QED
    BY <1>1, <2>1, <2>3, <2>4, <2>5, StepsOfTheQueue
<1>2. QueueInv /\ [Next]_vars =>
        [\A j \in JobId : Kept(jobs[j].attempts, jobs'[j].attempts)]_vars
  BY <1>1
<1> QED
  BY <1>2, QueueInvariant, PTL DEF Spec, HistoryIsWriteOnce, Kept

-----------------------------------------------------------------------------
(* Settled records.                                                        *)

(* What CompletedIsFinal and DeadLetterExhausted rest on: time does not age *)
(* a completed record, and a dead letter's attempts are used up.            *)
Finished(job) ==
  /\ job.status = "completed" => job.leaseLeft = 0 /\ job.delayLeft = 0
  /\ job.status = "dead-lettered" => AttemptCount(job) >= MaxAttempts

FinishedInv == \A j \in JobId : Finished(jobs[j])

LEMMA ChangesFinish ==
  ASSUME NEW old \in Job, NEW new, Sound(old), Changes(old, new)
  PROVE  Finished(new)
<1> USE RunQueueAssumption
<1>1. ASSUME new = CreateCompletedJob(old) PROVE Finished(new)
  <2>1. /\ CreateCompletedJob(old).status = "completed"
        /\ CreateCompletedJob(old).leaseLeft = 0
        /\ CreateCompletedJob(old).delayLeft = 0
    BY DEF CreateCompletedJob, Unleased, Job
  <2> QED
    BY <1>1, <2>1 DEF Finished
<1>2. ASSUME new = CreateFailedJob(old) PROVE Finished(new)
  <2>1. old.attempts \in Seq(Attempt)
    BY DEF Job
  <2>2. AttemptCount(new) = AttemptCount(old) /\ AttemptCount(old) \in Nat
    <3> DEFINE t == AnnotateLatestAttempt(old.attempts, "failed")
    <3>1. Len(t) = Len(old.attempts)
      BY <2>1, AnnotateProperties DEF AttemptOutcome
    <3>2. new.attempts = t
      BY <1>2, CreatedJobsFields
    <3> HIDE DEF t
    <3> QED
      BY <2>1, <3>1, <3>2 DEF AttemptCount
  <2>3. \/ AttemptCount(old) < MaxAttempts /\ new.status = "queued"
        \/ AttemptCount(old) >= MaxAttempts /\ new.status = "dead-lettered"
    BY <1>2, <2>2, CreatedJobsFields
  <2> QED
    BY <2>2, <2>3 DEF Finished
<1>3. new.status \in {"queued", "leased"} => Finished(new)
  BY DEF Finished
<1>4. ASSUME NEW time \in Nat, new = CreateQueuedJob(time) PROVE Finished(new)
  BY <1>3, <1>4, CreatedJobsFields
<1>5. ASSUME NEW w \in Worker, new = CreateLeasedJob(old, w) PROVE Finished(new)
  BY <1>3, <1>5, CreatedJobsFields
<1>6. old.status = "leased" /\ new = CreateRenewedLeaseJob(old) => Finished(new)
  BY <1>3, CreatedJobsFields
<1>7. ASSUME NEW budget \in Nat, NEW delay \in Nat,
             new = CreateReplayedDeadLetterJob(old, budget, delay)
      PROVE  Finished(new)
  BY <1>3, <1>7, CreatedJobsFields
<1> QED
  BY <1>1, <1>2, <1>4, <1>5, <1>6, <1>7 DEF Changes

LEMMA AgedFinished ==
  ASSUME NEW job \in Job, Finished(job)
  PROVE  Finished(Aged(job)) /\ (job.status = "completed" => Aged(job) = job)
<1>1. Aged(job).status = job.status /\ Aged(job).attempts = job.attempts
  BY AgedKeeps
<1>2. ASSUME job.status = "completed" PROVE Aged(job) = job
  <2>1. job.leaseLeft = 0 /\ job.delayLeft = 0
    BY <1>2 DEF Finished
  <2>2. Left(job.leaseLeft) = 0 /\ Left(job.delayLeft) = 0
    BY <2>1 DEF Left
  <2> QED
    BY <2>1, <2>2 DEF Aged, Job
<1> QED
  BY <1>1, <1>2 DEF Finished, AttemptCount

LEMMA FinishedInvariant == Spec => []FinishedInv
<1>1. Init => FinishedInv
  BY DEF Init, AbsentJob, FinishedInv, Finished
<1>2. QueueInv /\ FinishedInv /\ [Next]_vars => FinishedInv'
  <2> SUFFICES ASSUME QueueInv, FinishedInv, [Next]_vars, NEW j \in JobId
               PROVE  Finished(jobs'[j])
    BY DEF FinishedInv, Finished, AttemptCount
  <2>1. /\ TypeOK /\ jobs \in [JobId -> Job] /\ jobs[j] \in Job
        /\ Sound(jobs[j]) /\ Finished(jobs[j])
    BY DEF QueueInv, TypeOK, RecordsConsistent, CompletedByLastAttempt, Sound,
           FinishedInv
  <2>2. CASE UNCHANGED jobs
    BY <2>1, <2>2
  <2>3. CASE AgesAll
    BY <2>1, <2>3, AgedFinished DEF AgesAll
  <2>4. CASE ChangesOne
    <3>1. Changes(jobs[j], jobs'[j]) \/ jobs'[j] = jobs[j]
      BY <2>1, <2>4 DEF ChangesOne
    <3> QED
      BY <2>1, <3>1, ChangesFinish
  <2> QED
    BY <2>1, <2>2, <2>3, <2>4, StepsOfTheQueue
<1> QED
  BY <1>1, <1>2, QueueInvariant, PTL DEF Spec

(* A dead letter has used up the attempts the workers allow.               *)
THEOREM DeadLettersExhausted == Spec => []DeadLetterExhausted
<1>1. FinishedInv => DeadLetterExhausted
  BY DEF FinishedInv, Finished, DeadLetterExhausted
<1> QED
  BY <1>1, FinishedInvariant, PTL

(* No claim, renewal, late answer, replay or passing of time touches the    *)
(* record of a completed job.                                               *)
THEOREM CompletionIsFinal == Spec => CompletedIsFinal
<1>1. ASSUME TypeOK, FinishedInv, [Next]_vars, NEW j \in JobId,
             jobs[j].status = "completed"
      PROVE  jobs'[j] = jobs[j]
  <2>1. jobs \in [JobId -> Job] /\ jobs[j] \in Job /\ Finished(jobs[j])
    BY <1>1 DEF TypeOK, FinishedInv
  <2>2. ~Changes(jobs[j], jobs'[j])
    BY <1>1 DEF Changes
  <2>3. CASE UNCHANGED jobs
    BY <2>3
  <2>4. CASE AgesAll
    BY <1>1, <2>1, <2>4, AgedFinished DEF AgesAll
  <2>5. CASE ChangesOne
    BY <2>1, <2>2, <2>5 DEF ChangesOne
  <2> QED
    BY <1>1, <2>3, <2>4, <2>5, StepsOfTheQueue
<1>2. TypeOK /\ FinishedInv /\ [Next]_vars =>
        [\A j \in JobId : jobs[j].status = "completed" => jobs'[j] = jobs[j]]_vars
  BY <1>1
<1> QED
  BY <1>2, TypeCorrect, FinishedInvariant, PTL DEF Spec, CompletedIsFinal

-----------------------------------------------------------------------------
(* The failure count.                                                      *)

FailedAttempts(attempts) ==
  {i \in DOMAIN attempts : attempts[i].outcome = "failed"}

Accounted(job) ==
  job.failedAttemptCount = Cardinality(FailedAttempts(job.attempts))

(* What each operation makes of the failure count.                         *)
LEMMA CreatedJobsFailures ==
  ASSUME NEW job \in Job
  PROVE  /\ \A time \in Nat : CreateQueuedJob(time).failedAttemptCount = 0
         /\ \A w \in Worker :
              CreateLeasedJob(job, w).failedAttemptCount = job.failedAttemptCount
         /\ CreateRenewedLeaseJob(job).failedAttemptCount = job.failedAttemptCount
         /\ CreateCompletedJob(job).failedAttemptCount = job.failedAttemptCount
         /\ CreateFailedJob(job).failedAttemptCount = job.failedAttemptCount + 1
         /\ \A budget, delay \in Nat :
              CreateReplayedDeadLetterJob(job, budget, delay).failedAttemptCount
                = job.failedAttemptCount
<1>1. /\ Unleased(job).failedAttemptCount = job.failedAttemptCount
      /\ DOMAIN Unleased(job) = DOMAIN job
  BY DEF Unleased, Job
<1>2. \A time \in Nat : CreateQueuedJob(time).failedAttemptCount = 0
  BY DEF CreateQueuedJob, AbsentJob
<1>3. \A w \in Worker :
        CreateLeasedJob(job, w).failedAttemptCount = job.failedAttemptCount
  BY DEF CreateLeasedJob, Job
<1>4. CreateRenewedLeaseJob(job).failedAttemptCount = job.failedAttemptCount
  BY DEF CreateRenewedLeaseJob, Job
<1>5. CreateCompletedJob(job).failedAttemptCount = job.failedAttemptCount
  BY <1>1 DEF CreateCompletedJob, Job
<1>6. CreateFailedJob(job).failedAttemptCount = job.failedAttemptCount + 1
  BY <1>1 DEF CreateFailedJob, Job
<1>7. \A budget, delay \in Nat :
        CreateReplayedDeadLetterJob(job, budget, delay).failedAttemptCount
          = job.failedAttemptCount
  BY <1>1 DEF CreateReplayedDeadLetterJob, Job
<1> QED
  BY <1>2, <1>3, <1>4, <1>5, <1>6, <1>7

(* What the attempts say of the failures.                                  *)
LEMMA FailuresOfAttempts ==
  ASSUME NEW s \in Seq(Attempt), NEW t
  PROVE  /\ IsFiniteSet(FailedAttempts(s))
         /\ AddsOpen(s, t) => FailedAttempts(t) = FailedAttempts(s)
         /\ SettlesLast(s, t, "completed") => FailedAttempts(t) = FailedAttempts(s)
         /\ SettlesLast(s, t, "failed") =>
              Cardinality(FailedAttempts(t)) = Cardinality(FailedAttempts(s)) + 1
<1>1. IsFiniteSet(FailedAttempts(s))
  <2>1. IsFiniteSet(1..Len(s))
    BY FS_Interval
  <2>2. FailedAttempts(s) \subseteq 1..Len(s)
    BY DEF FailedAttempts
  <2> QED
    BY <2>1, <2>2, FS_Subset
<1>2. AddsOpen(s, t) => FailedAttempts(t) = FailedAttempts(s)
  BY DEF AddsOpen, FailedAttempts
<1>3. SettlesLast(s, t, "completed") => FailedAttempts(t) = FailedAttempts(s)
  BY DEF SettlesLast, FailedAttempts
<1>4. ASSUME SettlesLast(s, t, "failed")
      PROVE  Cardinality(FailedAttempts(t)) = Cardinality(FailedAttempts(s)) + 1
  <2>1. /\ FailedAttempts(t) = FailedAttempts(s) \cup {Len(s)}
        /\ Len(s) \notin FailedAttempts(s)
    BY <1>4 DEF SettlesLast, FailedAttempts
  <2> QED
    BY <1>1, <2>1, FS_AddElement
<1> QED
  BY <1>1, <1>2, <1>3, <1>4

LEMMA ChangesAccount ==
  ASSUME NEW old \in Job, NEW new, Sound(old), Accounted(old), Changes(old, new)
  PROVE  Accounted(new)
<1>0. old.attempts \in Seq(Attempt)
  BY DEF Job
<1>1. ASSUME FailedAttempts(new.attempts) = FailedAttempts(old.attempts),
             new.failedAttemptCount = old.failedAttemptCount
      PROVE  Accounted(new)
  BY <1>1 DEF Accounted
<1>2. ASSUME NEW time \in Nat, new = CreateQueuedJob(time) PROVE Accounted(new)
  <2>1. new.attempts = << >> /\ new.failedAttemptCount = 0
    BY <1>2, CreatedJobsFields, CreatedJobsFailures
  <2>2. FailedAttempts(<< >>) = {}
    BY DEF FailedAttempts
  <2> QED
    BY <2>1, <2>2, FS_EmptySet DEF Accounted
<1>3. ASSUME NEW w \in Worker, new = CreateLeasedJob(old, w) PROVE Accounted(new)
  <2>1. AddsOpen(old.attempts, new.attempts)
    BY <1>0, <1>3, CreatedJobsFields, AppendAddsOpen
  <2> QED
    BY <1>0, <1>1, <1>3, <2>1, FailuresOfAttempts, CreatedJobsFailures
<1>4. old.status = "leased" =>
        /\ Len(old.attempts) \in DOMAIN old.attempts
        /\ old.attempts[Len(old.attempts)].outcome = "open"
  BY <1>0 DEF Sound, RecordConsistent
<1>5. ASSUME old.status = "leased", new = CreateCompletedJob(old)
      PROVE  Accounted(new)
  <2>1. SettlesLast(old.attempts, new.attempts, "completed")
    BY <1>0, <1>4, <1>5, CreatedJobsFields, AnnotateSettles DEF AttemptOutcome
  <2> QED
    BY <1>0, <1>1, <1>5, <2>1, FailuresOfAttempts, CreatedJobsFailures
<1>6. ASSUME old.status = "leased", new = CreateFailedJob(old)
      PROVE  Accounted(new)
  <2>1. SettlesLast(old.attempts, new.attempts, "failed")
    BY <1>0, <1>4, <1>6, CreatedJobsFields, AnnotateSettles DEF AttemptOutcome
  <2>2. Cardinality(FailedAttempts(new.attempts))
          = Cardinality(FailedAttempts(old.attempts)) + 1
    BY <1>0, <2>1, FailuresOfAttempts
  <2>3. new.failedAttemptCount = old.failedAttemptCount + 1
    BY <1>6, CreatedJobsFailures
  <2> QED
    BY <2>2, <2>3 DEF Accounted
<1>7. ASSUME new.attempts = old.attempts,
             new.failedAttemptCount = old.failedAttemptCount
      PROVE  Accounted(new)
  BY <1>1, <1>7
<1>8. new = CreateRenewedLeaseJob(old) => Accounted(new)
  BY <1>7, CreatedJobsFields, CreatedJobsFailures
<1>9. ASSUME NEW budget \in Nat, NEW delay \in Nat,
             new = CreateReplayedDeadLetterJob(old, budget, delay)
      PROVE  Accounted(new)
  BY <1>7, <1>9, CreatedJobsFields, CreatedJobsFailures
<1> QED
  BY <1>2, <1>3, <1>5, <1>6, <1>8, <1>9 DEF Changes

LEMMA AgedAccounted ==
  ASSUME NEW job \in Job, Accounted(job)
  PROVE  Accounted(Aged(job))
<1>1. /\ Aged(job).attempts = job.attempts
      /\ Aged(job).failedAttemptCount = job.failedAttemptCount
  BY DEF Aged, Job
<1> QED
  BY <1>1 DEF Accounted

(* The failure count of a job is the number of its attempts recorded failed: *)
(* an abandoned attempt is neither counted nor recorded by its late worker.  *)
THEOREM FailuresCounted == Spec => []FailuresAccounted
<1> DEFINE AllAccounted == \A j \in JobId : Accounted(jobs[j])
<1>1. Init => AllAccounted
  <2> SUFFICES ASSUME Init, NEW j \in JobId PROVE Accounted(jobs[j])
    OBVIOUS
  <2>1. jobs[j].attempts = << >> /\ jobs[j].failedAttemptCount = 0
    BY DEF Init, AbsentJob
  <2>2. FailedAttempts(<< >>) = {}
    BY DEF FailedAttempts
  <2> QED
    BY <2>1, <2>2, FS_EmptySet DEF Accounted
<1>2. QueueInv /\ AllAccounted /\ [Next]_vars => AllAccounted'
  <2> SUFFICES ASSUME QueueInv, AllAccounted, [Next]_vars, NEW j \in JobId
               PROVE  Accounted(jobs'[j])
    BY DEF Accounted, FailedAttempts
  <2>1. /\ TypeOK /\ jobs \in [JobId -> Job] /\ jobs[j] \in Job
        /\ Sound(jobs[j]) /\ Accounted(jobs[j])
    BY DEF QueueInv, TypeOK, RecordsConsistent, CompletedByLastAttempt, Sound
  <2>2. CASE UNCHANGED jobs
    BY <2>1, <2>2
  <2>3. CASE AgesAll
    BY <2>1, <2>3, AgedAccounted DEF AgesAll
  <2>4. CASE ChangesOne
    <3>1. Changes(jobs[j], jobs'[j]) \/ jobs'[j] = jobs[j]
      BY <2>1, <2>4 DEF ChangesOne
    <3> QED
      BY <2>1, <3>1, ChangesAccount
  <2> QED
    BY <2>1, <2>2, <2>3, <2>4, StepsOfTheQueue
<1>3. AllAccounted => FailuresAccounted
  BY DEF Accounted, FailedAttempts, FailuresAccounted
<1> QED
  BY <1>1, <1>2, <1>3, QueueInvariant, PTL DEF Spec

-----------------------------------------------------------------------------
(***************************************************************************)
(* Time.  A lease is lost under its worker only when a renewal failed or   *)
(* came late by what the lease outlasts the heartbeat interval.  So, when  *)
(* the event loop is never blocked that long and renewals do not fail, no  *)
(* job is executed twice at a time.                                        *)
(***************************************************************************)

(* What heartbeats need to keep a lease alive.                             *)
TimelyHeartbeats ==
  /\ MaxIoErrors = 0
  /\ HeartbeatInterval + TimerDelay < LeaseDuration

(* What is left of the lease follows the timer of the worker that owns it. *)
OnTime(w) ==
  workers[w].pc # "idle" =>
    /\ Owns(w) /\ workers[w].heartbeatError = FALSE
    /\ workers[w].timer >= -TimerDelay
    /\ jobs[workers[w].job].leaseLeft
         = LeaseDuration - HeartbeatInterval + workers[w].timer

OnTimeInv == \A w \in Worker : OnTime(w)

LEMMA IntervalTyped == HeartbeatInterval \in Nat
BY RunQueueAssumption DEF HeartbeatInterval

(* A worker's lease has time left, and no two workers own one lease.       *)
LEMMA LeaseAlive ==
  ASSUME TimelyHeartbeats, TypeOK, NEW w \in Worker, OnTime(w),
         workers[w].pc # "idle"
  PROVE  /\ workers[w].job \in JobId
         /\ jobs[workers[w].job].status = "leased"
         /\ jobs[workers[w].job].leaseOwnerId = w
         /\ jobs[workers[w].job].leaseLeft > 0
<1>1. /\ workers[w].timer \in Int /\ TimerDelay \in Nat /\ LeaseDuration \in Nat
      /\ HeartbeatInterval \in Nat
  BY RunQueueAssumption, IntervalTyped DEF TypeOK, WorkerState
<1>2. LeaseDuration - HeartbeatInterval + workers[w].timer > 0
  BY <1>1 DEF TimelyHeartbeats, OnTime
<1> QED
  BY <1>2 DEF OnTime, Owns, RequestOwnsLease, TypeOK

(* A step that leaves the worker and its job alone keeps it on time.       *)
LEMMA OnTimeKept ==
  ASSUME NEW w \in Worker, OnTime(w), workers'[w] = workers[w],
         workers[w].pc # "idle" =>
           jobs'[workers[w].job] = jobs[workers[w].job]
  PROVE  OnTime(w)'
BY DEF OnTime, Owns, RequestOwnsLease

LEMMA NextOnTime ==
  ASSUME TimelyHeartbeats, TypeOK, OnTimeInv, [Next]_vars
  PROVE  OnTimeInv'
<1> SUFFICES ASSUME NEW w \in Worker PROVE OnTime(w)'
  BY DEF OnTimeInv
<1> USE RunQueueAssumption
<1> DEFINE k == workers[w].job
           busy == workers[w].pc # "idle"
<1>0. /\ jobs \in [JobId -> Job] /\ workers \in [Worker -> WorkerState]
      /\ OnTime(w)
  BY DEF TypeOK, OnTimeInv
<1>1. busy => /\ k \in JobId /\ jobs[k] \in Job /\ jobs[k].status = "leased"
              /\ jobs[k].leaseOwnerId = w /\ jobs[k].leaseLeft > 0
  BY <1>0, LeaseAlive
<1>2. ASSUME NEW v \in Worker, v # w, busy, workers[v].pc # "idle"
      PROVE  workers[v].job \in JobId /\ workers[v].job # k
  <2>1. OnTime(v)
    BY DEF OnTimeInv
  <2>2. workers[v].job \in JobId /\ jobs[workers[v].job].leaseOwnerId = v
    BY <1>2, <2>1, LeaseAlive
  <2> QED
    BY <1>1, <1>2, <2>2
<1>i. IdleWorker.pc = "idle"
  BY DEF IdleWorker
<1>idle. workers'[w].pc = "idle" => OnTime(w)'
  BY DEF OnTime
<1>3. ASSUME NEW j \in JobId, NEW time \in JobId, Enqueue(j, time)
      PROVE  OnTime(w)'
  <2>1. workers'[w] = workers[w] /\ (busy => jobs'[k] = jobs[k])
    BY <1>0, <1>1, <1>3 DEF Enqueue
  <2> QED
    BY <1>0, <2>1, OnTimeKept
<1>4. ASSUME NEW v \in Worker, NEW j \in JobId, Claim(v, j)
      PROVE  OnTime(w)'
  <2>1. CASE v # w
    <3>1. workers'[w] = workers[w]
      BY <1>0, <1>4, <2>1 DEF Claim
    <3>2. busy => j # k
      BY <1>1, <1>4 DEF Claim, IsClaimCandidate, JobIsClaimEligible
    <3>3. busy => jobs'[k] = jobs[k]
      BY <1>0, <1>1, <1>4, <3>2 DEF Claim
    <3> QED
      BY <1>0, <3>1, <3>3, OnTimeKept
  <2>2. CASE v = w
    <3>1. /\ workers'[w].job = j
          /\ workers'[w].attempt = AttemptCount(jobs[j]) + 1
          /\ workers'[w].timer = HeartbeatInterval
          /\ workers'[w].heartbeatError = FALSE
          /\ jobs'[j] = CreateLeasedJob(jobs[j], w)
      BY <1>0, <1>4, <2>2 DEF Claim
    <3>2. jobs[j] \in Job
      BY <1>0
    <3>3. /\ jobs'[j].status = "leased" /\ jobs'[j].leaseOwnerId = w
          /\ AttemptCount(jobs'[j]) = AttemptCount(jobs[j]) + 1
      <4>1. jobs[j].attempts \in Seq(Attempt)
            /\ [worker |-> w, outcome |-> "open"] \in Attempt
        BY <3>2 DEF Job, Attempt
      <4>2. Len(Append(jobs[j].attempts, [worker |-> w, outcome |-> "open"]))
              = Len(jobs[j].attempts) + 1
        BY <4>1
      <4>3. /\ jobs'[j].status = "leased" /\ jobs'[j].leaseOwnerId = w
            /\ jobs'[j].attempts
                 = Append(jobs[j].attempts, [worker |-> w, outcome |-> "open"])
        BY <3>1, <3>2, CreatedJobsFields
      <4> QED
        BY <4>2, <4>3 DEF AttemptCount
    <3>4. jobs'[j].leaseLeft = LeaseDuration
      BY <3>1, <3>2 DEF CreateLeasedJob, Job
    <3>5. LeaseDuration = LeaseDuration - HeartbeatInterval + HeartbeatInterval
          /\ HeartbeatInterval >= -TimerDelay
      BY IntervalTyped
    <3> QED
      BY <3>1, <3>3, <3>4, <3>5 DEF OnTime, Owns, RequestOwnsLease
  <2> QED
    BY <2>1, <2>2
<1>5. ASSUME NEW v \in Worker, Heartbeat(v) PROVE OnTime(w)'
  <2>1. CASE v # w
    <3>1. workers'[w] = workers[w] /\ (busy => jobs'[k] = jobs[k])
      BY <1>0, <1>1, <1>2, <1>5, <2>1 DEF Heartbeat
    <3> QED
      BY <1>0, <3>1, OnTimeKept
  <2>2. CASE v = w
    <3>1. busy /\ Owns(w) /\ workers[w].heartbeatError = FALSE
      BY <1>0, <1>5, <2>2 DEF Heartbeat, OnTime
    <3>2. /\ jobs'[k] = CreateRenewedLeaseJob(jobs[k])
          /\ workers' = [workers EXCEPT ![w].timer = HeartbeatInterval,
                                        ![w].heartbeatError = FALSE]
      BY <1>0, <1>1, <1>5, <2>2, <3>1 DEF Heartbeat
    <3>3. /\ workers'[w].job = k /\ workers'[w].attempt = workers[w].attempt
          /\ workers'[w].timer = HeartbeatInterval
          /\ workers'[w].heartbeatError = FALSE
      BY <1>0, <3>2 DEF WorkerState
    <3>4. /\ jobs'[k].status = "leased" /\ jobs'[k].leaseOwnerId = w
          /\ jobs'[k].attempts = jobs[k].attempts
      BY <1>1, <3>1, <3>2, CreatedJobsFields
    <3>5. jobs'[k].leaseLeft = LeaseDuration
      BY <1>1, <3>1, <3>2 DEF CreateRenewedLeaseJob, Job
    <3>6. AttemptCount(jobs'[k]) = workers[w].attempt
      BY <3>1, <3>4 DEF Owns, RequestOwnsLease, AttemptCount
    <3>7. LeaseDuration = LeaseDuration - HeartbeatInterval + HeartbeatInterval
          /\ HeartbeatInterval >= -TimerDelay
      BY IntervalTyped
    <3> QED
      BY <3>3, <3>4, <3>5, <3>6, <3>7 DEF OnTime, Owns, RequestOwnsLease
  <2> QED
    BY <2>1, <2>2
<1>6. ASSUME NEW v \in Worker PROVE ~HeartbeatThrows(v)
  BY DEF HeartbeatThrows, TimelyHeartbeats, TypeOK
<1>7. ASSUME NEW v \in Worker, NEW error \in BOOLEAN, RunSettles(v, error)
      PROVE  OnTime(w)'
  <2>1. workers[v].pc # "idle" /\ jobs' = jobs
        /\ workers' = [workers EXCEPT ![v].pc = "recording", ![v].runError = error]
    BY <1>7 DEF RunSettles
  <2>2. /\ workers'[w].job = workers[w].job
        /\ workers'[w].attempt = workers[w].attempt
        /\ workers'[w].timer = workers[w].timer
        /\ workers'[w].heartbeatError = workers[w].heartbeatError
    BY <1>0, <2>1 DEF WorkerState
  <2>3. workers'[w].pc # "idle" => busy
    BY <1>0, <2>1
  <2> QED
    BY <1>0, <2>1, <2>2, <2>3 DEF OnTime, Owns, RequestOwnsLease
<1>8. ASSUME NEW v \in Worker, RecordCompletion(v) \/ RecordFailure(v)
      PROVE  OnTime(w)'
  <2>1. CASE v = w
    BY <1>0, <1>8, <1>i, <1>idle, <2>1 DEF RecordCompletion, RecordFailure
  <2>2. CASE v # w
    <3>1. workers'[w] = workers[w] /\ workers[v].pc # "idle"
      BY <1>0, <1>8, <2>2 DEF RecordCompletion, RecordFailure
    <3>2. busy => jobs'[k] = jobs[k]
      BY <1>0, <1>1, <1>2, <1>8, <2>2, <3>1 DEF RecordCompletion, RecordFailure
    <3> QED
      BY <1>0, <3>1, <3>2, OnTimeKept
  <2> QED
    BY <2>1, <2>2
<1>9. ASSUME NEW v \in Worker, Crash(v) PROVE OnTime(w)'
  <2>1. CASE v = w
    BY <1>0, <1>9, <1>i, <1>idle, <2>1 DEF Crash
  <2>2. CASE v # w
    BY <1>0, <1>9, <2>2, OnTimeKept DEF Crash
  <2> QED
    BY <2>1, <2>2
<1>10. ASSUME NEW j \in JobId, NEW budget, NEW delay, ReplayDeadLetter(j, budget, delay)
       PROVE  OnTime(w)'
  <2>1. workers'[w] = workers[w] /\ (busy => jobs'[k] = jobs[k])
    BY <1>0, <1>1, <1>10 DEF ReplayDeadLetter
  <2> QED
    BY <1>0, <2>1, OnTimeKept
<1>11. ASSUME Tick PROVE OnTime(w)'
  <2>1. ASSUME busy PROVE OnTime(w)'
    <3>1. /\ workers[w].timer \in Int /\ workers[w].timer > -TimerDelay
          /\ jobs[k].leaseLeft \in Nat /\ jobs[k].leaseLeft > 0
      BY <1>0, <1>1, <1>11, <2>1 DEF Tick, WorkerState, Job
    <3>2. /\ workers'[w].job = k /\ workers'[w].attempt = workers[w].attempt
          /\ workers'[w].timer = workers[w].timer - 1
          /\ workers'[w].heartbeatError = workers[w].heartbeatError
      BY <1>0, <1>11, <2>1 DEF Tick, WorkerState
    <3>3. /\ jobs'[k].status = jobs[k].status
          /\ jobs'[k].attempts = jobs[k].attempts
          /\ jobs'[k].leaseOwnerId = jobs[k].leaseOwnerId
      BY <1>1, <1>11, <2>1, TickKeeps
    <3>4. jobs'[k].leaseLeft = Left(jobs[k].leaseLeft)
      BY <1>1, <1>11, <2>1 DEF Tick, Job
    <3>5. Left(jobs[k].leaseLeft) = jobs[k].leaseLeft - 1
      BY <3>1 DEF Left
    <3>6. /\ Owns(w) /\ workers[w].heartbeatError = FALSE
          /\ jobs[k].leaseLeft
               = LeaseDuration - HeartbeatInterval + workers[w].timer
      BY <1>0, <2>1 DEF OnTime
    <3>7. /\ workers[w].timer - 1 >= -TimerDelay
          /\ jobs[k].leaseLeft - 1
               = LeaseDuration - HeartbeatInterval + (workers[w].timer - 1)
      BY <3>1, <3>6, IntervalTyped
    <3> QED
      BY <3>2, <3>3, <3>4, <3>5, <3>6, <3>7
      DEF OnTime, Owns, RequestOwnsLease, AttemptCount
  <2>2. ~busy => workers'[w].pc = "idle"
    BY <1>11 DEF Tick
  <2> QED
    BY <1>idle, <2>1, <2>2
<1>12. CASE UNCHANGED vars
  BY <1>0, <1>12, OnTimeKept DEF vars
<1> QED
  BY <1>3, <1>4, <1>5, <1>6, <1>7, <1>8, <1>9, <1>10, <1>11, <1>12 DEF Next

(* With timely heartbeats no job is executed by two workers at a time.      *)
THEOREM TimelyExclusion == TimelyHeartbeats => (Spec => []ExecutionIsExclusive)
<1> SUFFICES ASSUME TimelyHeartbeats PROVE Spec => []ExecutionIsExclusive
  OBVIOUS
<1>1. Init => OnTimeInv
  BY DEF Init, IdleWorker, OnTimeInv, OnTime
<1>2. TypeOK /\ OnTimeInv /\ [Next]_vars => OnTimeInv'
  BY NextOnTime
<1>3. TypeOK /\ OnTimeInv => ExecutionIsExclusive
  <2> SUFFICES ASSUME TypeOK, OnTimeInv, NEW v \in Worker, NEW w \in Worker,
                      NEW j \in JobId, Holds(v, j), Holds(w, j)
               PROVE  v = w
    BY DEF ExecutionIsExclusive
  <2>1. OnTime(v) /\ OnTime(w)
    BY DEF OnTimeInv
  <2>2. jobs[j].leaseOwnerId = v /\ jobs[j].leaseOwnerId = w
    BY <2>1, LeaseAlive DEF Holds
  <2> QED
    BY <2>2
<1> QED
  BY <1>1, <1>2, <1>3, TypeCorrect, PTL DEF Spec

-----------------------------------------------------------------------------
(* Whatever the delays and failures: a worker that has seen no renewal     *)
(* fail, and is not overdue by all the lease has to spare, owns a lease    *)
(* that lasts at least until it would be.                                  *)
Overdue(w) ==
  \/ workers[w].heartbeatError = TRUE
  \/ workers[w].timer <= HeartbeatInterval - LeaseDuration

Covered(w) ==
  /\ Owns(w)
  /\ jobs[workers[w].job].leaseLeft
       >= LeaseDuration - HeartbeatInterval + workers[w].timer

LateInv ==
  \A w \in Worker : workers[w].pc # "idle" => Overdue(w) \/ Covered(w)

(* A step that leaves the worker and its job alone keeps it covered.       *)
LEMMA CoverKept ==
  ASSUME NEW w \in Worker,
         workers[w].pc # "idle" => Overdue(w) \/ Covered(w),
         workers'[w] = workers[w],
         workers[w].pc # "idle" /\ Covered(w) =>
           jobs'[workers[w].job] = jobs[workers[w].job]
  PROVE  workers'[w].pc # "idle" => Overdue(w)' \/ Covered(w)'
BY DEF Overdue, Covered, Owns, RequestOwnsLease

(* What covers a worker: a leased job of its own, with time left as long   *)
(* as the worker is not overdue.                                           *)
LEMMA CoverIsLease ==
  ASSUME TypeOK, NEW w \in Worker, workers[w].pc # "idle", Covered(w)
  PROVE  /\ workers[w].job \in JobId
         /\ jobs[workers[w].job] \in Job
         /\ jobs[workers[w].job].status = "leased"
         /\ jobs[workers[w].job].leaseOwnerId = w
         /\ ~Overdue(w) => jobs[workers[w].job].leaseLeft > 0
<1>1. /\ workers[w].job \in JobId /\ jobs[workers[w].job] \in Job
      /\ jobs[workers[w].job].status = "leased"
      /\ jobs[workers[w].job].leaseOwnerId = w
  BY DEF TypeOK, Covered, Owns, RequestOwnsLease
<1>2. /\ workers[w].timer \in Int /\ LeaseDuration \in Nat
      /\ HeartbeatInterval \in Nat /\ jobs[workers[w].job].leaseLeft \in Nat
  BY <1>1, RunQueueAssumption, IntervalTyped DEF TypeOK, WorkerState, Job
<1>3. /\ ~Overdue(w) => ~(workers[w].timer <= HeartbeatInterval - LeaseDuration)
      /\ jobs[workers[w].job].leaseLeft
           >= LeaseDuration - HeartbeatInterval + workers[w].timer
  BY DEF Overdue, Covered
<1> QED
  BY <1>1, <1>2, <1>3

LEMMA NextLate ==
  ASSUME TypeOK, LateInv, [Next]_vars
  PROVE  LateInv'
<1> SUFFICES ASSUME NEW w \in Worker
             PROVE  workers'[w].pc # "idle" => Overdue(w)' \/ Covered(w)'
  BY DEF LateInv
<1> USE RunQueueAssumption
<1> DEFINE k == workers[w].job
           busy == workers[w].pc # "idle"
           good == workers'[w].pc # "idle" => Overdue(w)' \/ Covered(w)'
<1>0. /\ jobs \in [JobId -> Job] /\ workers \in [Worker -> WorkerState]
      /\ busy => Overdue(w) \/ Covered(w)
  BY DEF TypeOK, LateInv
<1>1. busy /\ Covered(w) =>
        /\ k \in JobId /\ jobs[k] \in Job /\ jobs[k].status = "leased"
        /\ jobs[k].leaseOwnerId = w
        /\ ~Overdue(w) => jobs[k].leaseLeft > 0
  BY CoverIsLease
<1>i. IdleWorker.pc = "idle"
  BY DEF IdleWorker
<1>same. ASSUME Overdue(w), workers'[w] = workers[w] PROVE good
  BY <1>same DEF Overdue
<1>3. ASSUME NEW j \in JobId, NEW time \in JobId, Enqueue(j, time) PROVE good
  <2>1. workers'[w] = workers[w] /\ (busy /\ Covered(w) => jobs'[k] = jobs[k])
    BY <1>0, <1>1, <1>3 DEF Enqueue
  <2> QED
    BY <1>0, <2>1, CoverKept
<1>4. ASSUME NEW v \in Worker, NEW j \in JobId, Claim(v, j) PROVE good
  <2>1. CASE v # w
    <3>1. workers'[w] = workers[w]
      BY <1>0, <1>4, <2>1 DEF Claim
    <3>2. CASE Overdue(w)
      BY <3>1, <3>2, <1>same
    <3>3. CASE ~Overdue(w)
      <4>1. busy => j # k
        BY <1>0, <1>1, <1>4, <3>3 DEF Claim, IsClaimCandidate, JobIsClaimEligible
      <4>2. busy /\ Covered(w) => jobs'[k] = jobs[k]
        BY <1>0, <1>1, <1>4, <4>1 DEF Claim
      <4> QED
        BY <1>0, <3>1, <4>2, CoverKept
    <3> QED
      BY <3>2, <3>3
  <2>2. CASE v = w
    <3>1. /\ workers'[w].job = j
          /\ workers'[w].attempt = AttemptCount(jobs[j]) + 1
          /\ workers'[w].timer = HeartbeatInterval
          /\ jobs'[j] = CreateLeasedJob(jobs[j], w)
      BY <1>0, <1>4, <2>2 DEF Claim
    <3>2. jobs[j] \in Job
      BY <1>0
    <3>3. /\ jobs'[j].status = "leased" /\ jobs'[j].leaseOwnerId = w
          /\ AttemptCount(jobs'[j]) = AttemptCount(jobs[j]) + 1
      <4>1. jobs[j].attempts \in Seq(Attempt)
            /\ [worker |-> w, outcome |-> "open"] \in Attempt
        BY <3>2 DEF Job, Attempt
      <4>2. Len(Append(jobs[j].attempts, [worker |-> w, outcome |-> "open"]))
              = Len(jobs[j].attempts) + 1
        BY <4>1
      <4>3. /\ jobs'[j].status = "leased" /\ jobs'[j].leaseOwnerId = w
            /\ jobs'[j].attempts
                 = Append(jobs[j].attempts, [worker |-> w, outcome |-> "open"])
        BY <3>1, <3>2, CreatedJobsFields
      <4> QED
        BY <4>2, <4>3 DEF AttemptCount
    <3>4. jobs'[j].leaseLeft = LeaseDuration
      BY <3>1, <3>2 DEF CreateLeasedJob, Job
    <3>5. LeaseDuration >= LeaseDuration - HeartbeatInterval + HeartbeatInterval
      BY IntervalTyped
    <3> QED
      BY <3>1, <3>3, <3>4, <3>5 DEF Covered, Owns, RequestOwnsLease
  <2> QED
    BY <2>1, <2>2
<1>5. ASSUME NEW v \in Worker, Heartbeat(v) PROVE good
  <2>1. CASE v # w
    <3>1. workers'[w] = workers[w]
      BY <1>0, <1>5, <2>1 DEF Heartbeat
    <3>2. busy /\ Covered(w) => jobs'[k] = jobs[k]
      BY <1>0, <1>1, <1>5, <2>1 DEF Heartbeat, Owns, RequestOwnsLease
    <3> QED
      BY <1>0, <3>1, <3>2, CoverKept
  <2>2. CASE v = w /\ (workers[w].heartbeatError = TRUE \/ ~Owns(w))
    <3>1. workers'[w].heartbeatError = TRUE
      BY <1>0, <1>5, <2>2 DEF Heartbeat, WorkerState
    <3> QED
      BY <3>1 DEF Overdue
  <2>3. CASE v = w /\ workers[w].heartbeatError # TRUE /\ Owns(w)
    <3>0. busy /\ k \in JobId /\ jobs[k] \in Job
      BY <1>0, <1>5, <2>3 DEF Heartbeat, TypeOK
    <3>1. workers[w].heartbeatError = FALSE
      BY <1>0, <2>3 DEF WorkerState
    <3>2. /\ jobs'[k] = CreateRenewedLeaseJob(jobs[k])
          /\ workers' = [workers EXCEPT ![w].timer = HeartbeatInterval,
                                        ![w].heartbeatError = FALSE]
      BY <1>0, <1>5, <2>3, <3>0, <3>1 DEF Heartbeat
    <3>3. /\ workers'[w].job = k /\ workers'[w].attempt = workers[w].attempt
          /\ workers'[w].timer = HeartbeatInterval
      BY <1>0, <3>2 DEF WorkerState
    <3>4. /\ jobs'[k].status = jobs[k].status
          /\ jobs'[k].leaseOwnerId = jobs[k].leaseOwnerId
          /\ jobs'[k].attempts = jobs[k].attempts
          /\ jobs'[k].leaseLeft = LeaseDuration
      BY <3>0, <3>2 DEF CreateRenewedLeaseJob, Job
    <3>5. LeaseDuration >= LeaseDuration - HeartbeatInterval + HeartbeatInterval
      BY IntervalTyped
    <3>6. Owns(w)'
      BY <2>3, <3>3, <3>4 DEF Owns, RequestOwnsLease, AttemptCount
    <3> QED
      BY <3>3, <3>4, <3>5, <3>6 DEF Covered
  <2> QED
    BY <2>1, <2>2, <2>3
<1>6. ASSUME NEW v \in Worker, HeartbeatThrows(v) PROVE good
  <2>1. CASE v # w
    BY <1>0, <1>6, <2>1, CoverKept DEF HeartbeatThrows
  <2>2. CASE v = w
    BY <1>0, <1>6, <2>2 DEF HeartbeatThrows, Overdue, WorkerState
  <2> QED
    BY <2>1, <2>2
<1>7. ASSUME NEW v \in Worker, NEW error \in BOOLEAN, RunSettles(v, error)
      PROVE  good
  <2>1. workers[v].pc # "idle" /\ jobs' = jobs
        /\ workers' = [workers EXCEPT ![v].pc = "recording", ![v].runError = error]
    BY <1>7 DEF RunSettles
  <2>2. /\ workers'[w].job = workers[w].job
        /\ workers'[w].attempt = workers[w].attempt
        /\ workers'[w].timer = workers[w].timer
        /\ workers'[w].heartbeatError = workers[w].heartbeatError
    BY <1>0, <2>1 DEF WorkerState
  <2>3. workers'[w].pc # "idle" => busy
    BY <1>0, <2>1
  <2> QED
    BY <1>0, <2>1, <2>2, <2>3 DEF Overdue, Covered, Owns, RequestOwnsLease
<1>8. ASSUME NEW v \in Worker, RecordCompletion(v) \/ RecordFailure(v)
      PROVE  good
  <2>1. CASE v = w
    BY <1>0, <1>8, <1>i, <2>1 DEF RecordCompletion, RecordFailure
  <2>2. CASE v # w
    <3>1. workers'[w] = workers[w]
      BY <1>0, <1>8, <2>2 DEF RecordCompletion, RecordFailure
    <3>2. busy /\ Covered(w) => jobs'[k] = jobs[k]
      BY <1>0, <1>1, <1>8, <2>2
      DEF RecordCompletion, RecordFailure, Owns, RequestOwnsLease
    <3> QED
      BY <1>0, <3>1, <3>2, CoverKept
  <2> QED
    BY <2>1, <2>2
<1>9. ASSUME NEW v \in Worker, Crash(v) PROVE good
  <2>1. CASE v = w
    BY <1>0, <1>9, <1>i, <2>1 DEF Crash
  <2>2. CASE v # w
    BY <1>0, <1>9, <2>2, CoverKept DEF Crash
  <2> QED
    BY <2>1, <2>2
<1>10. ASSUME NEW j \in JobId, NEW budget, NEW delay, ReplayDeadLetter(j, budget, delay)
       PROVE  good
  <2>1. workers'[w] = workers[w] /\ (busy /\ Covered(w) => jobs'[k] = jobs[k])
    BY <1>0, <1>1, <1>10 DEF ReplayDeadLetter
  <2> QED
    BY <1>0, <2>1, CoverKept
<1>11. ASSUME Tick PROVE good
  <2>0. ~busy => workers'[w].pc = "idle"
    BY <1>0, <1>11 DEF Tick
  <2>1. ASSUME busy
        PROVE  /\ workers'[w].job = k /\ workers'[w].attempt = workers[w].attempt
               /\ workers'[w].timer = workers[w].timer - 1
               /\ workers'[w].heartbeatError = workers[w].heartbeatError
    BY <1>0, <1>11, <2>1 DEF Tick, WorkerState
  <2>2. /\ workers[w].timer \in Int /\ HeartbeatInterval - LeaseDuration \in Int
        /\ LeaseDuration - HeartbeatInterval \in Int
    BY <1>0, IntervalTyped DEF WorkerState
  <2>3. ASSUME busy, Overdue(w) PROVE Overdue(w)'
    <3>1. workers[w].timer <= HeartbeatInterval - LeaseDuration =>
            workers[w].timer - 1 <= HeartbeatInterval - LeaseDuration
      BY <2>2
    <3> QED
      BY <2>1, <2>3, <3>1 DEF Overdue
  <2>4. ASSUME busy, Covered(w) PROVE Covered(w)'
    <3>1. k \in JobId /\ jobs[k] \in Job
      BY <1>1, <2>4
    <3>2. /\ jobs'[k].status = jobs[k].status
          /\ jobs'[k].attempts = jobs[k].attempts
          /\ jobs'[k].leaseOwnerId = jobs[k].leaseOwnerId
      BY <1>11, <3>1, TickKeeps
    <3>3. jobs'[k].leaseLeft = Left(jobs[k].leaseLeft)
      BY <1>0, <1>11, <3>1 DEF Tick, Job
    <3>4. jobs[k].leaseLeft \in Nat
      BY <3>1 DEF Job
    <3>5. Left(jobs[k].leaseLeft) >= jobs[k].leaseLeft - 1
      BY <3>4 DEF Left
    <3>6. Left(jobs[k].leaseLeft) \in Nat
      BY <3>4 DEF Left
    <3>7. jobs[k].leaseLeft >= LeaseDuration - HeartbeatInterval + workers[w].timer
      BY <2>4 DEF Covered
    <3>8. Left(jobs[k].leaseLeft)
            >= LeaseDuration - HeartbeatInterval + (workers[w].timer - 1)
      BY <2>2, <3>4, <3>5, <3>6, <3>7
    <3>9. Owns(w)'
      BY <2>1, <2>4, <3>2 DEF Covered, Owns, RequestOwnsLease, AttemptCount
    <3> QED
      BY <2>1, <2>4, <3>3, <3>8, <3>9 DEF Covered
  <2> QED
    BY <1>0, <2>0, <2>3, <2>4
<1>12. CASE UNCHANGED vars
  BY <1>0, <1>12, CoverKept DEF vars
<1> QED
  BY <1>3, <1>4, <1>5, <1>6, <1>7, <1>8, <1>9, <1>10, <1>11, <1>12 DEF Next

(* A worker loses its lease under a run only by a renewal that failed or   *)
(* was late by all the lease has to spare, for any timing and any faults.  *)
THEOREM LeasesLostLate == Spec => []SupersededOnlyWhenLate
<1>1. Init => LateInv
  BY DEF Init, IdleWorker, LateInv
<1>2. TypeOK /\ LateInv /\ [Next]_vars => LateInv'
  BY NextLate
<1>3. LateInv => SupersededOnlyWhenLate
  BY DEF LateInv, SupersededOnlyWhenLate, Overdue, Covered
<1> QED
  BY <1>1, <1>2, <1>3, TypeCorrect, PTL DEF Spec

-----------------------------------------------------------------------------
(***************************************************************************)
(* The control: lists of cycles.                                           *)
(***************************************************************************)

(* A cycle put behind others leaves them as they are.                      *)
LEMMA AppendedCycle ==
  ASSUME NEW cycles \in Seq(Cycle), NEW cycle \in Cycle
  PROVE  /\ Append(cycles, cycle) \in Seq(Cycle)
         /\ Len(Append(cycles, cycle)) = Len(cycles) + 1
         /\ DOMAIN Append(cycles, cycle) = 1..(Len(cycles) + 1)
         /\ \A i \in 1..Len(cycles) : Append(cycles, cycle)[i] = cycles[i]
         /\ Append(cycles, cycle)[Len(cycles) + 1] = cycle
OBVIOUS

(* What IsPrefix compares, cycle by cycle.                                 *)
LEMMA PrefixOfCycles ==
  ASSUME NEW s \in Seq(Cycle), NEW t \in Seq(Cycle),
         Len(s) <= Len(t), \A i \in 1..Len(s) : s[i] = t[i]
  PROVE  IsPrefix(s, t)
<1> DEFINE n == Len(s)
<1>1. n \in Nat /\ Len(t) \in Nat
  OBVIOUS
<1>2. SubSeq(s, 1, n) = [i \in 1..n |-> s[i]]
  BY <1>1
<1>3. SubSeq(t, 1, n) = [i \in 1..n |-> t[i]]
  BY <1>1
<1> QED
  BY <1>1, <1>2, <1>3 DEF IsPrefix

LEMMA PrefixOfItself ==
  ASSUME NEW s \in Seq(Cycle)
  PROVE  IsPrefix(s, s)
BY PrefixOfCycles

(***************************************************************************)
(* The control and the queue.                                              *)
(***************************************************************************)

(* Every step of the control is a step of the queue, or leaves it alone.   *)
LEMMA ControlStepsTheQueue ==
  [ControlNext]_allVars => [Next]_vars
<1> SUFFICES ASSUME [ControlNext]_allVars PROVE [Next]_vars
  OBVIOUS
<1>1. ASSUME NEW j \in JobId, Schedule(j) PROVE Next
  BY <1>1 DEF Schedule, Next
<1>2. ASSUME NEW j \in JobId, Recover(j) PROVE Next
  BY <1>2 DEF Recover, Next
<1>3. ASSUME NEW j \in JobId, RequestStop(j) PROVE UNCHANGED vars
  BY <1>3 DEF RequestStop
<1>4. ASSUME NEW w \in Worker, NEW j \in JobId, Poll(w, j) PROVE Next
  BY <1>4 DEF Poll, Next
<1>5. ASSUME NEW w \in Worker, OpenSession(w) PROVE [Next]_vars
  BY <1>5, Zenon DEF OpenSession, Next
<1>6. ASSUME NEW w \in Worker, NEW cycle \in Cycle, RunCycle(w, cycle)
      PROVE  [Next]_vars
  BY <1>6, Zenon DEF RunCycle, RunThrows, Next
<1>7. ASSUME NEW w \in Worker, SaveSession(w) PROVE Next
  BY <1>7, Zenon DEF SaveSession, RunThrows, Next
<1>8. ASSUME NEW w \in Worker, Record(w) PROVE Next
  BY <1>8 DEF Record, Next
<1>9. ASSUME NEW w \in Worker, Beat(w) PROVE Next
  BY <1>9 DEF Beat, Next
<1>10. ASSUME NEW w \in Worker, Kill(w) PROVE Next
  BY <1>10 DEF Kill, Next
<1>11. CASE TimePasses
  BY <1>11 DEF TimePasses, Next
<1>12. CASE UNCHANGED allVars
  BY <1>12 DEF allVars
<1> QED
  BY <1>1, <1>2, <1>3, <1>4, <1>5, <1>6, <1>7, <1>8, <1>9, <1>10, <1>11, <1>12
     DEF ControlNext, Advances

(* Scheduler, recovery, hosts and supervisor drive the queue as the queue's *)
(* own specification allows: whatever is proved of the queue holds of it   *)
(* here (localSimulationRuntimeRunQueue.ts under its callers).             *)
THEOREM ControlDrivesQueue == ControlSpec => Spec
<1>1. ControlInit => Init
  BY DEF ControlInit
<1> QED
  BY <1>1, ControlStepsTheQueue, PTL DEF ControlSpec, Spec

-----------------------------------------------------------------------------
(***************************************************************************)
(* The invariant.  A job no two workers held at once has at most one       *)
(* worker; while that worker is in the session, the session is open and    *)
(* has the worker's cycles, so that the checks that refuse a second runner *)
(* pass, and only the worker's final save closes it.                       *)
(***************************************************************************)

Exclusive ==
  \A v, w \in Worker : \A j \in JobId \ overlapped :
    Holds(v, j) /\ Holds(w, j) => v = w

(* Why a session may have ended.                                           *)
ReasonToEnd(session) ==
  \/ Len(session.cycles) = CycleCount
  \/ session.stopRequestedAt # {}
  \/ \E i \in DOMAIN session.cycles : session.cycles[i] # "succeeded"

(* A closed session's outcome is that of all its cycles.                   *)
ClosedWell(session) ==
  IsTerminal(session) =>
    session.outcome = Outcome(session.cycles) /\ ReasonToEnd(session)

RunShape(run) ==
  /\ Len(run.cycles) <= CycleCount
  /\ run.phase = "looping" => ~run.stopped /\ Len(run.cycles) < CycleCount
  /\ run.phase = "saving" /\ ~run.stopped => Len(run.cycles) = CycleCount

InSession(w) == runs[w].phase \in {"looping", "saving"}

RunFollowsSession(w) ==
  InSession(w) /\ workers[w].job \notin overlapped =>
    LET session == sessions[workers[w].job]
    IN /\ session.status = "running"
       /\ session.cycles = runs[w].cycles
       /\ runs[w].stopped => ReasonToEnd(session)

(* Without kills and overlaps, an open session has its runner.             *)
RunningIsHeld(j) ==
  j \notin killed \cup overlapped /\ sessions[j].status = "running" =>
    \E w \in Worker : InSession(w) /\ workers[w].job = j

LoopsUnstopped(w) ==
  runs[w].phase = "looping" /\ workers[w].job \notin killed \cup overlapped =>
    LET session == sessions[workers[w].job]
    IN /\ \A i \in DOMAIN session.cycles : session.cycles[i] = "succeeded"
       /\ \A n \in session.stopRequestedAt : Len(session.cycles) <= n

Succeeded(session) == IsTerminal(session) /\ session.outcome = "succeeded"

(* A worker about to record a success has a closed session behind it.      *)
RecordsSuccess(w) ==
  /\ workers[w].pc = "recording" /\ ~workers[w].runError
  /\ workers[w].job \notin overlapped
  => Succeeded(sessions[workers[w].job])

CompletedSucceeded ==
  \A j \in JobId \ overlapped :
    jobs[j].status = "completed" => Succeeded(sessions[j])

SessionWell(j) ==
  /\ Len(sessions[j].cycles) <= CycleCount
  /\ j \notin overlapped =>
       /\ sessions[j].status = "none" => sessions[j] = NoSession
       /\ ClosedWell(sessions[j])
  /\ RunningIsHeld(j)

SessionsWell == \A j \in JobId : SessionWell(j)

WorkerWell(w) ==
  /\ RunShape(runs[w]) /\ RunFollowsSession(w)
  /\ LoopsUnstopped(w) /\ RecordsSuccess(w)

WorkersWell == \A w \in Worker : WorkerWell(w)

ControlInv ==
  /\ ControlTypeOK /\ Exclusive /\ SessionsWell /\ WorkersWell
  /\ CompletedSucceeded /\ StopsHold

LEMMA InitControlInv == ControlInit => ControlInv
<1> SUFFICES ASSUME ControlInit PROVE ControlInv
  OBVIOUS
<1> USE DEF ControlInit
<1>1. NoSession \in Session /\ NoRun \in Run
  BY DEF NoSession, Session, NoRun, Run
<1>2. TypeOK
  BY InitTyped
<1>3. \A w \in Worker : workers[w].pc = "idle" /\ runs[w] = NoRun
  BY DEF Init, IdleWorker
<1>4. \A j \in JobId : sessions[j] = NoSession /\ jobs[j].status = "absent"
  BY DEF Init, AbsentJob
<1>5. ControlTypeOK
  BY <1>1, <1>2, <1>3 DEF ControlTypeOK, NoRun
<1>6. Exclusive
  BY <1>3 DEF Exclusive, Holds
<1>7. NoSession.cycles = <<>> /\ NoSession.status = "none" /\ NoSession.stopRequestedAt = {}
  BY DEF NoSession
<1>8. SessionsWell
  BY <1>4, <1>7, RunControlAssumption
     DEF SessionsWell, SessionWell, ClosedWell, RunningIsHeld, IsTerminal
<1>9. WorkersWell
  BY <1>3, RunControlAssumption
     DEF WorkersWell, WorkerWell, RunShape, RunFollowsSession, LoopsUnstopped,
         RecordsSuccess, InSession, NoRun
<1>10. CompletedSucceeded
  BY <1>4 DEF CompletedSucceeded
<1>11. StopsHold
  BY <1>4, <1>7 DEF StopsHold
<1> QED
  BY <1>5, <1>6, <1>8, <1>9, <1>10, <1>11 DEF ControlInv

(***************************************************************************)
(* What the queue's steps do to the workers and to what is completed.      *)
(***************************************************************************)

SameHolders ==
  \A w \in Worker :
    /\ workers'[w].pc = workers[w].pc /\ workers'[w].job = workers[w].job
    /\ workers'[w].runError = workers[w].runError

NoneCompletes ==
  \A j \in JobId : jobs'[j].status = "completed" => jobs[j].status = "completed"

OthersStay(w) == \A v \in Worker \ {w} : workers'[v] = workers[v]

LEMMA EnqueueEffect ==
  ASSUME TypeOK, NEW j \in JobId, NEW time \in JobId, Enqueue(j, time)
  PROVE  SameHolders /\ NoneCompletes
BY DEF Enqueue, SameHolders, NoneCompletes, CreateQueuedJob, AbsentJob, TypeOK

LEMMA ReplayEffect ==
  ASSUME TypeOK, NEW j \in JobId, NEW budget \in ReplayBudgets \cup {0},
         ReplayDeadLetter(j, budget, 0)
  PROVE  SameHolders /\ NoneCompletes
<1>1. budget \in Nat /\ jobs[j] \in Job
  BY RunQueueAssumption DEF TypeOK
<1>2. jobs'[j].status = "queued"
  BY <1>1, CreatedJobsFields DEF ReplayDeadLetter, TypeOK
<1> QED
  BY <1>2 DEF ReplayDeadLetter, SameHolders, NoneCompletes, TypeOK

LEMMA ClaimEffect ==
  ASSUME TypeOK, NEW w \in Worker, NEW j \in JobId, Claim(w, j)
  PROVE  /\ NoneCompletes /\ OthersStay(w)
         /\ workers[w].pc = "idle"
         /\ workers'[w].pc = "executing" /\ workers'[w].job = j
<1>1. CreateLeasedJob(jobs[j], w).status = "leased"
  BY DEF CreateLeasedJob, TypeOK, Job
<1> QED
  BY <1>1 DEF Claim, NoneCompletes, OthersStay, TypeOK

LEMMA BeatEffect ==
  ASSUME TypeOK, NEW w \in Worker, Heartbeat(w) \/ HeartbeatThrows(w)
  PROVE  SameHolders /\ NoneCompletes
<1>1. SameHolders
  BY DEF Heartbeat, HeartbeatThrows, SameHolders, TypeOK, WorkerState
<1>2. NoneCompletes
  <2>1. CASE jobs' = jobs
    BY <2>1 DEF NoneCompletes
  <2>2. CASE jobs' = [jobs EXCEPT ![workers[w].job] = CreateRenewedLeaseJob(@)]
    BY <2>2 DEF NoneCompletes, CreateRenewedLeaseJob, TypeOK, Job
  <2> QED
    BY <2>1, <2>2 DEF Heartbeat, HeartbeatThrows
<1> QED
  BY <1>1, <1>2

LEMMA SettleEffect ==
  ASSUME TypeOK, NEW w \in Worker, NEW error \in BOOLEAN, RunSettles(w, error)
  PROVE  /\ NoneCompletes /\ OthersStay(w)
         /\ workers[w].pc = "executing"
         /\ workers'[w].pc = "recording" /\ workers'[w].job = workers[w].job
         /\ workers'[w].runError = error
BY DEF RunSettles, NoneCompletes, OthersStay, TypeOK, WorkerState

(* Only a worker without an error completes a job: the one it holds.       *)
LEMMA RecordEffect ==
  ASSUME TypeOK, NEW w \in Worker, RecordCompletion(w) \/ RecordFailure(w)
  PROVE  /\ OthersStay(w)
         /\ workers[w].pc = "recording" /\ workers'[w].pc = "idle"
         /\ \A j \in JobId : jobs'[j].status = "completed" =>
              \/ jobs[j].status = "completed"
              \/ j = workers[w].job /\ ~workers[w].runError
<1>1. OthersStay(w) /\ workers[w].pc = "recording" /\ workers'[w].pc = "idle"
  BY DEF RecordCompletion, RecordFailure, OthersStay, IdleWorker, TypeOK
<1>2. ASSUME NEW j \in JobId, jobs'[j].status = "completed"
      PROVE  \/ jobs[j].status = "completed"
             \/ j = workers[w].job /\ ~workers[w].runError
  <2>1. CASE RecordCompletion(w)
    BY <1>2, <2>1 DEF RecordCompletion, TypeOK
  <2>2. CASE RecordFailure(w)
    <3>1. CASE jobs' = jobs
      BY <1>2, <3>1
    <3>2. CASE jobs' = [jobs EXCEPT ![workers[w].job] = CreateFailedJob(@)]
      <4>1. jobs[j] \in Job /\ workers[w].job \in JobId
        BY <1>1 DEF TypeOK
      <4>2. CreateFailedJob(jobs[j]).status # "completed"
        BY <4>1, CreatedJobsFields
      <4> QED
        BY <1>2, <3>2, <4>1, <4>2 DEF TypeOK
    <3> QED
      BY <2>2, <3>1, <3>2 DEF RecordFailure
  <2> QED
    BY <2>1, <2>2
<1> QED
  BY <1>1, <1>2

LEMMA CrashEffect ==
  ASSUME TypeOK, NEW w \in Worker, Crash(w)
  PROVE  /\ NoneCompletes /\ OthersStay(w)
         /\ workers[w].pc # "idle" /\ workers'[w].pc = "idle"
BY DEF Crash, NoneCompletes, OthersStay, IdleWorker, TypeOK

LEMMA TickEffect ==
  ASSUME TypeOK, Tick
  PROVE  SameHolders /\ NoneCompletes
<1>1. \A w \in Worker : workers[w] \in WorkerState
  BY DEF TypeOK
<1>2. \A j \in JobId : jobs[j] \in Job
  BY DEF TypeOK
<1>3. ASSUME NEW w \in Worker
      PROVE  /\ workers'[w].pc = workers[w].pc /\ workers'[w].job = workers[w].job
             /\ workers'[w].runError = workers[w].runError
  <2>1. workers'[w] = [workers[w] EXCEPT !.timer = @ - 1] \/ workers'[w] = workers[w]
    BY DEF Tick
  <2> QED
    BY <1>1, <2>1 DEF WorkerState
<1>4. ASSUME NEW j \in JobId, jobs'[j].status = "completed"
      PROVE  jobs[j].status = "completed"
  <2>1. jobs'[j] = [jobs[j] EXCEPT !.leaseLeft = Left(@), !.delayLeft = Left(@)]
    BY DEF Tick
  <2> QED
    BY <1>2, <1>4, <2>1 DEF Job
<1> QED
  BY <1>3, <1>4 DEF SameHolders, NoneCompletes

(* A worker that does not move keeps its part of the invariant, unless its *)
(* session changes while it is its job's only worker.                      *)
LEMMA WorkerKept ==
  ASSUME NEW v \in Worker, WorkerWell(v),
         workers'[v] = workers[v], runs'[v] = runs[v],
         overlapped \subseteq overlapped', killed \subseteq killed',
         workers[v].job \notin overlapped' =>
           sessions'[workers[v].job] = sessions[workers[v].job]
  PROVE  WorkerWell(v)'
<1>1. RunShape(runs[v])'
  BY DEF WorkerWell, RunShape
<1>2. RunFollowsSession(v)'
  BY DEF WorkerWell, RunFollowsSession, InSession, ReasonToEnd
<1>3. LoopsUnstopped(v)'
  BY DEF WorkerWell, LoopsUnstopped
<1>4. RecordsSuccess(v)'
  BY DEF WorkerWell, RecordsSuccess, Succeeded, IsTerminal
<1> QED
  BY <1>1, <1>2, <1>3, <1>4 DEF WorkerWell

(***************************************************************************)
(* Each kind of step keeps the invariant.  First the steps that touch      *)
(* neither sessions nor runs: schedules, replays, heartbeats and time.     *)
(***************************************************************************)

LEMMA QuietKeeps ==
  ASSUME ControlInv, TypeOK', SameHolders, NoneCompletes, UNCHANGED controlVars
  PROVE  ControlInv'
<1> USE DEF controlVars, history
<1>1. \A w \in Worker : /\ workers'[w].pc = workers[w].pc
                        /\ workers'[w].job = workers[w].job
                        /\ workers'[w].runError = workers[w].runError
  BY DEF SameHolders
<1>2. ControlTypeOK'
  BY <1>1 DEF ControlInv, ControlTypeOK
<1>3. Exclusive'
  BY <1>1 DEF ControlInv, Exclusive, Holds
<1>4. SessionsWell'
  BY <1>1 DEF ControlInv, SessionsWell, SessionWell, RunningIsHeld, InSession,
              ClosedWell, IsTerminal, ReasonToEnd, Outcome
<1>5. WorkersWell'
  BY <1>1 DEF ControlInv, WorkersWell, WorkerWell, RunFollowsSession,
              LoopsUnstopped, RecordsSuccess, InSession
<1>6. CompletedSucceeded'
  BY DEF ControlInv, CompletedSucceeded, NoneCompletes
<1>7. StopsHold'
  BY DEF ControlInv, StopsHold
<1> QED
  BY <1>2, <1>3, <1>4, <1>5, <1>6, <1>7 DEF ControlInv

(* A stop request notes the cycles there are.                              *)
LEMMA RequestStopKeeps ==
  ASSUME ControlInv, TypeOK', NEW j \in JobId, RequestStop(j)
  PROVE  ControlInv'
<1> DEFINE n == Len(sessions[j].cycles)
           asked == [sessions[j] EXCEPT !.stopRequestedAt = {n}]
<1>1. /\ sessions[j] \in Session /\ sessions[j].status = "running"
      /\ sessions' = [sessions EXCEPT ![j] = asked]
      /\ UNCHANGED <<vars, runs, killed, overlapped>>
  BY DEF RequestStop, history, ControlInv, ControlTypeOK
<1>2. /\ asked \in Session /\ asked.status = "running"
      /\ asked.cycles = sessions[j].cycles /\ asked.stopRequestedAt = {n}
      /\ asked.outcome = sessions[j].outcome /\ n \in Nat
  BY <1>1 DEF Session
<1> HIDE DEF asked
<1>3. /\ sessions'[j] = asked
      /\ \A i \in JobId : i # j => sessions'[i] = sessions[i]
  BY <1>1 DEF ControlInv, ControlTypeOK
<1>4. ControlTypeOK'
  BY <1>1, <1>2 DEF ControlInv, ControlTypeOK, vars
<1>5. Exclusive'
  BY <1>1 DEF ControlInv, Exclusive, Holds, vars
<1>6. SessionsWell'
  <2> SUFFICES ASSUME NEW i \in JobId
               PROVE  SessionWell(i)'
    BY DEF SessionsWell
  <2> USE DEF ControlInv, SessionsWell, SessionWell
  <2>1. Len(sessions'[i].cycles) <= CycleCount
    BY <1>1, <1>2, <1>3
  <2>2. sessions'[i].status = "none" => sessions'[i] = sessions[i]
    BY <1>1, <1>2, <1>3
  <2>3. i \notin overlapped => ClosedWell(sessions'[i])
    BY <1>1, <1>2, <1>3 DEF ClosedWell, IsTerminal
  <2>4. RunningIsHeld(i)'
    BY <1>1, <1>2, <1>3 DEF RunningIsHeld, InSession, vars
  <2> QED
    BY <1>1, <2>1, <2>2, <2>3, <2>4
       DEF ClosedWell, IsTerminal, ReasonToEnd, Outcome
<1>7. WorkersWell'
  <2> SUFFICES ASSUME NEW w \in Worker
               PROVE  WorkerWell(w)'
    BY DEF WorkersWell
  <2>1. /\ RunShape(runs[w]) /\ RunFollowsSession(w)
        /\ LoopsUnstopped(w) /\ RecordsSuccess(w)
        /\ workers'[w] = workers[w] /\ runs'[w] = runs[w]
        /\ runs[w].phase # "none" => workers[w].job \in JobId
        /\ workers[w].pc = "recording" => workers[w].job \in JobId
    BY <1>1 DEF ControlInv, WorkersWell, WorkerWell, ControlTypeOK, TypeOK, vars
  <2>2. RunFollowsSession(w)'
    BY <1>1, <1>2, <1>3, <2>1 DEF RunFollowsSession, InSession, ReasonToEnd
  <2>3. LoopsUnstopped(w)'
    BY <1>1, <1>2, <1>3, <2>1 DEF LoopsUnstopped
  <2>4. RecordsSuccess(w)'
    BY <1>1, <1>2, <1>3, <2>1 DEF RecordsSuccess, Succeeded, IsTerminal
  <2> QED
    BY <2>1, <2>2, <2>3, <2>4 DEF WorkerWell, RunShape
<1>8. CompletedSucceeded'
  BY <1>1, <1>2, <1>3
     DEF ControlInv, CompletedSucceeded, Succeeded, IsTerminal, vars
<1>9. StopsHold'
  BY <1>1, <1>2, <1>3 DEF ControlInv, StopsHold
<1> QED
  BY <1>4, <1>5, <1>6, <1>7, <1>8, <1>9 DEF ControlInv

(* A worker takes a job: only now can two of them hold it.                 *)
LEMMA PollKeeps ==
  ASSUME ControlInv, TypeOK', NEW w \in Worker, NEW j \in JobId, Poll(w, j)
  PROVE  ControlInv'
<1> DEFINE opening == [NoRun EXCEPT !.phase = "opening"]
<1>1. /\ NoneCompletes /\ OthersStay(w) /\ workers[w].pc = "idle"
      /\ workers'[w].pc = "executing" /\ workers'[w].job = j
  BY ClaimEffect DEF Poll, ControlInv, ControlTypeOK
<1>2. /\ opening \in Run /\ opening.phase = "opening" /\ opening.cycles = <<>>
  <2>1. NoRun \in Run /\ NoRun.cycles = <<>>
    BY DEF NoRun, Run
  <2> QED
    BY <2>1 DEF Run
<1> HIDE DEF opening
<1>3. /\ runs' = [runs EXCEPT ![w] = opening]
      /\ runs'[w] = opening /\ \A v \in Worker : v # w => runs'[v] = runs[v]
      /\ sessions' = sessions /\ killed' = killed
  BY DEF Poll, RunBecomes, ControlInv, ControlTypeOK, opening
<1>4. /\ overlapped \subseteq overlapped' /\ overlapped' \subseteq JobId
      /\ \A v \in Worker : Holds(v, j) => j \in overlapped'
  BY DEF Poll, ControlInv, ControlTypeOK
<1>5. \A v \in Worker : v # w => workers'[v] = workers[v]
  BY <1>1 DEF OthersStay
<1>6. ControlTypeOK'
  BY <1>1, <1>2, <1>3, <1>4, <1>5 DEF ControlInv, ControlTypeOK
<1>7. Exclusive'
  BY <1>1, <1>4, <1>5 DEF ControlInv, Exclusive, Holds
<1>8. runs[w].phase = "none"
  BY <1>1 DEF ControlInv, ControlTypeOK
<1>9. SessionsWell'
  <2> SUFFICES ASSUME NEW i \in JobId
               PROVE  SessionWell(i)'
    BY DEF SessionsWell
  <2>1. SessionWell(i)
    BY DEF ControlInv, SessionsWell
  <2>2. RunningIsHeld(i)'
    BY <1>3, <1>4, <1>5, <1>8, <2>1 DEF SessionWell, RunningIsHeld, InSession
  <2> QED
    BY <1>3, <1>4, <2>1, <2>2
       DEF SessionWell, ClosedWell, IsTerminal, ReasonToEnd, Outcome
<1>10. WorkersWell'
  <2> SUFFICES ASSUME NEW v \in Worker
               PROVE  WorkerWell(v)'
    BY DEF WorkersWell
  <2>1. CASE v = w
    BY <1>1, <1>2, <1>3, <2>1, RunControlAssumption
       DEF WorkerWell, RunShape, RunFollowsSession, LoopsUnstopped, RecordsSuccess,
           InSession
  <2>2. CASE v # w
    BY <1>3, <1>4, <1>5, <2>2, WorkerKept DEF ControlInv, WorkersWell
  <2> QED
    BY <2>1, <2>2
<1>11. CompletedSucceeded'
  BY <1>1, <1>3, <1>4 DEF ControlInv, CompletedSucceeded, NoneCompletes
<1>12. StopsHold'
  BY <1>3, <1>4 DEF ControlInv, StopsHold
<1> QED
  BY <1>6, <1>7, <1>9, <1>10, <1>11, <1>12 DEF ControlInv

(* A worker records the result of its job.                                 *)
LEMMA RecordKeeps ==
  ASSUME ControlInv, TypeOK', NEW w \in Worker, Record(w)
  PROVE  ControlInv'
<1> USE DEF controlVars, history
<1>1. /\ OthersStay(w) /\ workers[w].pc = "recording" /\ workers'[w].pc = "idle"
      /\ \A j \in JobId : jobs'[j].status = "completed" =>
            \/ jobs[j].status = "completed"
            \/ j = workers[w].job /\ ~workers[w].runError
  BY RecordEffect DEF Record, ControlInv, ControlTypeOK
<1>2. UNCHANGED <<sessions, runs, killed, overlapped>>
  BY DEF Record
<1>3. runs[w].phase = "none"
  BY <1>1 DEF ControlInv, ControlTypeOK
<1>4. \A v \in Worker : v # w => workers'[v] = workers[v]
  BY <1>1 DEF OthersStay
<1>5. ControlTypeOK'
  BY <1>1, <1>2, <1>3, <1>4 DEF ControlInv, ControlTypeOK
<1>6. Exclusive'
  BY <1>1, <1>2, <1>4 DEF ControlInv, Exclusive, Holds
<1>7. SessionsWell'
  BY <1>2, <1>3, <1>4
     DEF ControlInv, SessionsWell, SessionWell, RunningIsHeld, InSession,
         ClosedWell, IsTerminal, ReasonToEnd, Outcome
<1>8. WorkersWell'
  <2> SUFFICES ASSUME NEW v \in Worker
               PROVE  WorkerWell(v)'
    BY DEF WorkersWell
  <2>1. CASE v = w
    BY <1>1, <1>2, <1>3, <2>1
       DEF ControlInv, WorkersWell, WorkerWell, RunShape, RunFollowsSession,
           LoopsUnstopped, RecordsSuccess, InSession
  <2>2. CASE v # w
    BY <1>2, <1>4, <2>2, WorkerKept DEF ControlInv, WorkersWell
  <2> QED
    BY <2>1, <2>2
<1>9. CompletedSucceeded'
  <2> SUFFICES ASSUME NEW j \in JobId \ overlapped, jobs'[j].status = "completed"
               PROVE  Succeeded(sessions[j])
    BY <1>2 DEF CompletedSucceeded
  <2>1. RecordsSuccess(w)
    BY DEF ControlInv, WorkersWell, WorkerWell
  <2> QED
    BY <1>1, <2>1 DEF ControlInv, CompletedSucceeded, RecordsSuccess
<1>10. StopsHold'
  BY <1>2 DEF ControlInv, StopsHold
<1> QED
  BY <1>5, <1>6, <1>7, <1>8, <1>9, <1>10 DEF ControlInv

(* A worker's process dies over its job.                                   *)
LEMMA KillKeeps ==
  ASSUME ControlInv, TypeOK', NEW w \in Worker, Kill(w)
  PROVE  ControlInv'
<1>1. /\ NoneCompletes /\ OthersStay(w) /\ workers[w].pc # "idle"
      /\ workers'[w].pc = "idle"
  BY CrashEffect DEF Kill, ControlInv, ControlTypeOK
<1>2. /\ NoRun \in Run /\ NoRun.phase = "none" /\ NoRun.cycles = <<>>
  BY DEF NoRun, Run
<1>3. /\ runs' = [runs EXCEPT ![w] = NoRun]
      /\ runs'[w] = NoRun /\ \A v \in Worker : v # w => runs'[v] = runs[v]
      /\ UNCHANGED <<sessions, overlapped>>
      /\ killed' = killed \cup {workers[w].job}
      /\ workers[w].job \in JobId
  BY <1>1 DEF Kill, RunBecomes, ControlInv, ControlTypeOK, TypeOK
<1>4. \A v \in Worker : v # w => workers'[v] = workers[v]
  BY <1>1 DEF OthersStay
<1>5. ControlTypeOK'
  BY <1>1, <1>2, <1>3, <1>4 DEF ControlInv, ControlTypeOK
<1>6. Exclusive'
  BY <1>1, <1>3, <1>4 DEF ControlInv, Exclusive, Holds
<1>7. SessionsWell'
  BY <1>3, <1>4
     DEF ControlInv, SessionsWell, SessionWell, RunningIsHeld, InSession,
         ClosedWell, IsTerminal, ReasonToEnd, Outcome
<1>8. WorkersWell'
  <2> SUFFICES ASSUME NEW v \in Worker
               PROVE  WorkerWell(v)'
    BY DEF WorkersWell
  <2>1. CASE v = w
    BY <1>1, <1>2, <1>3, <2>1, RunControlAssumption
       DEF WorkerWell, RunShape, RunFollowsSession, LoopsUnstopped, RecordsSuccess,
           InSession
  <2>2. CASE v # w
    BY <1>3, <1>4, <2>2, WorkerKept DEF ControlInv, WorkersWell
  <2> QED
    BY <2>1, <2>2
<1>9. CompletedSucceeded'
  BY <1>1, <1>3 DEF ControlInv, CompletedSucceeded, NoneCompletes
<1>10. StopsHold'
  BY <1>3 DEF ControlInv, StopsHold
<1> QED
  BY <1>5, <1>6, <1>7, <1>8, <1>9, <1>10 DEF ControlInv

(***************************************************************************)
(* The steps of a session.                                                 *)
(***************************************************************************)

(* What StopsHold asks of one session.                                     *)
StopsObeyed(session) ==
  /\ \A i \in 1..(Len(session.cycles) - 1) : session.cycles[i] = "succeeded"
  /\ \A n \in session.stopRequestedAt : Len(session.cycles) <= n + 1

(* A worker's run is over, and its session closed or left as it was.       *)
LEMMA SettleKeeps ==
  ASSUME ControlInv, TypeOK',
         NEW w \in Worker, NEW error \in BOOLEAN, NEW session \in Session,
         runs[w].phase # "none",
         RunSettles(w, error), RunBecomes(w, NoRun), UNCHANGED history,
         sessions' = [sessions EXCEPT ![workers[w].job] = session],
         Len(session.cycles) <= CycleCount,
         workers[w].job \notin overlapped =>
           /\ IsTerminal(session) /\ ClosedWell(session)
           /\ ~error => session.outcome = "succeeded"
           /\ IsTerminal(sessions[workers[w].job]) =>
                session = sessions[workers[w].job],
         workers[w].job \notin killed \cup overlapped => StopsObeyed(session)
  PROVE  ControlInv'
<1> DEFINE j == workers[w].job
<1>1. /\ NoneCompletes /\ OthersStay(w) /\ workers[w].pc = "executing"
      /\ workers'[w].pc = "recording" /\ workers'[w].job = j
      /\ workers'[w].runError = error
  BY SettleEffect DEF ControlInv, ControlTypeOK
<1>2. j \in JobId
  BY <1>1 DEF ControlInv, ControlTypeOK, TypeOK
<1>3. /\ NoRun \in Run /\ NoRun.phase = "none" /\ NoRun.cycles = <<>>
  BY DEF NoRun, Run
<1>4. /\ runs'[w] = NoRun /\ \A v \in Worker : v # w => runs'[v] = runs[v]
      /\ runs' = [runs EXCEPT ![w] = NoRun]
      /\ killed' = killed /\ overlapped' = overlapped
  BY DEF RunBecomes, ControlInv, ControlTypeOK, history
<1>5. \A v \in Worker : v # w => workers'[v] = workers[v]
  BY <1>1 DEF OthersStay
<1>6. /\ sessions'[j] = session
      /\ \A i \in JobId : i # j => sessions'[i] = sessions[i]
  BY <1>2 DEF ControlInv, ControlTypeOK
<1>7. \A v \in Worker : v # w /\ workers[v].pc # "idle" /\ workers[v].job = j
                          => j \in overlapped
  BY <1>1, <1>2 DEF ControlInv, Exclusive, Holds
<1>8. ControlTypeOK'
  BY <1>1, <1>2, <1>3, <1>4, <1>5 DEF ControlInv, ControlTypeOK
<1>9. Exclusive'
  BY <1>1, <1>4, <1>5 DEF ControlInv, Exclusive, Holds
<1>10. SessionsWell'
  <2> SUFFICES ASSUME NEW i \in JobId PROVE SessionWell(i)'
    BY DEF SessionsWell
  <2>1. CASE i = j
    BY <1>4, <1>6, <2>1
       DEF SessionWell, RunningIsHeld, ClosedWell, IsTerminal, ReasonToEnd, Outcome
  <2>2. CASE i # j
    <3>1. SessionWell(i) /\ sessions'[i] = sessions[i]
      BY <1>6, <2>2 DEF ControlInv, SessionsWell
    <3>2. RunningIsHeld(i)'
      BY <1>4, <1>5, <2>2, <3>1 DEF SessionWell, RunningIsHeld, InSession
    <3> QED
      BY <1>4, <3>1, <3>2
         DEF SessionWell, ClosedWell, IsTerminal, ReasonToEnd, Outcome
  <2> QED
    BY <2>1, <2>2
<1>11. WorkersWell'
  <2> SUFFICES ASSUME NEW v \in Worker PROVE WorkerWell(v)'
    BY DEF WorkersWell
  <2>1. CASE v = w
    BY <1>1, <1>3, <1>4, <1>6, <2>1, RunControlAssumption
       DEF WorkerWell, RunShape, RunFollowsSession, LoopsUnstopped, RecordsSuccess,
           InSession, Succeeded, IsTerminal
  <2>2. CASE v # w
    <3>1. WorkerWell(v)
      BY DEF ControlInv, WorkersWell
    <3>2. runs[v].phase # "none" \/ workers[v].pc = "recording"
            => workers[v].job \in JobId /\ workers[v].pc # "idle"
      BY DEF ControlInv, ControlTypeOK, TypeOK
    <3>3. CASE workers[v].pc = "idle"
      BY <1>4, <1>5, <2>2, <3>1, <3>2, <3>3
         DEF WorkerWell, RunShape, RunFollowsSession, LoopsUnstopped,
             RecordsSuccess, InSession
    <3>4. CASE workers[v].pc # "idle"
      <4>1. workers[v].job \in JobId
        BY <3>4 DEF ControlInv, ControlTypeOK, TypeOK
      <4>2. workers[v].job \notin overlapped' =>
              sessions'[workers[v].job] = sessions[workers[v].job]
        BY <1>4, <1>6, <1>7, <2>2, <3>4, <4>1
      <4> QED
        BY <1>4, <1>5, <2>2, <3>1, <4>2, WorkerKept
    <3> QED
      BY <3>3, <3>4
  <2> QED
    BY <2>1, <2>2
<1>12. CompletedSucceeded'
  BY <1>1, <1>4, <1>6
     DEF ControlInv, CompletedSucceeded, NoneCompletes, Succeeded, IsTerminal
<1>13. StopsHold'
  BY <1>4, <1>6 DEF ControlInv, StopsHold, StopsObeyed
<1> QED
  BY <1>8, <1>9, <1>10, <1>11, <1>12, <1>13 DEF ControlInv

(* A worker begins or goes on with its session.                            *)
LEMMA GoOnKeeps ==
  ASSUME ControlInv, TypeOK',
         NEW w \in Worker, NEW run \in Run, NEW session \in Session,
         workers[w].pc = "executing", UNCHANGED <<vars, history>>,
         run.phase \in {"looping", "saving"}, RunBecomes(w, run),
         sessions' = [sessions EXCEPT ![workers[w].job] = session],
         Len(session.cycles) <= CycleCount,
         workers[w].job \notin overlapped =>
           session.status = "running" /\ ~IsTerminal(sessions[workers[w].job]),
         workers[w].job \notin killed \cup overlapped => StopsObeyed(session),
         WorkerWell(w)'
  PROVE  ControlInv'
<1> DEFINE j == workers[w].job
<1> USE DEF vars, history
<1>1. j \in JobId
  BY DEF ControlInv, ControlTypeOK, TypeOK
<1>2. /\ runs'[w] = run /\ \A v \in Worker : v # w => runs'[v] = runs[v]
      /\ runs' = [runs EXCEPT ![w] = run]
  BY DEF RunBecomes, ControlInv, ControlTypeOK
<1>3. /\ sessions'[j] = session
      /\ \A i \in JobId : i # j => sessions'[i] = sessions[i]
  BY <1>1 DEF ControlInv, ControlTypeOK
<1>4. \A v \in Worker : v # w /\ workers[v].pc # "idle" /\ workers[v].job = j
                          => j \in overlapped
  BY <1>1 DEF ControlInv, Exclusive, Holds
<1>5. ControlTypeOK'
  BY <1>1, <1>2 DEF ControlInv, ControlTypeOK
<1>6. Exclusive'
  BY DEF ControlInv, Exclusive, Holds
<1>7. SessionsWell'
  <2> SUFFICES ASSUME NEW i \in JobId PROVE SessionWell(i)'
    BY DEF SessionsWell
  <2>1. CASE i = j
    BY <1>2, <1>3, <2>1
       DEF SessionWell, RunningIsHeld, InSession, ClosedWell, IsTerminal
  <2>2. CASE i # j
    <3>1. SessionWell(i) /\ sessions'[i] = sessions[i]
      BY <1>3, <2>2 DEF ControlInv, SessionsWell
    <3>2. RunningIsHeld(i)'
      BY <1>2, <2>2, <3>1 DEF SessionWell, RunningIsHeld, InSession
    <3> QED
      BY <3>1, <3>2 DEF SessionWell, ClosedWell, IsTerminal, ReasonToEnd, Outcome
  <2> QED
    BY <2>1, <2>2
<1>8. WorkersWell'
  <2> SUFFICES ASSUME NEW v \in Worker, v # w PROVE WorkerWell(v)'
    BY DEF WorkersWell
  <2>1. WorkerWell(v)
    BY DEF ControlInv, WorkersWell
  <2>2. CASE workers[v].pc = "idle"
    BY <1>2, <2>1, <2>2
       DEF ControlInv, ControlTypeOK, WorkerWell, RunShape, RunFollowsSession,
           LoopsUnstopped, RecordsSuccess, InSession
  <2>3. CASE workers[v].pc # "idle"
    <3>1. workers[v].job \in JobId
      BY <2>3 DEF ControlInv, ControlTypeOK, TypeOK
    <3>2. workers[v].job \notin overlapped' =>
            sessions'[workers[v].job] = sessions[workers[v].job]
      BY <1>3, <1>4, <2>3, <3>1
    <3> QED
      BY <1>2, <2>1, <3>2, WorkerKept
  <2> QED
    BY <2>2, <2>3
<1>9. CompletedSucceeded'
  BY <1>3 DEF ControlInv, CompletedSucceeded, Succeeded, IsTerminal
<1>10. StopsHold'
  BY <1>3 DEF ControlInv, StopsHold, StopsObeyed
<1> QED
  BY <1>5, <1>6, <1>7, <1>8, <1>9, <1>10 DEF ControlInv

LEMMA WorkersSession ==
  ASSUME ControlInv, NEW w \in Worker, workers[w].pc = "executing"
  PROVE  /\ workers[w].job \in JobId /\ sessions[workers[w].job] \in Session
         /\ runs[w] \in Run /\ WorkerWell(w) /\ SessionWell(workers[w].job)
         /\ workers[w].job \notin killed \cup overlapped =>
              StopsObeyed(sessions[workers[w].job])
<1>1. workers[w].job \in JobId
  BY DEF ControlInv, ControlTypeOK, TypeOK
<1> QED
  BY <1>1 DEF ControlInv, ControlTypeOK, WorkersWell, SessionsWell, StopsHold,
              StopsObeyed

(* The first look at the session.                                          *)
LEMMA OpenKeeps ==
  ASSUME ControlInv, TypeOK', NEW w \in Worker, OpenSession(w)
  PROVE  ControlInv'
<1> DEFINE j == workers[w].job
           old == sessions[j]
<1>1. workers[w].pc = "executing" /\ runs[w].phase = "opening" /\ UNCHANGED history
  BY DEF OpenSession
<1>2. /\ j \in JobId /\ old \in Session /\ runs[w] \in Run
      /\ WorkerWell(w) /\ SessionWell(j)
      /\ j \notin killed \cup overlapped => StopsObeyed(old)
  BY <1>1, WorkersSession
<1>3. CASE IsTerminal(old)
  <2>1. RunSettles(w, old.outcome # "succeeded") /\ RunBecomes(w, NoRun)
    BY <1>3, Zenon DEF OpenSession
  <2>2. sessions' = sessions
    BY <1>3, Zenon DEF OpenSession
  <2>3. sessions' = [sessions EXCEPT ![j] = old]
    BY <1>2, <2>2 DEF ControlInv, ControlTypeOK
  <2>4. (old.outcome # "succeeded") \in BOOLEAN
    OBVIOUS
  <2> QED
    BY <1>1, <1>2, <1>3, <2>1, <2>3, <2>4, SettleKeeps DEF SessionWell
<1>4. CASE ~IsTerminal(old)
  <2> DEFINE session == [old EXCEPT !.status = "running"]
             run == [phase |-> NextPhase(old.cycles, FALSE),
                     cycles |-> old.cycles, stopped |-> FALSE]
  <2>1. /\ sessions' = [sessions EXCEPT ![j].status = "running"]
        /\ RunBecomes(w, run) /\ UNCHANGED vars
    BY <1>4, Zenon DEF OpenSession
  <2>2. sessions' = [sessions EXCEPT ![j] = session]
    BY <2>1
  <2>3. /\ session \in Session /\ session.status = "running"
        /\ session.cycles = old.cycles
        /\ session.stopRequestedAt = old.stopRequestedAt
        /\ old.cycles \in Seq(Cycle) /\ Len(old.cycles) \in Nat
    BY <1>2 DEF Session
  <2>4. NextPhase(old.cycles, FALSE) \in {"looping", "saving"}
    BY DEF NextPhase
  <2>5. run \in Run
    BY <2>3, <2>4 DEF Run
  <2>6. /\ run.phase \in {"looping", "saving"} /\ run.cycles = old.cycles
        /\ run.stopped = FALSE
        /\ run.phase = "looping" <=> Len(old.cycles) < CycleCount
    BY <2>3, <2>4, RunControlAssumption DEF NextPhase
  <2>7. j \notin killed \cup overlapped =>
          old.cycles = <<>> /\ old.stopRequestedAt = {}
    <3> SUFFICES ASSUME j \notin killed \cup overlapped
                 PROVE  old.cycles = <<>> /\ old.stopRequestedAt = {}
      OBVIOUS
    <3>1. old.status # "running"
      <4> SUFFICES ASSUME old.status = "running" PROVE FALSE
        OBVIOUS
      <4>1. PICK v \in Worker : InSession(v) /\ workers[v].job = j
        BY <1>2 DEF SessionWell, RunningIsHeld
      <4>2. workers[v].pc = "executing"
        BY <4>1 DEF InSession, ControlInv, ControlTypeOK
      <4>3. v = w
        BY <1>1, <1>2, <4>1, <4>2 DEF ControlInv, Exclusive, Holds
      <4> QED
        BY <1>1, <4>1, <4>3 DEF InSession
    <3>2. old.status = "none"
      BY <1>2, <1>4, <3>1 DEF Session, IsTerminal
    <3> QED
      BY <1>2, <3>2 DEF SessionWell, NoSession
  <2> HIDE DEF session, run
  <2>8. j \notin killed \cup overlapped => StopsObeyed(session)
    BY <1>2, <2>3 DEF StopsObeyed
  <2>9. /\ runs'[w] = run /\ sessions'[j] = session /\ workers'[w] = workers[w]
        /\ killed' = killed /\ overlapped' = overlapped
    BY <1>1, <1>2, <2>1, <2>2
       DEF RunBecomes, ControlInv, ControlTypeOK, vars, history
  <2>10. Len(old.cycles) <= CycleCount
    BY <1>2 DEF SessionWell
  <2>11. WorkerWell(w)'
    BY <1>1, <2>3, <2>6, <2>7, <2>9, <2>10, RunControlAssumption
       DEF WorkerWell, RunShape, RunFollowsSession, LoopsUnstopped, RecordsSuccess
  <2>12. UNCHANGED <<vars, history>>
    BY <1>1, <2>1
  <2> QED
    BY <1>1, <1>4, <2>1, <2>2, <2>3, <2>5, <2>6, <2>8, <2>10, <2>11, <2>12,
       GoOnKeeps
<1> QED
  BY <1>3, <1>4

(* A run that throws leaves its session, and cannot throw unless another   *)
(* worker held its job.                                                    *)
LEMMA ThrowKeeps ==
  ASSUME ControlInv, TypeOK', NEW w \in Worker,
         workers[w].pc = "executing", runs[w].phase # "none",
         RunThrows(w), UNCHANGED history, workers[w].job \in overlapped
  PROVE  ControlInv'
<1> DEFINE j == workers[w].job
<1>1. /\ j \in JobId /\ sessions[j] \in Session /\ SessionWell(j)
  BY WorkersSession
<1>2. RunSettles(w, TRUE) /\ RunBecomes(w, NoRun) /\ sessions' = sessions
  BY DEF RunThrows
<1>3. sessions' = [sessions EXCEPT ![j] = sessions[j]]
  BY <1>1, <1>2 DEF ControlInv, ControlTypeOK
<1>4. TRUE \in BOOLEAN
  OBVIOUS
<1> QED
  BY <1>1, <1>2, <1>3, <1>4, SettleKeeps DEF SessionWell

(* A cycle returns and is recorded.                                        *)
LEMMA RunCycleKeeps ==
  ASSUME ControlInv, TypeOK', NEW w \in Worker, NEW cycle \in Cycle,
         RunCycle(w, cycle)
  PROVE  ControlInv'
<1> DEFINE j == workers[w].job
           old == sessions[j]
<1>1. workers[w].pc = "executing" /\ runs[w].phase = "looping" /\ UNCHANGED history
  BY DEF RunCycle
<1>2. /\ j \in JobId /\ old \in Session /\ runs[w] \in Run
      /\ WorkerWell(w) /\ SessionWell(j)
      /\ j \notin killed \cup overlapped => StopsObeyed(old)
  BY <1>1, WorkersSession
<1>3. j \notin overlapped => old.status = "running" /\ old.cycles = runs[w].cycles
  BY <1>1, <1>2 DEF WorkerWell, RunFollowsSession, InSession
<1>4. CASE Len(old.cycles) # Len(runs[w].cycles)
  <2>1. RunThrows(w)
    BY <1>4, Zenon DEF RunCycle
  <2> QED
    BY <1>1, <1>3, <1>4, <2>1, ThrowKeeps
<1>5. CASE Len(old.cycles) = Len(runs[w].cycles)
  <2> DEFINE session == [old EXCEPT !.cycles = Append(@, cycle)]
             cycles == Append(runs[w].cycles, cycle)
             stopped == Stops(old, cycle)
             run == [phase |-> NextPhase(cycles, stopped),
                     cycles |-> cycles, stopped |-> stopped]
  <2>1. /\ sessions' = [sessions EXCEPT ![j].cycles = Append(@, cycle)]
        /\ RunBecomes(w, run) /\ UNCHANGED vars
    BY <1>5, Zenon DEF RunCycle
  <2>2. sessions' = [sessions EXCEPT ![j] = session]
    BY <2>1
  <2>3. /\ old.cycles \in Seq(Cycle) /\ Len(old.cycles) \in Nat
        /\ runs[w].cycles \in Seq(Cycle)
        /\ old.stopRequestedAt \subseteq Nat
    BY <1>2 DEF Session, Run
  <2>4. /\ Append(old.cycles, cycle) \in Seq(Cycle)
        /\ Len(Append(old.cycles, cycle)) = Len(old.cycles) + 1
        /\ DOMAIN Append(old.cycles, cycle) = 1..(Len(old.cycles) + 1)
        /\ \A i \in 1..Len(old.cycles) : Append(old.cycles, cycle)[i] = old.cycles[i]
        /\ Append(old.cycles, cycle)[Len(old.cycles) + 1] = cycle
    BY <2>3, AppendedCycle
  <2>5. /\ session \in Session /\ session.status = old.status
        /\ session.cycles = Append(old.cycles, cycle)
        /\ session.stopRequestedAt = old.stopRequestedAt
    BY <1>2, <2>4 DEF Session
  <2>6. cycles \in Seq(Cycle) /\ Len(cycles) = Len(old.cycles) + 1
    BY <1>5, <2>3, AppendedCycle
  <2>7. stopped \in BOOLEAN /\ (stopped <=> cycle # "succeeded" \/ old.stopRequestedAt # {})
    BY DEF Stops
  <2>8. Len(old.cycles) < CycleCount
    BY <1>1, <1>2, <1>5 DEF WorkerWell, RunShape
  <2> HIDE DEF session, cycles, stopped
  <2>9. /\ NextPhase(cycles, stopped) \in {"looping", "saving"}
        /\ NextPhase(cycles, stopped) = "looping"
             <=> ~stopped /\ Len(old.cycles) + 1 < CycleCount
    BY <2>3, <2>6, <2>7, RunControlAssumption DEF NextPhase
  <2>10. /\ run \in Run /\ run.cycles = cycles /\ run.stopped = stopped
         /\ run.phase \in {"looping", "saving"}
         /\ run.phase = "looping" <=> ~stopped /\ Len(old.cycles) + 1 < CycleCount
    BY <2>6, <2>7, <2>9 DEF Run
  <2> HIDE DEF run
  <2>11. /\ runs'[w] = run /\ sessions'[j] = session /\ workers'[w] = workers[w]
         /\ killed' = killed /\ overlapped' = overlapped
    BY <1>1, <1>2, <2>1, <2>2
       DEF RunBecomes, ControlInv, ControlTypeOK, vars, history
  <2>12. j \notin overlapped => session.cycles = cycles
    BY <1>3, <2>5 DEF cycles
  <2>13. Len(session.cycles) <= CycleCount
    BY <2>3, <2>4, <2>5, <2>8, RunControlAssumption
  <2>14. LoopsUnstopped(w)
    BY <1>2 DEF WorkerWell
  <2>15. j \notin killed \cup overlapped =>
           /\ \A i \in DOMAIN old.cycles : old.cycles[i] = "succeeded"
           /\ \A n \in old.stopRequestedAt : Len(old.cycles) <= n
    BY <1>1, <2>14 DEF LoopsUnstopped
  <2>16. j \notin killed \cup overlapped => StopsObeyed(session)
    BY <2>3, <2>4, <2>5, <2>15 DEF StopsObeyed
  <2>17. WorkerWell(w)'
    <3>1. RunShape(run)
      <4> DEFINE fits == Len(old.cycles) + 1 < CycleCount
      <4>1. /\ Len(run.cycles) = Len(old.cycles) + 1 /\ Len(run.cycles) <= CycleCount
            /\ fits <=> Len(run.cycles) < CycleCount
            /\ ~fits => Len(run.cycles) = CycleCount
        BY <2>3, <2>6, <2>8, <2>10, RunControlAssumption
      <4>2. run.phase = "looping" <=> ~run.stopped /\ fits
        BY <2>10
      <4>3. "saving" # "looping"
        OBVIOUS
      <4> HIDE DEF fits
      <4>4. run.phase = "saving" /\ ~run.stopped => ~fits
        BY <4>2, <4>3, Zenon
      <4>5. run.phase = "looping" => ~run.stopped /\ fits
        BY <4>2, Zenon
      <4> QED
        BY <4>1, <4>4, <4>5, Zenon DEF RunShape
    <3>2. stopped => ReasonToEnd(session)
      <4>1. CASE cycle # "succeeded"
        <5>1. Len(old.cycles) + 1 \in DOMAIN session.cycles
          BY <2>3, <2>4, <2>5
        <5>2. session.cycles[Len(old.cycles) + 1] = cycle
          BY <2>4, <2>5
        <5> QED
          BY <4>1, <5>1, <5>2 DEF ReasonToEnd
      <4>2. CASE old.stopRequestedAt # {}
        BY <2>5, <4>2 DEF ReasonToEnd
      <4> QED
        BY <2>7, <4>1, <4>2
    <3>3. RunFollowsSession(w)'
      BY <1>3, <2>5, <2>10, <2>11, <2>12, <3>2
         DEF RunFollowsSession, ReasonToEnd
    <3>4. LoopsUnstopped(w)'
      <4> SUFFICES ASSUME j \notin killed \cup overlapped, run.phase = "looping"
                   PROVE  /\ \A i \in DOMAIN session.cycles :
                               session.cycles[i] = "succeeded"
                          /\ session.stopRequestedAt = {}
        BY <2>11 DEF LoopsUnstopped
      <4>1. cycle = "succeeded" /\ old.stopRequestedAt = {}
        BY <2>7, <2>10
      <4> QED
        BY <2>3, <2>4, <2>5, <2>15, <4>1
    <3>5. RecordsSuccess(w)'
      BY <1>1, <2>11 DEF RecordsSuccess
    <3> QED
      BY <2>11, <3>1, <3>3, <3>4, <3>5 DEF WorkerWell, RunShape
  <2>18. UNCHANGED <<vars, history>>
    BY <1>1, <2>1
  <2>19. j \notin overlapped =>
           session.status = "running" /\ ~IsTerminal(old)
    BY <1>3, <2>5 DEF IsTerminal
  <2> QED
    BY <1>1, <2>1, <2>2, <2>5, <2>10, <2>13, <2>16, <2>17, <2>18, <2>19, GoOnKeeps
<1> QED
  BY <1>4, <1>5

(* The final save.                                                         *)
LEMMA SaveKeeps ==
  ASSUME ControlInv, TypeOK', NEW w \in Worker, SaveSession(w)
  PROVE  ControlInv'
<1> DEFINE j == workers[w].job
           old == sessions[j]
           cycles == runs[w].cycles
<1>1. workers[w].pc = "executing" /\ runs[w].phase = "saving" /\ UNCHANGED history
  BY DEF SaveSession
<1>2. /\ j \in JobId /\ old \in Session /\ runs[w] \in Run
      /\ WorkerWell(w) /\ SessionWell(j)
      /\ j \notin killed \cup overlapped => StopsObeyed(old)
  BY <1>1, WorkersSession
<1>3. j \notin overlapped => old.status = "running" /\ old.cycles = cycles
  BY <1>1, <1>2 DEF WorkerWell, RunFollowsSession, InSession
<1>4. cycles \in Seq(Cycle) /\ old.cycles \in Seq(Cycle)
  BY <1>2 DEF Session, Run
<1>5. CASE ~IsPrefix(old.cycles, cycles)
  <2>1. RunThrows(w)
    BY <1>5, Zenon DEF SaveSession
  <2>2. j \in overlapped
    BY <1>3, <1>4, <1>5, PrefixOfItself
  <2> QED
    BY <1>1, <2>1, <2>2, ThrowKeeps
<1>6. CASE IsPrefix(old.cycles, cycles)
  <2> DEFINE status == IF runs[w].stopped THEN "stopped" ELSE "completed"
             session == [old EXCEPT !.status = status, !.cycles = cycles,
                                    !.outcome = Outcome(cycles)]
             error == Outcome(cycles) # "succeeded"
  <2>1. /\ sessions' = [sessions EXCEPT ![j].status = status, ![j].cycles = cycles,
                                        ![j].outcome = Outcome(cycles)]
        /\ RunSettles(w, error) /\ RunBecomes(w, NoRun)
    BY <1>6, Zenon DEF SaveSession
  <2>2. sessions' = [sessions EXCEPT ![j] = session]
    BY <1>2, <2>1 DEF ControlInv, ControlTypeOK
  <2>3. Outcome(cycles) \in {"succeeded", "failed"}
    BY DEF Outcome
  <2>4. /\ session \in Session /\ session.status \in {"completed", "stopped"}
        /\ session.cycles = cycles /\ session.outcome = Outcome(cycles)
        /\ session.stopRequestedAt = old.stopRequestedAt
    BY <1>2, <1>4, <2>3 DEF Session
  <2> HIDE DEF session
  <2>5. Len(cycles) <= CycleCount /\ (~runs[w].stopped => Len(cycles) = CycleCount)
    BY <1>1, <1>2 DEF WorkerWell, RunShape
  <2>6. j \notin overlapped => ClosedWell(session)
    BY <1>1, <1>2, <1>3, <2>4, <2>5
       DEF ClosedWell, ReasonToEnd, WorkerWell, RunFollowsSession, InSession
  <2>7. j \notin killed \cup overlapped => StopsObeyed(session)
    BY <1>2, <1>3, <2>4 DEF StopsObeyed
  <2>8. j \notin overlapped =>
          /\ IsTerminal(session) /\ (~error => session.outcome = "succeeded")
          /\ ~IsTerminal(old)
    BY <1>3, <2>4 DEF IsTerminal
  <2>9. error \in BOOLEAN
    OBVIOUS
  <2> QED
    BY <1>1, <2>1, <2>2, <2>4, <2>5, <2>6, <2>7, <2>8, <2>9, SettleKeeps
<1> QED
  BY <1>5, <1>6

-----------------------------------------------------------------------------
(***************************************************************************)
(* The theorems.                                                           *)
(***************************************************************************)

LEMMA NextKeepsControlInv ==
  ControlInv /\ [ControlNext]_allVars => ControlInv'
<1> SUFFICES ASSUME ControlInv, [ControlNext]_allVars PROVE ControlInv'
  OBVIOUS
<1>1. TypeOK /\ TypeOK'
  BY ControlStepsTheQueue, NextTyped DEF ControlInv, ControlTypeOK
<1>2. ASSUME NEW j \in JobId, Schedule(j) PROVE ControlInv'
  BY <1>1, <1>2, EnqueueEffect, QuietKeeps DEF Schedule
<1>3. ASSUME NEW j \in JobId, Recover(j) PROVE ControlInv'
  BY <1>1, <1>3, ReplayEffect, QuietKeeps DEF Recover
<1>4. ASSUME NEW j \in JobId, RequestStop(j) PROVE ControlInv'
  BY <1>1, <1>4, RequestStopKeeps
<1>5. ASSUME NEW w \in Worker, NEW j \in JobId, Poll(w, j) PROVE ControlInv'
  BY <1>1, <1>5, PollKeeps
<1>6. ASSUME NEW w \in Worker, OpenSession(w) PROVE ControlInv'
  BY <1>1, <1>6, OpenKeeps
<1>7. ASSUME NEW w \in Worker, NEW cycle \in Cycle, RunCycle(w, cycle)
      PROVE  ControlInv'
  BY <1>1, <1>7, RunCycleKeeps
<1>8. ASSUME NEW w \in Worker, SaveSession(w) PROVE ControlInv'
  BY <1>1, <1>8, SaveKeeps
<1>9. ASSUME NEW w \in Worker, Record(w) PROVE ControlInv'
  BY <1>1, <1>9, RecordKeeps
<1>10. ASSUME NEW w \in Worker, Beat(w) PROVE ControlInv'
  BY <1>1, <1>10, BeatEffect, QuietKeeps DEF Beat
<1>11. ASSUME NEW w \in Worker, Kill(w) PROVE ControlInv'
  BY <1>1, <1>11, KillKeeps
<1>12. CASE TimePasses
  BY <1>1, <1>12, TickEffect, QuietKeeps DEF TimePasses
<1>13. CASE UNCHANGED allVars
  <2>1. SameHolders /\ NoneCompletes /\ UNCHANGED controlVars
    BY <1>13 DEF allVars, vars, SameHolders, NoneCompletes
  <2> QED
    BY <1>1, <2>1, QuietKeeps
<1> QED
  BY <1>2, <1>3, <1>4, <1>5, <1>6, <1>7, <1>8, <1>9, <1>10, <1>11, <1>12, <1>13
     DEF ControlNext, Advances

(* The inductive invariant: the queue's records, the sessions and the runs *)
(* in the workers' memory agree (runCycles, runNext, appendCycle).         *)
THEOREM ControlInvariant == ControlSpec => []ControlInv
BY InitControlInv, NextKeepsControlInv, PTL DEF ControlSpec

(* The records of the queue, the sessions and the workers' runs keep their *)
(* types, and a worker has a run exactly while it executes a job.          *)
THEOREM ControlTypeCorrect == ControlSpec => []ControlTypeOK
<1>1. ControlInv => ControlTypeOK
  BY DEF ControlInv
<1> QED
  BY <1>1, ControlInvariant, PTL

(* However often a job is retried, killed, replayed or asked to stop: a    *)
(* job the queue calls completed, which two workers never held at once, is *)
(* a run whose session is closed, none of whose cycles failed and that has *)
(* all its cycles or a reason to have fewer (runCycles, runNext).          *)
THEOREM CompletedRunsDidSucceed == ControlSpec => []CompletedRunsSucceeded
<1>1. ControlInv => CompletedRunsSucceeded
  <2> SUFFICES ASSUME ControlInv, NEW j \in JobId \ overlapped,
                      jobs[j].status = "completed"
               PROVE  LET session == sessions[j] IN
                        /\ IsTerminal(session)
                        /\ \A i \in DOMAIN session.cycles :
                             session.cycles[i] # "failed"
                        /\ \/ Len(session.cycles) = CycleCount
                           \/ session.stopRequestedAt # {}
                           \/ \E i \in DOMAIN session.cycles :
                                session.cycles[i] = "attention"
    BY DEF CompletedRunsSucceeded
  <2>1. Succeeded(sessions[j])
    BY DEF ControlInv, CompletedSucceeded
  <2>2. ClosedWell(sessions[j]) /\ sessions[j] \in Session
    BY DEF ControlInv, SessionsWell, SessionWell, ControlTypeOK
  <2>3. \A i \in DOMAIN sessions[j].cycles : sessions[j].cycles[i] # "failed"
    BY <2>1, <2>2 DEF Succeeded, ClosedWell, Outcome
  <2>4. \A i \in DOMAIN sessions[j].cycles : sessions[j].cycles[i] \in Cycle
    BY <2>2 DEF Session
  <2>5. ReasonToEnd(sessions[j])
    BY <2>1, <2>2 DEF Succeeded, ClosedWell
  <2> QED
    BY <2>1, <2>3, <2>4, <2>5 DEF Succeeded, ReasonToEnd, Cycle
<1> QED
  BY <1>1, ControlInvariant, PTL

(* Behind a failed or a flagged cycle, or the cycle in flight when a stop  *)
(* was requested, no further cycle is recorded, unless a process died over *)
(* the run or two workers held it (the loop of runCycles).                 *)
THEOREM StopsAreObeyed == ControlSpec => []StopsHold
<1>1. ControlInv => StopsHold
  BY DEF ControlInv
<1> QED
  BY <1>1, ControlInvariant, PTL

(* Cycles are only ever added to a session behind those it has.            *)
LEMMA CyclesOnlyGrow ==
  ASSUME ControlTypeOK, [ControlNext]_allVars, NEW j \in JobId
  PROVE  IsPrefix(sessions[j].cycles, sessions'[j].cycles)
<1> DEFINE old == sessions[j]
<1>1. old \in Session /\ old.cycles \in Seq(Cycle)
  BY DEF ControlTypeOK, Session
<1>2. ASSUME sessions'[j] = old PROVE IsPrefix(old.cycles, sessions'[j].cycles)
  BY <1>1, <1>2, PrefixOfItself
<1>3. ASSUME NEW i \in JobId, RequestStop(i)
      PROVE  IsPrefix(old.cycles, sessions'[j].cycles)
  <2>1. sessions'[j].cycles = old.cycles
    BY <1>1, <1>3 DEF RequestStop, ControlTypeOK, Session
  <2> QED
    BY <1>1, <2>1, PrefixOfItself
<1>4. ASSUME NEW w \in Worker, OpenSession(w)
      PROVE  IsPrefix(old.cycles, sessions'[j].cycles)
  <2>1. \/ sessions' = sessions
        \/ sessions' = [sessions EXCEPT ![workers[w].job].status = "running"]
    BY <1>4, Zenon DEF OpenSession
  <2>2. sessions'[j].cycles = old.cycles
    BY <1>1, <2>1 DEF ControlTypeOK, Session
  <2> QED
    BY <1>1, <2>2, PrefixOfItself
<1>5. ASSUME NEW w \in Worker, NEW cycle \in Cycle, RunCycle(w, cycle)
      PROVE  IsPrefix(old.cycles, sessions'[j].cycles)
  <2>1. \/ sessions' = sessions
        \/ sessions' = [sessions EXCEPT ![workers[w].job].cycles = Append(@, cycle)]
    BY <1>5, Zenon DEF RunCycle, RunThrows
  <2>2. \/ sessions'[j].cycles = old.cycles
        \/ sessions'[j].cycles = Append(old.cycles, cycle)
    BY <1>1, <2>1 DEF ControlTypeOK, Session
  <2>3. IsPrefix(old.cycles, Append(old.cycles, cycle))
    <3> DEFINE longer == Append(old.cycles, cycle)
    <3>1. longer \in Seq(Cycle) /\ Len(longer) = Len(old.cycles) + 1
      BY <1>1, AppendedCycle
    <3>2. \A i \in 1..Len(old.cycles) : old.cycles[i] = longer[i]
      BY <1>1, AppendedCycle
    <3>3. Len(old.cycles) <= Len(longer)
      BY <1>1, <3>1
    <3> HIDE DEF longer
    <3>4. IsPrefix(old.cycles, longer)
      BY <1>1, <3>1, <3>2, <3>3, PrefixOfCycles
    <3> QED
      BY <3>4 DEF longer
  <2> QED
    BY <1>1, <2>2, <2>3, PrefixOfItself
<1>6. ASSUME NEW w \in Worker, SaveSession(w)
      PROVE  IsPrefix(old.cycles, sessions'[j].cycles)
  <2> DEFINE saved == runs[w].cycles
             status == IF runs[w].stopped THEN "stopped" ELSE "completed"
  <2>1. \/ sessions' = sessions
        \/ /\ sessions' = [sessions EXCEPT ![workers[w].job].status = status,
                                           ![workers[w].job].cycles = saved,
                                           ![workers[w].job].outcome = Outcome(saved)]
           /\ IsPrefix(sessions[workers[w].job].cycles, saved)
    BY <1>6, Zenon DEF SaveSession, RunThrows
  <2> HIDE DEF saved, status
  <2>2. CASE sessions' = sessions
    BY <1>2, <2>2
  <2>3. CASE sessions' # sessions
    <3>1. /\ sessions' = [sessions EXCEPT ![workers[w].job].status = status,
                                         ![workers[w].job].cycles = saved,
                                         ![workers[w].job].outcome = Outcome(saved)]
          /\ IsPrefix(sessions[workers[w].job].cycles, saved)
      BY <2>1, <2>3
    <3>2. CASE j = workers[w].job
      BY <1>1, <3>1, <3>2 DEF ControlTypeOK, Session
    <3>3. CASE j # workers[w].job
      BY <1>2, <3>1, <3>3 DEF ControlTypeOK
    <3> QED
      BY <3>2, <3>3
  <2> QED
    BY <2>2, <2>3
<1>7. CASE sessions' = sessions
  BY <1>2, <1>7
<1>8. ASSUME NEW i \in JobId, Schedule(i) \/ Recover(i) PROVE sessions' = sessions
  BY <1>8 DEF Schedule, Recover, controlVars
<1>9. ASSUME NEW w \in Worker, NEW i \in JobId, Poll(w, i) PROVE sessions' = sessions
  BY <1>9 DEF Poll
<1>10. ASSUME NEW w \in Worker, Record(w) \/ Beat(w) \/ Kill(w)
       PROVE  sessions' = sessions
  BY <1>10 DEF Record, Beat, Kill, controlVars
<1>11. CASE TimePasses \/ UNCHANGED allVars
  BY <1>7, <1>11 DEF TimePasses, controlVars, allVars
<1> QED
  BY <1>3, <1>4, <1>5, <1>6, <1>7, <1>8, <1>9, <1>10, <1>11 DEF ControlNext, Advances

(* A closed session, whose job two workers never held at once, is not      *)
(* written again.                                                          *)
LEMMA ClosedStands ==
  ASSUME ControlInv, [ControlNext]_allVars, NEW j \in JobId,
         IsTerminal(sessions[j]), j \notin overlapped
  PROVE  sessions'[j] = sessions[j]
<1>1. ASSUME NEW w \in Worker, InSession(w) PROVE workers[w].job # j
  <2>1. runs[w].phase # "none"
    BY <1>1 DEF InSession
  <2> QED
    BY <1>1, <2>1
       DEF ControlInv, WorkersWell, WorkerWell, RunFollowsSession, IsTerminal
<1>2. ASSUME NEW i \in JobId, RequestStop(i) PROVE sessions'[j] = sessions[j]
  BY <1>2 DEF RequestStop, ControlInv, ControlTypeOK, IsTerminal
<1>3. ASSUME NEW w \in Worker, OpenSession(w) PROVE sessions'[j] = sessions[j]
  <2>1. \/ sessions' = sessions
        \/ /\ sessions' = [sessions EXCEPT ![workers[w].job].status = "running"]
           /\ ~IsTerminal(sessions[workers[w].job])
    BY <1>3, Zenon DEF OpenSession
  <2> QED
    BY <2>1 DEF ControlInv, ControlTypeOK
<1>4. ASSUME NEW w \in Worker, NEW cycle \in Cycle, RunCycle(w, cycle)
      PROVE  sessions'[j] = sessions[j]
  <2>1. \/ sessions' = sessions
        \/ sessions' = [sessions EXCEPT ![workers[w].job].cycles = Append(@, cycle)]
    BY <1>4, Zenon DEF RunCycle, RunThrows
  <2>2. workers[w].job # j
    BY <1>1, <1>4 DEF RunCycle, InSession
  <2> QED
    BY <2>1, <2>2 DEF ControlInv, ControlTypeOK
<1>5. ASSUME NEW w \in Worker, SaveSession(w) PROVE sessions'[j] = sessions[j]
  <2> DEFINE saved == runs[w].cycles
             status == IF runs[w].stopped THEN "stopped" ELSE "completed"
  <2>1. \/ sessions' = sessions
        \/ sessions' = [sessions EXCEPT ![workers[w].job].status = status,
                                        ![workers[w].job].cycles = saved,
                                        ![workers[w].job].outcome = Outcome(saved)]
    BY <1>5, Zenon DEF SaveSession, RunThrows
  <2>2. workers[w].job # j
    BY <1>1, <1>5 DEF SaveSession, InSession
  <2> QED
    BY <2>1, <2>2 DEF ControlInv, ControlTypeOK
<1>6. ASSUME NEW i \in JobId, Schedule(i) \/ Recover(i) PROVE sessions' = sessions
  BY <1>6 DEF Schedule, Recover, controlVars
<1>7. ASSUME NEW w \in Worker, NEW i \in JobId, Poll(w, i) PROVE sessions' = sessions
  BY <1>7 DEF Poll
<1>8. ASSUME NEW w \in Worker, Record(w) \/ Beat(w) \/ Kill(w)
      PROVE  sessions' = sessions
  BY <1>8 DEF Record, Beat, Kill, controlVars
<1>9. CASE TimePasses \/ UNCHANGED allVars
  BY <1>9 DEF TimePasses, controlVars, allVars
<1> QED
  BY <1>2, <1>3, <1>4, <1>5, <1>6, <1>7, <1>8, <1>9 DEF ControlNext, Advances

(* Recorded cycles are never removed or rewritten, whatever runners overlap *)
(* or resume; and a closed session, whose job two workers never held at    *)
(* once, changes no more (appendCycle, save, assertNextCycle).             *)
THEOREM RecordedRunsStand == ControlSpec => RunHistoryStands
<1>1. ControlInv /\ [ControlNext]_allVars =>
        [\A j \in JobId :
           /\ IsPrefix(sessions[j].cycles, sessions'[j].cycles)
           /\ IsTerminal(sessions[j]) /\ j \notin overlapped =>
                sessions'[j] = sessions[j]]_allVars
  BY CyclesOnlyGrow, ClosedStands DEF ControlInv
<1> QED
  BY <1>1, ControlInvariant, PTL DEF ControlSpec, RunHistoryStands

(* What is proved of the queue holds of it under its callers: a worker that *)
(* runs a job owns its lease or has been superseded, a job is completed by *)
(* its last attempt and by no other, and its clients see the ledger.       *)
THEOREM ControlledQueueIsSafe ==
  ControlSpec => [](AttemptAuthority /\ CompletedByLastAttempt) /\ ImplementsLedger
<1>1. Spec => [](AttemptAuthority /\ CompletedByLastAttempt)
  BY AttemptsHaveAuthority, SingleCompletion, PTL
<1> QED
  BY <1>1, ControlDrivesQueue, QueueImplementsLedger, PTL
=============================================================================
