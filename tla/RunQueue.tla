------------------------------ MODULE RunQueue ------------------------------
(***************************************************************************)
(* The durable run queue of the local runtime and the workers that drain   *)
(* it (localSimulationRuntimeRunQueue.ts).  A job is a request to run       *)
(* simulation cycles.  A worker claims the oldest eligible job under a     *)
(* lease, renews the lease from a heartbeat timer while the supervisor     *)
(* runs the job, and records the outcome of its attempt.  A lease that is  *)
(* not renewed in time may be claimed again, by any worker, while the      *)
(* first one is still executing.                                           *)
(*                                                                         *)
(* Every repository operation reads and writes synchronously in one        *)
(* microtask, so it is one action.  Time enters the code only through      *)
(* comparisons of a stored deadline with the current clock; the model      *)
(* keeps what is left of each deadline (0 = reached) and Tick lets one     *)
(* unit pass, which makes the state finite without a bound on the clock.   *)
(***************************************************************************)
EXTENDS Naturals, Integers, Sequences, FiniteSets

CONSTANTS
  JobId,          \* job ids, numbers in the order localeCompare gives them
  Worker,         \* worker ids
  NoWorker,       \* leaseOwnerId of a job without an owner
  LeaseDuration,  \* leaseDurationMs, in ticks
  MaxAttempts,    \* maxAttempts of the workers' fail requests
  RetryDelay,     \* retryDelayMs, in ticks
  TimerDelay,     \* how late the event loop may fire a heartbeat timer
  ReplayBudgets,  \* the maxAttempts a replay request may carry
  MaxReplays,     \* bound: replays of one job by the environment
  MaxClaims,      \* bound: attempts of one job
  MaxCrashes,     \* bound: crashes of workers
  MaxIoErrors     \* bound: renewals that throw

ASSUME RunQueueAssumption ==
  /\ JobId \subseteq Nat /\ IsFiniteSet(JobId)
  /\ NoWorker \notin Worker
  /\ LeaseDuration \in Nat \ {0}
  /\ MaxAttempts \in Nat \ {0}
  /\ RetryDelay \in Nat /\ TimerDelay \in Nat
  /\ ReplayBudgets \subseteq Nat \ {0}
  /\ MaxReplays \in Nat /\ MaxClaims \in Nat
  /\ MaxCrashes \in Nat /\ MaxIoErrors \in Nat

VARIABLES
  jobs,     \* the repository: the latest record of every job id
  workers,  \* the local state of each worker's runNext call
  crashes,  \* crashes so far
  ioErrors  \* failing renewals so far

faults == <<crashes, ioErrors>>

vars == <<jobs, workers, crashes, ioErrors>>

-----------------------------------------------------------------------------
(* Jobs.  "failed" is declared by the code and never stored; "absent" is a *)
(* job id that no record mentions.                                         *)

Status == {"absent", "queued", "leased", "completed", "dead-lettered"}

Attempt == [worker : Worker, outcome : {"open", "completed", "failed"}]

Job == [status : Status,
        enqueuedAt : Nat,
        attempts : Seq(Attempt),
        failedAttemptCount : Nat,
        maxAttempts : Nat,        \* 0: undefined
        replayCount : Nat,
        delayLeft : Nat,          \* until nextAttemptAt
        leaseOwnerId : Worker \cup {NoWorker},
        leaseLeft : Nat]          \* until leaseExpiresAt

AbsentJob ==
  [status |-> "absent", enqueuedAt |-> 0, attempts |-> <<>>,
   failedAttemptCount |-> 0, maxAttempts |-> 0, replayCount |-> 0,
   delayLeft |-> 0, leaseOwnerId |-> NoWorker, leaseLeft |-> 0]

AttemptCount(job) == Len(job.attempts)

AnnotateLatestAttempt(attempts, outcome) ==
  [i \in DOMAIN attempts |->
     IF i = Len(attempts) THEN [attempts[i] EXCEPT !.outcome = outcome]
                          ELSE attempts[i]]

CreateQueuedJob(time) ==
  [AbsentJob EXCEPT !.status = "queued", !.enqueuedAt = time]

CreateLeasedJob(job, w) ==
  [job EXCEPT !.status = "leased",
              !.leaseOwnerId = w,
              !.leaseLeft = LeaseDuration,
              !.attempts = Append(@, [worker |-> w, outcome |-> "open"])]

\* Mutant of createRenewedLeaseJob: the old expiry is written back.
RenewKeepsExpiry(job) == job

CreateRenewedLeaseJob(job) == [job EXCEPT !.leaseLeft = LeaseDuration]

\* The fields a settled or requeued job drops: owner, expiry, next attempt.
Unleased(job) ==
  [job EXCEPT !.leaseOwnerId = NoWorker, !.leaseLeft = 0, !.delayLeft = 0]

CreateCompletedJob(job) ==
  [Unleased(job) EXCEPT !.status = "completed",
                        !.attempts = AnnotateLatestAttempt(@, "completed")]

\* Mutants of createFailedJob: a budget off by one; the unused status stored.
CreateFailedJobEarly(job) ==
  [Unleased(job) EXCEPT
     !.attempts = AnnotateLatestAttempt(@, "failed"),
     !.failedAttemptCount = @ + 1,
     !.maxAttempts = MaxAttempts,
     !.status = IF AttemptCount(job) + 1 < MaxAttempts
                THEN "queued" ELSE "dead-lettered"]
CreateFailedJobAsFailed(job) ==
  [Unleased(job) EXCEPT !.attempts = AnnotateLatestAttempt(@, "failed"),
                        !.failedAttemptCount = @ + 1,
                        !.status = "failed"]

\* The budget compared with is the request's, not the one the job carries.
CreateFailedJob(job) ==
  LET recorded ==
        [Unleased(job) EXCEPT !.attempts = AnnotateLatestAttempt(@, "failed"),
                              !.failedAttemptCount = @ + 1,
                              !.maxAttempts = MaxAttempts]
  IN IF AttemptCount(job) < MaxAttempts
     THEN [recorded EXCEPT !.status = "queued", !.delayLeft = RetryDelay]
     ELSE [recorded EXCEPT !.status = "dead-lettered"]

\* budget = 0: the replay request names no maxAttempts.
CreateReplayedDeadLetterJob(job, budget, delay) ==
  LET next == AttemptCount(job) + 1
      default == IF job.maxAttempts > next THEN job.maxAttempts ELSE next
  IN [Unleased(job) EXCEPT
        !.status = "queued",
        !.maxAttempts = IF budget = 0 THEN default ELSE budget,
        !.delayLeft = delay,
        !.replayCount = @ + 1]

\* Mutant of jobIsClaimEligible: expired leases are never taken over.
EligibleOnlyQueued(job) == job.status = "queued" /\ job.delayLeft = 0

JobIsClaimEligible(job) ==
  \/ job.status = "queued" /\ job.delayLeft = 0
  \/ job.status = "leased" /\ job.leaseLeft = 0

\* Oldest enqueuedAt first, ties by job id.
Precedes(i, j) ==
  \/ jobs[i].enqueuedAt < jobs[j].enqueuedAt
  \/ jobs[i].enqueuedAt = jobs[j].enqueuedAt /\ i <= j

IsClaimCandidate(j) ==
  /\ JobIsClaimEligible(jobs[j])
  /\ \A i \in JobId : JobIsClaimEligible(jobs[i]) => Precedes(j, i)

\* Mutant of requestOwnsLease: any live lease will do.
OwnsAnyLease(job, w, attempt) == job.status = "leased"

RequestOwnsLease(job, w, attempt) ==
  /\ job.status = "leased"
  /\ job.leaseOwnerId = w
  /\ AttemptCount(job) = attempt

-----------------------------------------------------------------------------
(* Workers.  A worker is idle, or executing a job (the supervisor runs and *)
(* the heartbeat timer is armed), or recording (the run has settled and    *)
(* the heartbeat chain has been awaited).                                  *)

HeartbeatInterval ==
  IF LeaseDuration \div 3 > 1 THEN LeaseDuration \div 3 ELSE 1

IdleWorker ==
  [pc |-> "idle", job |-> 0, attempt |-> 0, timer |-> 0,
   heartbeatError |-> FALSE, runError |-> FALSE]

WorkerState ==
  [pc : {"idle", "executing", "recording"},
   job : JobId \cup {0},
   attempt : Nat,
   timer : Int,             \* until the next heartbeat; negative when late
   heartbeatError : BOOLEAN,
   runError : BOOLEAN]

Owns(w) == RequestOwnsLease(jobs[workers[w].job], w, workers[w].attempt)

TypeOK ==
  /\ jobs \in [JobId -> Job]
  /\ workers \in [Worker -> WorkerState]
  /\ \A w \in Worker : workers[w].pc # "idle" => workers[w].job \in JobId
  /\ crashes \in Nat /\ ioErrors \in Nat

Init ==
  /\ jobs = [j \in JobId |-> AbsentJob]
  /\ workers = [w \in Worker |-> IdleWorker]
  /\ crashes = 0 /\ ioErrors = 0

\* Enqueueing an id that is already known returns the existing job.
Enqueue(j, time) ==
  /\ jobs[j].status = "absent"
  /\ jobs' = [jobs EXCEPT ![j] = CreateQueuedJob(time)]
  /\ UNCHANGED <<workers, faults>>

Claim(w, j) ==
  /\ workers[w].pc = "idle"
  /\ IsClaimCandidate(j)
  /\ AttemptCount(jobs[j]) < MaxClaims
  /\ jobs' = [jobs EXCEPT ![j] = CreateLeasedJob(jobs[j], w)]
  /\ workers' = [workers EXCEPT ![w] =
       [pc |-> "executing", job |-> j, attempt |-> AttemptCount(jobs[j]) + 1,
        timer |-> HeartbeatInterval,
        heartbeatError |-> FALSE, runError |-> FALSE]]
  /\ UNCHANGED faults

\* The interval timer fires: renew, unless an earlier renewal failed.  A
\* renewal the repository refuses is remembered and the run continues.
Heartbeat(w) ==
  /\ workers[w].pc = "executing"
  /\ workers[w].timer <= 0
  /\ LET renews == ~workers[w].heartbeatError /\ Owns(w)
     IN /\ jobs' = IF renews
                   THEN [jobs EXCEPT ![workers[w].job] = CreateRenewedLeaseJob(@)]
                   ELSE jobs
        /\ workers' = [workers EXCEPT
             ![w].timer = HeartbeatInterval,
             ![w].heartbeatError = @ \/ ~Owns(w)]
  /\ UNCHANGED faults

\* The renewal itself throws (the queue file cannot be read or written).
HeartbeatThrows(w) ==
  /\ ioErrors < MaxIoErrors
  /\ workers[w].pc = "executing"
  /\ workers[w].timer <= 0
  /\ ~workers[w].heartbeatError
  /\ workers' = [workers EXCEPT ![w].timer = HeartbeatInterval,
                                ![w].heartbeatError = TRUE]
  /\ ioErrors' = ioErrors + 1
  /\ UNCHANGED <<jobs, crashes>>

\* runCycles returns or throws; the timer is cleared.
RunSettles(w, error) ==
  /\ workers[w].pc = "executing"
  /\ workers' = [workers EXCEPT ![w].pc = "recording", ![w].runError = error]
  /\ UNCHANGED <<jobs, faults>>

\* No error: complete, which the repository refuses without the lease.
RecordCompletion(w) ==
  /\ workers[w].pc = "recording"
  /\ ~workers[w].heartbeatError /\ ~workers[w].runError
  /\ jobs' = IF Owns(w)
             THEN [jobs EXCEPT ![workers[w].job] = CreateCompletedJob(@)]
             ELSE jobs
  /\ workers' = [workers EXCEPT ![w] = IdleWorker]
  /\ UNCHANGED faults

\* A failed run, or any failed renewal, fails the attempt.
RecordFailure(w) ==
  /\ workers[w].pc = "recording"
  /\ workers[w].heartbeatError \/ workers[w].runError
  /\ jobs' = IF Owns(w)
             THEN [jobs EXCEPT ![workers[w].job] = CreateFailedJob(@)]
             ELSE jobs
  /\ workers' = [workers EXCEPT ![w] = IdleWorker]
  /\ UNCHANGED faults

\* The worker's process dies and restarts with the same worker id.
Crash(w) ==
  /\ crashes < MaxCrashes
  /\ workers[w].pc # "idle"
  /\ workers' = [workers EXCEPT ![w] = IdleWorker]
  /\ crashes' = crashes + 1
  /\ UNCHANGED <<jobs, ioErrors>>

ReplayDeadLetter(j, budget, delay) ==
  /\ jobs[j].status = "dead-lettered"
  /\ jobs[j].replayCount < MaxReplays
  /\ jobs' = [jobs EXCEPT ![j] = CreateReplayedDeadLetterJob(@, budget, delay)]
  /\ UNCHANGED <<workers, faults>>

Left(t) == IF t > 0 THEN t - 1 ELSE 0

\* One unit of time passes.  TimerDelay bounds how long an event loop may be
\* blocked: neither an armed heartbeat nor the recording of a settled run is
\* ever later than that.
Tick ==
  /\ \A w \in Worker : workers[w].pc # "idle" => workers[w].timer > -TimerDelay
  /\ jobs' = [j \in JobId |->
       [jobs[j] EXCEPT !.leaseLeft = Left(@), !.delayLeft = Left(@)]]
  /\ workers' = [w \in Worker |->
       IF workers[w].pc # "idle"
       THEN [workers[w] EXCEPT !.timer = @ - 1]
       ELSE workers[w]]
  /\ UNCHANGED faults

Next ==
  \/ \E j \in JobId, time \in JobId : Enqueue(j, time)
  \/ \E w \in Worker, j \in JobId : Claim(w, j)
  \/ \E w \in Worker : Heartbeat(w)
  \/ \E w \in Worker : HeartbeatThrows(w)
  \/ \E w \in Worker, error \in BOOLEAN : RunSettles(w, error)
  \/ \E w \in Worker : RecordCompletion(w)
  \/ \E w \in Worker : RecordFailure(w)
  \/ \E w \in Worker : Crash(w)
  \/ \E j \in JobId, budget \in ReplayBudgets \cup {0}, delay \in {0, RetryDelay} :
       ReplayDeadLetter(j, budget, delay)
  \/ Tick

Spec == Init /\ [][Next]_vars

-----------------------------------------------------------------------------
(* Properties.                                                             *)

Holds(w, j) == workers[w].pc # "idle" /\ workers[w].job = j

\* A worker that is executing or recording an attempt either still holds the
\* lease or has been superseded by a later attempt of the same job: nobody
\* else ever settles its attempt under its feet.  The worker's own error
\* messages ("lost ownership before completion") rest on this.
AttemptAuthority ==
  \A w \in Worker : workers[w].pc # "idle" =>
    LET job == jobs[workers[w].job] IN
      /\ workers[w].attempt \in DOMAIN job.attempts
      /\ job.attempts[workers[w].attempt] = [worker |-> w, outcome |-> "open"]
      /\ \/ Owns(w)
         \/ workers[w].attempt < AttemptCount(job)

LastAttemptCompletes(job) ==
  /\ \A i \in DOMAIN job.attempts :
       job.attempts[i].outcome = "completed" =>
         i = Len(job.attempts) /\ job.status = "completed"
  /\ job.status = "completed" =>
       /\ job.attempts # <<>>
       /\ job.attempts[Len(job.attempts)].outcome = "completed"

\* A job is completed exactly when its last attempt is recorded completed,
\* and no earlier attempt ever is: overlapping executions of one job cannot
\* both be accepted, and a superseded worker cannot complete the job.
CompletedByLastAttempt == \A j \in JobId : LastAttemptCompletes(jobs[j])

RecordConsistent(job) ==
  /\ job.status = "absent" => job.attempts = <<>>
  /\ job.status = "leased" =>
       /\ job.attempts # <<>>
       /\ job.attempts[Len(job.attempts)].outcome = "open"

\* The strengthening under which the two above are inductive: no attempt of a
\* job nobody enqueued, and the last attempt of a leased job still open.
RecordsConsistent == \A j \in JobId : RecordConsistent(jobs[j])

QueueInv ==
  TypeOK /\ RecordsConsistent /\ CompletedByLastAttempt /\ AttemptAuthority

\* failedAttemptCount, which the statistics sum over the queue, counts
\* exactly the attempts whose failure was recorded: an abandoned (expired)
\* attempt is neither counted nor later recorded by its stale worker.
FailuresAccounted ==
  \A j \in JobId : LET job == jobs[j] IN
    job.failedAttemptCount =
      Cardinality({i \in DOMAIN job.attempts : job.attempts[i].outcome = "failed"})

\* The attempt history is append-only, and an outcome, once recorded, is
\* never rewritten, whatever late answers arrive.
HistoryIsWriteOnce ==
  [][\A j \in JobId : \A i \in DOMAIN jobs[j].attempts :
       /\ i \in DOMAIN jobs'[j].attempts
       /\ jobs'[j].attempts[i].worker = jobs[j].attempts[i].worker
       /\ jobs[j].attempts[i].outcome # "open" =>
            jobs'[j].attempts[i] = jobs[j].attempts[i]]_vars

\* A completed job never leaves that state, whatever is replayed, renewed or
\* recorded afterwards.
CompletedIsFinal ==
  [][\A j \in JobId : jobs[j].status = "completed" => jobs'[j] = jobs[j]]_vars

\* While heartbeats can be at most TimerDelay late and renewals do not fail,
\* no job is executed by two workers at a time.  It needs
\* HeartbeatInterval + TimerDelay < LeaseDuration.
ExecutionIsExclusive ==
  \A v, w \in Worker : \A j \in JobId :
    Holds(v, j) /\ Holds(w, j) => v = w

\* A worker's lease is lost under a run only when its renewals are late: it has
\* seen a renewal fail, or its timer is overdue by all the lease has to spare.
SupersededOnlyWhenLate ==
  \A w \in Worker : workers[w].pc # "idle" /\ ~Owns(w) =>
    \/ workers[w].heartbeatError
    \/ workers[w].timer <= HeartbeatInterval - LeaseDuration

\* A dead-lettered job has used up the attempts the workers allow.
DeadLetterExhausted ==
  \A j \in JobId : jobs[j].status = "dead-lettered" =>
    AttemptCount(jobs[j]) >= MaxAttempts

-----------------------------------------------------------------------------
(* The abstract ledger the queue implements.                               *)

Phase(status) ==
  CASE status = "absent" -> "absent"
    [] status \in {"queued", "leased"} -> "pending"
    [] status = "completed" -> "done"
    [] status = "dead-lettered" -> "dead"

CompletedAttempts(job) ==
  {i \in DOMAIN job.attempts : job.attempts[i].outcome = "completed"}

Ledger == INSTANCE JobLedger WITH
  phase    <- [j \in JobId |-> Phase(jobs[j].status)],
  begun    <- [j \in JobId |-> AttemptCount(jobs[j])],
  accepted <- [j \in JobId |-> CompletedAttempts(jobs[j])]

\* Leases, heartbeats, expiry, late answers and retries amount to the ledger.
ImplementsLedger == Ledger!Spec

=============================================================================
