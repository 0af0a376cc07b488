----------------------------- MODULE RunControl -----------------------------
(***************************************************************************)
(* What drives the run queue and what its jobs run: the scheduler that     *)
(* enqueues (localSimulationRuntimeScheduler.ts), the recovery that        *)
(* replays dead letters (localSimulationRuntimeRecovery.ts), the worker    *)
(* host that polls (localSimulationRuntimeRunQueueWorkerHost.ts), and the  *)
(* supervisor whose runCycles runs the cycles of a job as one durable      *)
(* session (localSimulationRuntimeSupervisor.ts,                           *)
(* localSimulationRuntimeRunSession.ts).  It composes with RunQueue: each  *)
(* of its steps is a step of the queue, or leaves the queue alone.         *)
(*                                                                         *)
(* A worker stands for a process with its worker host, which never has     *)
(* more than one job in flight, be it a poll's or a recovery's: both are   *)
(* the action Poll.  The scheduler and the recovery read and write in one  *)
(* go, as all their waits resolve in one turn of the event loop; only the  *)
(* drain at the end of a recovery waits.  A cycle's result is abstracted   *)
(* to what the supervisor looks at: did every partition succeed, and does  *)
(* one need attention.                                                     *)
(***************************************************************************)
EXTENDS RunQueue, SequencesExt

CONSTANTS
  MaxPendingJobs,  \* the scheduler's limit of queued and leased jobs
  CycleCount       \* cycles of a scheduled run

ASSUME RunControlAssumption ==
  MaxPendingJobs \in Nat \ {0} /\ CycleCount \in Nat \ {0}

VARIABLES
  sessions,   \* the latest session record of every job's run
  runs,       \* the local state of each worker's runCycles call
  killed,     \* history: the jobs whose worker died over them
  overlapped  \* history: the jobs that two workers held at once

history == <<killed, overlapped>>

controlVars == <<sessions, runs, history>>

allVars == <<vars, controlVars>>

-----------------------------------------------------------------------------
(* Sessions.                                                               *)

\* "attention": all partitions succeeded and one needs attention.
Cycle == {"succeeded", "attention", "failed"}

\* stopRequestedAt holds the number of cycles recorded when the stop was asked for.
Session == [status : {"none", "running", "completed", "stopped"},
            cycles : Seq(Cycle),
            stopRequestedAt : SUBSET Nat,
            outcome : {"none", "succeeded", "failed"}]

NoSession ==
  [status |-> "none", cycles |-> <<>>, stopRequestedAt |-> {}, outcome |-> "none"]

\* Mutant: the outcome is that of the last cycle.
OutcomeOfLast(cycles) == IF Last(cycles) = "failed" THEN "failed" ELSE "succeeded"

Outcome(cycles) ==
  IF \A i \in DOMAIN cycles : cycles[i] # "failed" THEN "succeeded" ELSE "failed"

IsTerminal(session) == session.status \in {"completed", "stopped"}

\* opening: claimed, the session not looked up yet; looping: a cycle is
\* running; saving: behind the loop.
Run == [phase : {"none", "opening", "looping", "saving"},
        cycles : Seq(Cycle),
        stopped : BOOLEAN]   \* stopReason is not "cycle-count-completed"

NoRun == [phase |-> "none", cycles |-> <<>>, stopped |-> FALSE]

NextPhase(cycles, stopped) ==
  IF stopped \/ Len(cycles) >= CycleCount THEN "saving" ELSE "looping"

ControlInit ==
  /\ Init
  /\ sessions = [j \in JobId |-> NoSession]
  /\ runs = [w \in Worker |-> NoRun]
  /\ killed = {} /\ overlapped = {}

-----------------------------------------------------------------------------
(* Scheduler and recovery.                                                 *)

Pending == {j \in JobId : jobs[j].status \in {"queued", "leased"}}
DeadLetters == {j \in JobId : jobs[j].status = "dead-lettered"}

\* allowWhenDeadLettered is false, its default.
Gate == DeadLetters = {} /\ Cardinality(Pending) < MaxPendingJobs

\* The job id carries the time of the schedule: ids come in order.
Schedule(j) ==
  /\ Gate
  /\ \A i \in JobId : i < j => jobs[i].status # "absent"
  /\ Enqueue(j, j)
  /\ UNCHANGED controlVars

\* Dead letters that were not replayed maxReplayCountPerJob times yet.
Recover(j) ==
  /\ \E budget \in ReplayBudgets \cup {0} : ReplayDeadLetter(j, budget, 0)
  /\ UNCHANGED controlVars

-----------------------------------------------------------------------------
(* A worker's run.                                                         *)

RunBecomes(w, run) == runs' = [runs EXCEPT ![w] = run]

Poll(w, j) ==
  /\ Claim(w, j)
  /\ RunBecomes(w, [NoRun EXCEPT !.phase = "opening"])
  /\ overlapped' = overlapped \cup {i \in {j} : \E v \in Worker : Holds(v, i)}
  /\ UNCHANGED <<sessions, killed>>

\* A terminal session answers for the run, any other is gone on with: from
\* the cycles it has, whatever they came to.
OpenSession(w) ==
  LET j == workers[w].job
      session == sessions[j]
  IN /\ workers[w].pc = "executing" /\ runs[w].phase = "opening"
     /\ IF IsTerminal(session)
        THEN /\ RunSettles(w, session.outcome # "succeeded")
             /\ RunBecomes(w, NoRun)
             /\ UNCHANGED sessions
        ELSE /\ sessions' = [sessions EXCEPT ![j].status = "running"]
             /\ RunBecomes(w, [phase |-> NextPhase(session.cycles, FALSE),
                               cycles |-> session.cycles, stopped |-> FALSE])
             /\ UNCHANGED vars
     /\ UNCHANGED history

\* The run throws: the session stays as it is.
RunThrows(w) ==
  RunSettles(w, TRUE) /\ RunBecomes(w, NoRun) /\ UNCHANGED sessions

\* Mutant of the loop's breaks: a failed cycle does not end it.
StopsOnAttention(session, cycle) ==
  cycle = "attention" \/ session.stopRequestedAt # {}

Stops(session, cycle) == cycle # "succeeded" \/ session.stopRequestedAt # {}

\* Mutant of appendCycle: the checkpoint is the runner's own list.
CheckpointOwn(w, cycle) ==
  /\ workers[w].pc = "executing" /\ runs[w].phase = "looping"
  /\ LET j == workers[w].job
         cycles == Append(runs[w].cycles, cycle)
         stopped == Stops(sessions[j], cycle)
     IN /\ sessions' = [sessions EXCEPT ![j].cycles = cycles]
        /\ RunBecomes(w, [phase |-> NextPhase(cycles, stopped),
                          cycles |-> cycles, stopped |-> stopped])
        /\ UNCHANGED vars
  /\ UNCHANGED history

\* startAll returns and its cycle is checkpointed, if it is the next one; the
\* checkpoint answers whether a stop was requested.
RunCycle(w, cycle) ==
  /\ workers[w].pc = "executing" /\ runs[w].phase = "looping"
  /\ LET j == workers[w].job
         cycles == Append(runs[w].cycles, cycle)
         stopped == Stops(sessions[j], cycle)
     IN IF Len(sessions[j].cycles) # Len(runs[w].cycles)
        THEN RunThrows(w)
        ELSE /\ sessions' = [sessions EXCEPT ![j].cycles = Append(@, cycle)]
             /\ RunBecomes(w, [phase |-> NextPhase(cycles, stopped),
                               cycles |-> cycles, stopped |-> stopped])
             /\ UNCHANGED vars
  /\ UNCHANGED history

\* The final save must not remove or rewrite cycles others recorded; it keeps
\* a stop request that it did not see.
SaveSession(w) ==
  /\ workers[w].pc = "executing" /\ runs[w].phase = "saving"
  /\ LET j == workers[w].job
         cycles == runs[w].cycles
     IN IF ~IsPrefix(sessions[j].cycles, cycles)
        THEN RunThrows(w)
        ELSE /\ sessions' = [sessions EXCEPT
                  ![j].status = IF runs[w].stopped THEN "stopped" ELSE "completed",
                  ![j].cycles = cycles,
                  ![j].outcome = Outcome(cycles)]
             /\ RunSettles(w, Outcome(cycles) # "succeeded")
             /\ RunBecomes(w, NoRun)
  /\ UNCHANGED history

\* requestStop: only a running session takes it, and only the first.
RequestStop(j) ==
  /\ sessions[j].status = "running" /\ sessions[j].stopRequestedAt = {}
  /\ sessions' = [sessions EXCEPT ![j].stopRequestedAt = {Len(sessions[j].cycles)}]
  /\ UNCHANGED <<vars, runs, history>>

\* The rest of the worker's call, which the queue describes.
Beat(w) == (Heartbeat(w) \/ HeartbeatThrows(w)) /\ UNCHANGED controlVars

Record(w) == (RecordCompletion(w) \/ RecordFailure(w)) /\ UNCHANGED controlVars

Kill(w) ==
  /\ Crash(w)
  /\ RunBecomes(w, NoRun)
  /\ killed' = killed \cup {workers[w].job}
  /\ UNCHANGED <<sessions, overlapped>>

TimePasses == Tick /\ UNCHANGED controlVars

Advances(w) ==
  \/ \E j \in JobId : Poll(w, j)
  \/ OpenSession(w)
  \/ \E cycle \in Cycle : RunCycle(w, cycle)
  \/ SaveSession(w)
  \/ Record(w)

ControlNext ==
  \/ \E j \in JobId : Schedule(j) \/ Recover(j) \/ RequestStop(j)
  \/ \E w \in Worker : Advances(w) \/ Beat(w) \/ Kill(w)
  \/ TimePasses

ControlSpec == ControlInit /\ [][ControlNext]_allVars

\* The timers of hosts and heartbeats fire, cycles return and time passes.
ControlFairSpec ==
  /\ ControlSpec
  /\ WF_allVars(TimePasses)
  /\ \A w \in Worker : WF_allVars(Heartbeat(w) /\ UNCHANGED controlVars)
  /\ \A w \in Worker : WF_allVars(Advances(w))
  /\ \A j \in JobId : WF_allVars(Recover(j))

-----------------------------------------------------------------------------
(* Properties.                                                             *)

\* Sessions, local runs and the queue's records keep their types, and a worker
\* has a run exactly while it executes a job.
ControlTypeOK ==
  /\ TypeOK
  /\ sessions \in [JobId -> Session] /\ runs \in [Worker -> Run]
  /\ \A w \in Worker : runs[w].phase = "none" <=> workers[w].pc # "executing"
  /\ killed \subseteq JobId /\ overlapped \subseteq JobId

\* However often a job is retried, killed, replayed or asked to stop, and as
\* long as no two workers held it at once: when the queue calls it completed,
\* its session is closed, no recorded cycle failed, and it has all its cycles
\* or a reason to have fewer.
CompletedRunsSucceeded ==
  \A j \in JobId \ overlapped : jobs[j].status = "completed" =>
    LET session == sessions[j] IN
      /\ IsTerminal(session)
      /\ \A i \in DOMAIN session.cycles : session.cycles[i] # "failed"
      /\ \/ Len(session.cycles) = CycleCount
         \/ session.stopRequestedAt # {}
         \/ \E i \in DOMAIN session.cycles : session.cycles[i] = "attention"

\* A run goes on behind a failed cycle, a flagged one, or the cycle in flight
\* when a stop was requested, only if a process was killed over the run or two
\* workers held it: stopReason lives in memory until the final save.
StopsHold ==
  \A j \in JobId \ (killed \cup overlapped) :
    LET cycles == sessions[j].cycles IN
      /\ \A i \in 1..(Len(cycles) - 1) : cycles[i] = "succeeded"
      /\ \A n \in sessions[j].stopRequestedAt : Len(cycles) <= n + 1

\* Recorded cycles are never removed or rewritten, whatever runners overlap or
\* resume; a closed session changes no more, whoever retries or replays its
\* job, unless two workers held it.
RunHistoryStands ==
  [][\A j \in JobId :
       /\ IsPrefix(sessions[j].cycles, sessions'[j].cycles)
       /\ IsTerminal(sessions[j]) /\ j \notin overlapped => sessions'[j] = sessions[j]
    ]_allVars

\* Every scheduled job is at last completed, or dead with its replays used up.
EventuallyHandled ==
  \A j \in JobId :
    jobs[j].status = "queued" ~>
      \/ jobs[j].status = "completed"
      \/ jobs[j].status = "dead-lettered" /\ jobs[j].replayCount >= MaxReplays
=============================================================================
