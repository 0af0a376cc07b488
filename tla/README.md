# Formal verification of aivilization-town

TLA+ models of the parts of aivilization-town that have to survive crashes,
retries and concurrent processes, TLC configurations that check them on small
instances, and TLAPS proofs of the properties that matter most.

Paths in this document are relative to the repository. `worker/` stands for
`apps/worker/src/` and `sim-core/` for `packages/sim-core/src/`.

Contents: [the system](#1-the-system) · [models](#2-the-models) ·
[runs](#3-the-runs) · [fairness](#4-fairness) · [proofs](#5-proofs) ·
[what the code does otherwise](#6-where-the-code-differs-from-its-documents) ·
[limits](#7-limits-known-from-the-models) · [not modelled](#8-what-is-not-modelled) ·
[plan](#9-plan)

To check a module: `tlc -config RunQueueSafety.cfg MCRunQueue`; to check its
proofs: `tlapm RunControlProofs.tla`.

## 1. The system

aivilization-town simulates a town of LLM-driven residents. The town is divided
into partitions. Each partition has an event stream and a command stream; a
runtime drains the commands, runs one cycle per agent and tick, and appends the
events that result. All state lives in files: there is no database and no broker.
One process normally owns a data directory, is killed at will (a deployment uses
`SIGKILL` on lease timeouts), and is started again by systemd
(`deploy/systemd/aivilization-town.service.example:15`). Several queue workers,
hosts and timers interleave inside a process; several processes may share the
simulation-wide authority's directory.

How the parts interact:

```
 clients ── HTTP API ── command store ──────┐ (records, read once per step)
                                            v
 operator ── run queue ── queue worker ── supervisor ── partition runtime
             (leases)     (heartbeats)    (sessions)     lifecycle > loop > step > tick
                                                           |      |         |
                                            event store <──┘   memories,   authority
                                            snapshots          traces      (lease, journal,
                                            lifecycle state                 state, inbox)
```

### 1.1 Components

| Component | State it keeps | Operations | What is hard | What makes it correct | Module |
|---|---|---|---|---|---|
| Run queue and workers (`worker/localSimulationRuntimeRunQueue.ts`) | one record per job: status, attempts, failure count, replay count, lease, delay | enqueue, claimNext, renewLease, complete, fail, replayDeadLetter; worker `runNext` with a heartbeat chain | a lease expires under a worker that goes on; heartbeats late or failing; replays while a late worker answers | a late answer is never accepted; a job completes at most once, by its last attempt; history is write-once; every job is settled | `RunQueue`, `JobLedger`, `RunControlProofs` |
| Event store (`sim-core/fileEventStore.ts`) | stream files of frames, idempotency index, pending file, staging files | keyed append, recovery in the constructor, index compaction | death between any two file operations or inside a write; recovery dying itself; index rewritten while it is the only record of the keys | a batch enters once, whole, at the version expected; acknowledged means durable | `EventStore`, `IdempotentLog`, `EventStoreProofs` |
| Command store and submission (`sim-core/fileCommandStore.ts`, `apps/api/src/commandStoreSubmission.ts`) | stream files and one idempotency file of JSON lines | submit; replay of a known key | two appends without a pending file; an unfinished last line; clients that retry | what is answered is in the stream, and every try is answered alike | `CommandStore`, `CommandStoreProofs` |
| Partition runtime (`worker/localSimulationLifecycle.ts`, `localRuntimeLoop.ts`, `localRuntimeStep.ts`, `tickRunner.ts`, `agentCycleRunner.ts`, `projectionHydration.ts`) | lifecycle state file, snapshots, event stream, agents' repositories | start, pause, reset; batch, step, tick; recovery of an interrupted batch | a tick is many appends and side files; the next process tells from the lifecycle state and the stream what to replay; pause and reset interleave with a tick | an operation advances by its batch exactly once; the stream tells one tick after the other; a projection is the fold of a prefix | `RuntimeLoop`, `TickHistory`, `RuntimeLoopProofs` |
| Command drain (`worker/localCommandDrain.ts`, `commandStreamConsumer.ts`) | consumer checkpoint | read a batch once, handle one by one: dispatch, memory, trace, checkpoint | four writes per command, redelivery, `expectedVersion` of an earlier try | no command is checkpointed before its effects; every one read is consumed | `RuntimeLoop`, `RuntimeLoopProofs` |
| Authority: lease, journal, state (`worker/simulationWideAuthority.ts`) | `.writer-lease/lease.json`, `state.json`, hash-chained `operations.jsonl` | `mutate` (every settlement), `recover` | several processes; expired leases; death between intent, state and completion | an answered operation keeps its fencing token; a crash never makes the files incoherent; the lease excludes | `Authority`, `AuthorityProofs` |
| Authority: inbox, materializer, router, clock barrier (`worker/simulationWideAuthorityMaterializer.ts`, `simulationCommandRouter.ts`, `localSimulationRuntimeHost.ts`) | per-partition cursor, deliveries by fencing token, partition records, barrier | publish partition state, settle, read inbox, append, remember, set boundary, acknowledge | awaits between the steps of one tick; ownership that moves; crash before the acknowledgement | each delivery applied once, in token order; no settled fact overwritten for good; no agent in two places or none | `AuthorityInbox`, `AuthorityInboxProofs` |
| Run-queue control (`worker/localSimulationRuntimeScheduler.ts`, `…Recovery.ts`, `…RunQueueWorkerHost.ts`) | timers, counters of a host | poll, count, then enqueue, replay or drain | a dead letter blocks the scheduler; several hosts at once | every scheduled job is handled in the end | `RunControl` (with `RunQueue`), `RunControlProofs` |
| Run sessions and supervisor (`worker/localSimulationRuntimeSupervisor.ts`, `…RunSession.ts`) | session checkpoint, stop request | run cycles, checkpoint, stop, resume | a stop reason in memory across a kill; two workers in one session | recorded cycles stand; a closed session answers for its run; no failed run counts as a success | `RunControl`, `RunControlProofs` |
| Social interaction journal (`worker/localSimulationSocialInteraction.ts`) | intent files, two streams | append to both streams, roll forward | kill between the two appends | both or neither | – |
| Market collection (`worker/paperMarketCollection.ts`, `apps/server/src/localRuntimeTownPaperMarketCollection*.ts`) | epoch ledger with leases, one child process per shard and epoch, a runtime root per shard | lease, run a child, record its result, refuse or kill a late one, freeze | a lease ends under a running child; children that outlive their coordinator; one shard behind the others | an epoch's cycles run once; no shard enters an epoch before the society has finished the one before | `MarketCollection`, `MarketCollectionProofs` |
| Open society: turns (`worker/openSociety/runtime.ts`, `scheduleTools.ts`, `apps/residents/src/cli.ts`, `server.ts`) | residents' wake-ups, turns and calls in a journalled state | begin, call, wait, remind, message, finish, advance; the run loop and the operator's endpoints | a message during the turn it should end; a kill inside a turn; a turn finished twice | who was woken stays due; nobody is passed twice; everybody gets turns again and again | `ResidentTurns`, `ResidentTurnsProofs` |
| Open society: journal (`worker/openSociety/journal.ts`) | writer lock, commit journal | acquire, commit, replay | stale lock recovery by name | one writer | atomic commit in `ResidentTurns`; the lock is described in section 7 |
| Projection snapshots and checkpoints (`sim-core/checkpointStore.ts`, `projectionSnapshotStore.ts`) | newest snapshot per stream | save, hydrate | a snapshot newer than the boundary | contract modelled in `RuntimeLoop` | – |
| Memory (`packages/memory/src/`) | append-only memories, sparse checkpoints | append, retrieve, consolidate | redelivery | bag of remembered commands in `RuntimeLoop` | – |
| World (`packages/world/src/`) | none: handlers and projection are functions | decide, apply | breadth | conservation of money and goods | – |
| Domain aggregates (`packages/economy`, `credit`, `enterprise`, `commerce`, `services`, `collaboration`, `information`, `mobility`, `society`) | records inside the projection | sequential rules with deadlines | boundaries of amounts and deadlines | balances conserved, life cycles respected | – |
| Agent cognition (`packages/agent-runtime/src/`), LLM gateway (`packages/llm/src/`) | plans and progress | plan, decide, retry a call | none that is shared | its choice is nondeterminism in `RuntimeLoop` and `AuthorityInbox` | – |
| Observability, content, HTTP API, server tools, registry, web client | evidence, constants, wiring | – | – | – | – |

Section 8 says of every part without a module why it has none.

### 1.2 The hazards

`PROJECT.json` lists every place where something can go wrong that a test would
hardly reach, with the line and the properties that watch it. Most fall in five
families:

* *death between two writes* – event store, command store, a drained command, a
  tick, the authority's `mutate`. This is the family the system is built
  against, and most properties are about it;
* *a lease that runs out under its holder* – run queue, authority, market shards;
* *state read before an await and used after it* – lifecycle pause/reset, publication to
  the authority, deliveries routed by an owner that has changed, a message that reaches
  an open turn;
* *everybody waits for somebody* – the authority's clock barrier, the epochs' barrier, the
  scheduler behind a dead letter, a resident behind busier ones;
* *a retry of something already done* – client submissions, store appends, queue
  replays, operations of the lifecycle and the authority.

## 2. The models

Conventions: a module's header names the files it is translated from; every
constant, variable and property has a comment; constants whose comment says
*bound* limit the environment and appear only in guards of its actions (crashes,
replays, pauses). Operators called "Mutant: …" are plausible bugs of the code. They are used
by no specification; putting one in the place of the operator that follows it makes
a property fail, which shows that the property depends on what the code does.

### 2.1 `RunQueue` – the durable queue and its workers

| Model | Code (`worker/localSimulationRuntimeRunQueue.ts`) |
|---|---|
| `jobs[j]` | the latest record of job j in the repository |
| `workers[w]` | the local variables of a `runNext` call: attempt held, heartbeat timer, settled result |
| `Enqueue`, `Claim`, `ReplayDeadLetter` | `enqueue`, `claimNext` with its sort, `replayDeadLetter` |
| `Heartbeat`, `HeartbeatThrows` | a firing of the renewal timer, which re-arms itself or stops |
| `RunSettles`, `RecordCompletion`, `RecordFailure` | the supervisor's promise, then `complete` or `fail` and the ownership check |
| `Crash` | the worker disappears; its lease stays |
| `Tick` | one unit of time |

A repository operation reads and writes in one microtask, so it is one action.
Deadlines are stored as the time left, which is exact because the code only
compares a deadline with the clock; it keeps the state space finite without bounding
the clock. A heartbeat may be up to `TimerDelay` ticks late.

`JobLedger` is what the queue promises a client: absent, pending, done or dead, with
the attempts begun and those accepted. `RunQueue` implements it by forgetting workers,
leases and delays (`ImplementsLedger`). Its actions are the operations of the
in-memory repository of the same interface (`Submit` is `enqueue`, `Begin` `claimNext`,
`Finish` `complete`, `GiveUp` a `fail` that dead-letters, `Revive` `replayDeadLetter`).

`SupersededOnlyWhenLate` says how a lease gets lost at all: a worker whose job has passed
to a later attempt had outlived its lease or had failed to renew it.

### 2.2 `EventStore` – keyed appends over files

| Model | Code (`sim-core/fileEventStore.ts`) |
|---|---|
| `streams`, `tornStreams` | the complete frames of a stream file; an incomplete last frame |
| `index`, `indexSize`, `indexTorn` | the idempotency index, its length in frames, its last frame |
| `pending`, `staging`, `compacting` | the files of those names |
| `phase`, `request`, `recovering` | the append in flight and the file operation that comes next |
| `ReplayAppend`, `RefuseAppend`, `StageAppend` | the checks at the head of `appendToStream`, the write of the staging file |
| `RenamePending` … `ClearPending` | one action per file operation, in the code's order |
| `OpenWithoutPending`, `OpenAndResume`, `OpenFails` | the constructor and `recoverPendingAppend` |
| `Crash`, `IoError` | the process dies, possibly in the middle of a write; or an operation throws and the process lives on |

`IdempotentLog` is the in-memory store (`sim-core/eventStore.ts`): one atomic step
enters a batch and takes its key. In the refinement mapping a pending append that
has been renamed into place counts as made: `RolledForward` adds its events if the
frame is not yet in the stream, `Committed` its key if the record is not yet in the
index. The moment of the abstract append is therefore the rename.

### 2.3 `CommandStore` – submission from clients

Two appends (stream line, idempotency line) with a crash possible between and inside
them. An unfinished last line is invisible to readers until the next append continues
it and makes a line that does not parse (`SpoilStream`, `SpoilIndex`). Each client
submits its request until it is answered, and again after that (`Submit`).

### 2.4 `RuntimeLoop` – one partition: lifecycle, loop, step, tick, drain

| Model | Code |
|---|---|
| `stream` | the partition's event stream, one entry per append: a tick's slot, or a command |
| `commandStream`, `consumed` | the command stream and the consumer checkpoint |
| `snapshot` | the newest projection snapshot: the version on its label and the appends folded into it |
| `lifecycle` | the lifecycle state file (`localSimulationLifecycle.ts`) |
| `projection`, `hydratedTo` | the projection in memory, as the sequence of appends applied to it |
| `memories`, `traced`, `cycleEffects` | files written behind an append |
| `StartCompleted`, `StartRefused`, `StartBatch` | `start` (`localSimulationLifecycle.ts:230–345`): replay of an operation, refusal, new or recovered batch |
| `Hydrate` | `hydrateProjection` up to the boundary or the tail, then one read of the command records |
| `DispatchCommand`, `HandleNote`, `DrainFails`, `RememberCommand`, `TraceCommand`, `CheckpointCommand` | `drainCommands` of `localCommandDrain.ts`, one write per action |
| `BeginTick`, `AppendSlot`, `RecoverAppend`, `RecoveredAppendDoesNotContinue`, `AppendRefused`, `AgentIdle`, `SaveCycleEffects`, `SaveSnapshot` | `tickRunner.ts`: time (slot 0), the agents' cycles, market metrics; replay of an append that exists |
| `CompleteTick`, `FinishBatch`, `SaveSchedules`, `ReturnResult` | tick boundary, end of the batch, validation and consolidation schedules |
| `Pause`, `PauseBeforeTick`, `Reset`, `SubmitCommand`, `Crash`, `Restart` | the environment |

Slots carry append keys as the code builds them (run, tick, agent), so an append that
exists is found by its key and replayed at its old version. A command kind is
`register` (events, no memory or trace), `steer` (events, memory, trace) or `note`
(memory and trace, no events). What an agent decides is open: a cycle may append or be
idle, and with `Reconsiders` a cycle that left no append may decide otherwise when it
is run again.

`TickHistory` says what the event stream tells, whatever crashes happened. A tick's
appends follow one another in the order of the slots, an agent's slot possibly missing,
with nothing in between; a tick begins once, behind a finished one; the appends of commands
come in the order of the command stream. A command is not promised to stand between two
finished ticks: one that a replayed tick drains is appended behind that tick's unfinished
appends, and the tick then does not go on (section 6, item 1).

### 2.5 `Authority` – the simulation-wide authority's durable core

| Model | Code (`worker/simulationWideAuthority.ts`) |
|---|---|
| `ledger` | `state.json`: the operations decided; position = fencing token, length = revision |
| `journal`, `torn` | the rows of `operations.jsonl`; a row's hash link is the number of rows it was computed from |
| `lease` | the directory `.writer-lease` and `lease.json` in it |
| `answers`, `overlap`, `raced` | history: what callers were told; two writers were at work at once; two takeovers of one expired lease crossed |
| `Start`, `Request` | a process opens the directory and recovers; a caller makes a request |
| `Acquire`, `RemoveExpired`, `Retake`, `WriteLease` | `acquireLease`, one action per file operation |
| `ReadForRequest`, `ReadForRecovery` | `mutate`'s and `recover`'s reads with the coherence check, existing-operation path and conflict |
| `ReadTail`, `AppendIntent`, `Publish`, `AppendCompletion`, `Answer` | the rest of `mutate` |
| `Crash`, `LeaseRunsOut`, `LeaseOutlived` | death, expiry of a dead holder's lease, expiry under a live one |

Abstractions: the two reads at the head of a call are one step (a file replaced
between them can only make the call fail); a failing removal of the lease is merged
with the throw that leads to it; a domain decision is a replay, a rejection or a new
entry; completions that recovery owes are appended in any order; the empty directory
has been seeded (seeding is not under the lease).

### 2.6 `AuthorityInbox` – partitions around the authority

All partitions of a host run in one process and share the authority. The module is the
tick of each of them as `localSimulationRuntimeHost.ts` wires it, together.

| Model | Code |
|---|---|
| `operations`, `owner`, `pendingMoves`, `records`, `now`, `published`, `cursor`, `receipts` | the authority's state file (`simulationWideAuthority.ts`); an operation's index is its fencing token, `to[p]` the events it holds for partition p |
| `stream`, `projection`, `clock`, `boundary`, `tail`, `ticked` | a partition's stream as deliveries and as what it folds to, the lifecycle boundary and what was appended behind it |
| `pc`, `working`, `agenda`, `recovering`, `lastSynced`, `lastReported` | the start call and the router in memory |
| `PreTick` | `preTickMaterialize`: read the inbox, append, acknowledge, publish (`localSimulationRuntimeHost.ts:368–424`) |
| `FindAdvanced`, `Advance`, `TimesOut` | the clock barrier's poll; the partition that finds it open advances the authority, which pays the credit cadence and hands over those who arrive |
| `AppendTime` | the tick's time event, replayed in recovery where it stands next |
| `TransferCycle`, `MoveCycle`, `DrainAfterCycle` | an agent's cycle: publication of the working projection, settlement, post-authority materialization |
| `FinishTick`, `AppendRefused`, `CompleteTick`, `Retry` | end of the tick, refused append, lifecycle boundary, a failed start tried again |
| `KillAndRestart` | death at any step (inside a materialization too) and the host's bootstrap, which drains the inbox |

The actions end where the code waits: the barrier's poll, the drain of commands, an
agent's model call. Between two waits the file repositories do synchronous I/O, and a
promise that is settled goes on before the next callback. So no other partition runs
between the materialization and the publication, although the host awaits the former
(`localSimulationRuntimeHost.ts:392–402`): partitions are not started in one turn of the
event loop either (`localSimulationRuntimeSupervisor.ts:244`, `:451–458`), and their waits end
in callbacks of their own. A repository with asynchronous I/O would need the two steps apart. An agent's record is reduced to its *facts* (the settlements it took
part in) and its *age* (the ticks its owner lived through, standing for whatever a
partition changes on its own). That is enough to see a publication overwrite a settled
fact, a delivery come twice or out of order, and an agent in two places.

What a partition takes is `ReadFrom`: from the stream as it is, the pending deliveries
(`Pending`) in the order of their tokens. A delivery whose event cannot be reduced stays in
the stream, so that the partition cannot be hydrated again: it is poisoned, and a restart
reads nothing for it.

A settlement between two agents stands for every kind of it. Registrations, town-wide
pools, governance, bulletins, rejected commands, memory and cognitive snapshots are left
out.

### 2.7 `RunControl` – what drives the queue, and what a job runs

`RunControl` EXTENDS `RunQueue`: each of its steps is a step of the queue or leaves the
queue alone, so that whatever holds of the queue holds here.

| Model | Code |
|---|---|
| `sessions[j]` | the run's session record (`localSimulationRuntimeRunSession.ts`) |
| `runs[w]` | the local variables of a worker's `runCycles` call: its cycles so far and `stopReason` |
| `Schedule`, `Recover` | `schedule` with its two gates; `replayDeadLetters` below the replay limit |
| `Poll` | a worker host's poll and a recovery's drain: never more than one job in flight |
| `OpenSession` | the first look: a terminal session answers for the run, any other is gone on with |
| `RunCycle`, `RunThrows` | one cycle and its checkpoint; `assertNextCycle` refuses a second runner |
| `SaveSession` | the final save, `createRunCyclesOutcome`, the promise the worker waits for |
| `RequestStop`, `Kill` | the operator; a process that dies and forgets `stopReason` |

`killed` and `overlapped` are history: they remember the jobs whose worker died over
them and those two workers held at once, because two properties hold only for the others.
Schedules and recoveries are one action each: with the file repositories every wait
between their reads and writes is resolved within one turn of the event loop.

### 2.8 `MarketCollection` – epochs, shards and child processes

| Model | Code |
|---|---|
| `ledger[s][e]` | the last ledger event of an epoch, as `projectCollection` reads it: status, attempt, what is left of the lease, the window of cycles reported |
| `children` | the child processes, each with its shard, epoch, attempt, phase, and who waits for it: the run, a process whose run has already failed (`"rejected"`), or nobody |
| `session`, `cycles` | the session in the shard's runtime root that a retried epoch resumes; the cycles the shard's world went through |
| `StartRun`, `LeaseBatch`, `GiveUp`, `Freeze` | `runPaperMarketCollection`'s loop: lease the first runnable epochs and start their children, throw when attempts are used up, freeze the sources |
| `RunCycle`, `StopSession`, `Report`, `ChildDies` | the child process (`…Shard.ts`) |
| `Record`, `RefuseLate`, `KillLateChild` | `runShardProcess`'s end and the ledger's answer, in time or not |
| `Tick`, `KillCoordinator`, `Restart` | leases run down; a coordinator dies and leaves children; everything dies |

When one epoch of a batch fails the run, the process stays until its other children are
done, and still records them (`"rejected"`). A killed coordinator leaves its children
without a timeout. `shared` notes the runtime roots two live children have used;
from there on the model says nothing more about that shard.

### 2.9 `ResidentTurns` – the open town's turns

| Model | Code |
|---|---|
| `delay`, `wakeReason`, `turn`, `rank`, `alarm` | `nextWakeAt` and `wakeReason` of a resident, the turn of `activeTurnId`, the order of `lastTurnOrdinal`, the next reminder or end of an activity |
| `process`, `current` | the place in the command line's loop (`apps/residents/src/cli.ts:186–297`) or `"serve"` |
| `BeginNext`, `JumpAhead`, `EndTurn`, `AdvanceCadence`, `DriverThrows` | the loop: the next resident's turn, or a jump to the next wake-up; end; cadence; catch |
| `Acts` = `InvokeOther`, `RefuseCall`, `SendMessage`, `ScheduleWait`, `SetAlarm` | the calls of a turn that touch wake-ups, and any other |
| `StartServe`, `AdminStart`, `AdminFinish`, `AdminAdvance`, `StopServe` | the operator's endpoints, several turns open at a time |
| `Kill` | SIGKILL; the journal keeps what was committed |

Times are what is left until they come, which keeps the model finite without a bound on
the clock. `owed`, `passed` and `overtaken` are history: what should have woken a resident,
and who has been served in front of it.

### 2.10 Composition

`RunControl` composes the queue, its hosts and the sessions. A cycle of a session is one
`start` of the lifecycle under the run's operation id, which `RuntimeLoop` models: a job
executed by two workers in turn is an operation started twice, which is what
`RuntimeLoop`'s caller does. `RuntimeLoop` takes its event
store to be `IdempotentLog` (an append is atomic and keyed), which `EventStoreProofs`
justifies; it takes its command stream to be what `CommandStore` yields, including a
command that occurs twice. `AuthorityInbox` takes the authority to be one state changed
atomically, which `AuthorityProofs` justifies for one writer at a time, and repeats of
`RuntimeLoop`'s tick what the deliveries can interfere with. `MarketCollection` takes from
the child's runtime that a resumed session goes on behind the cycles it recorded, which
is `RunControl`'s `RunHistoryStands`.

## 3. The runs

| Run | Bounds | States | Checks |
|---|---|---|---|
| `queue_safety` | 1 job, 2 workers, lease 2, attempts 2, heartbeat ≤ 2 late, 1 replay with budget 3, ≤ 4 claims, 1 crash, 1 failing renewal | 35 k | `AttemptAuthority`, `SupersededOnlyWhenLate`, `ImplementsLedger` |
| `run_control` | 1 job of 2 cycles, 2 workers, lease 2, 2 attempts, 1 replay, ≤ 6 claims, 1 crash, 1 failing renewal | 146 k | `ControlTypeOK`, `CompletedRunsSucceeded`, `StopsHold`, `RunHistoryStands`, `EventuallyHandled` |
| `command_store` | 4 requests, two under one key, torn writes, 3 crashes | 16 k | `OneAnswerPerKey`, `EventuallyAnswered` |
| `event_store` | 2 streams, 2 keys, versions 0–2, torn writes, 2 crashes, 1 I/O error, repack after every frame | 133 k | `BlockedByErrorOrRepack`, `ImplementsLog`, `EventuallyOpen` |
| `runtime_recovery` | 2 operations of 2 ticks, 1 agent, market metrics, 2 commands that append nothing, 2 crashes | 186 k | `TypeOK`, `DerivedStateIsPrefix`, `OperationAdvancesOnce`, `RecoveryIsExact`, `LossesBoundedByKills`, `EventuallyCompletes` |
| `runtime_fails_closed` | 2 operations of 1 tick, 2 agents that decide anew, market metrics, 2 commands that append, 1 crash, 1 pause, 1 reset | 734 k | `CheckpointFollowsEffects`, `PausesAreHarmless`, `ImplementsHistory` |
| `authority` | 2 processes, 2 operations, one repeated with another input, torn rows, 1 crash, 1 lease outlived | 943 k | `AnswersStand`, `CrashesNeverClose`, `LeaseExcludes`, `LeaseComesFree` |
| `authority_inbox` | 2 partitions with one agent each (one moves, the other has a deposit), journeys of 1 tick, 2 ticks, 2 settlements, 1 crash, 1 timeout | 328 k | `TypeOK`, `DeliveredOnce`, `InboxBringsEverything`, `OnlyOwnersAct`, `BarrierOpens`, `ClockMovesBetweenTicks` |
| `market_collection` | 2 shards of one society, 2 epochs of 2 cycles, lease 2, 4 attempts, 2 children at a time, 3 faults | 256 k | `SocietyInStep`, `EpochsRunOnce`, `SharedOnlyWhenAbandoned`, `EventuallyFrozen` |
| `resident_turns` | 2 residents whom messages wake, cadence 1, free intervals 1–2, waits and reminders ≤ 2, 2 calls per turn, 2 interruptions | 447 k | `WokenIsDue`, `ServedInTurn`, `SettledTurnsStand`, `NobodyStarves` |
| `runtime_drained_tick` | 1 operation, 1 command, 1 crash | – | `RecoveryIsExact` fails |
| `authority_inbox_erased` | as `authority_inbox`, 1 settlement, no timeout | – | `NobodyErased` fails |

Why these bounds are enough:

* *Queue.* Everything interesting happens to one job between two workers: an expired
  lease, a claim over it, the late answer of the first. Four claims make room for the
  allowed attempts, a dead letter, a replay and the attempts behind it. A late
  heartbeat of two ticks against a lease of two lets a renewal come at and beyond the
  expiry. The proofs remove these bounds for the invariants.
* *Run control.* Two cycles give a boundary between a cycle and the next, where a failure,
  a stop request or a kill falls. Six claims are more than two attempts, a replay and the
  attempts behind it need. Two jobs that overlap make about 7
  million states; they touch only through the scheduler's gate and the worker's one job in
  flight.
* *Event store.* Two streams and two keys give a key reused for another stream, a batch
  behind a batch, a version that has passed. Two crashes give a recovery that dies. An
  increment of one frame makes every append reach the compaction.
* *Command store.* Two crashes let a spoiled stream and a spoiled index occur together; the third
  can fall between the two appends of another submission.
* *Runtime.* Two ticks per batch give a boundary inside a batch; two operations give a
  retry of an operation that is over; one metrics slot gives appends behind the agents'.
  The two passing runs divide the question. In `runtime_recovery` commands append
  nothing, and recovery is exact. In `runtime_fails_closed` commands append and starts may
  throw for good (section 6), and what remains true is checked: the stream is still one
  history, no command is checkpointed early, and without a crash or reset no start
  throws. Metrics are on in both, so that a tick can be unfinished behind its agents.
* *Authority.* Two writers and two operations give every overlap of a stopped writer with
  its successor; the second request for `o1` with another input reaches the conflict
  path. With three writers a lost operation occurs (section 7); the properties that would
  see it are stated for writers that did not overlap.
* *Authority's inbox.* One agent per partition gives a settlement across partitions, a
  journey, an agent that is away, and a partition with two agents and one with none. Two
  ticks let a journey that begins in the first end in the second. Two settlements let a
  payment and a move meet. The agent with a deposit is not the one that moves, because of
  the paid mover of section 6.
* *Market collection.* Two epochs are one barrier, two shards one to wait for. A fault is
  a kill, a restart, a child that dies, a session that stops on a failure or an instant at
  which leases run out under children; three of them against four attempts leave one
  attempt that works.
* *Residents.* Two residents are the fewest that can pass or wake each other. Intervals of
  one and two make their wake-ups fall together and apart.

Deadlock is not checked where the system may stop: clients with nothing left to submit,
a caller behind its last operation, a batch that ends, a frozen collection, or an
authority that is closed while every process is down.

## 4. Fairness

| Specification | Fairness | Justification |
|---|---|---|
| `RunControl!ControlFairSpec` | time passes; heartbeat timers fire; each worker goes on with its job or polls for one; recovery replays each dead letter below the limit | the event loop runs timers and promise continuations; worker and recovery hosts poll for ever (`worker/localSimulationRuntimeRunQueueWorkerHost.ts`). No fairness for schedules, stop requests, kills, or heartbeats that throw |
| `EventStore!FairSpec` | a call in flight goes on; a store that is down is opened again | synchronous code runs on; `Restart=on-failure` |
| `CommandStore!FairSpec` | the call in flight, the restart, and each client's submission | clients repeat a submission until they are answered |
| `RuntimeLoop!Spec` | the running batch, the restart, and the caller's start | as above; the queue retries an operation that was not acknowledged |
| `Authority!FairSpec` | each process works on; a dead holder's lease runs out | the lease has an expiry time; service manager. No fairness for requests, crashes, or leases that expire under a live writer |
| `MarketCollection!FairSpec` | the loop's next step; for each shard and epoch some child that runs or is due goes on; time passes; somebody runs the collection again | processes run; README.md:367–368 resumes a collection with the same command and its id. No fairness for children that die, sessions that stop, kills and restarts |
| `ResidentTurns!FairSpec` | the loop takes its next step; the driver of a turn ends it or is cut off; the cadence passes; an operator's session ends; the loop is started again | `DriverThrows` covers the driver's timeout (`apps/residents/src/cli.ts:255–297`); the service is restarted. No fairness for calls, kills, or any of the operator's acts |
| `AuthorityInbox!Spec` | none | no liveness is claimed; that the barrier is no deadlock is the invariant `BarrierOpens` |

Every liveness property is stated so that it can be false in the bounded model without
the bound being the reason: bounded crashes come to an end, and what has to happen then
is what is claimed. Weak fairness is enough everywhere; no property needs a step that is
enabled only now and then to be chosen.

## 5. Proofs

The proof modules extend the component they are about. Their theorems hold for every
value of the constants that satisfies the component's named assumption
(`RunQueueAssumption`, `RunControlAssumption`, `EventStoreAssumption`,
`CommandStoreAssumption`, `RuntimeLoopAssumption`, `AuthorityAssumption`,
`AuthorityInboxAssumption`, `MarketCollectionAssumption`, `ResidentTurnsAssumption`): any
number of jobs, cycles, workers, streams, keys, clients, operations, ticks, partitions,
agents, commands, writers, shards, epochs, attempts, residents, crashes and failing operations. Several of them state a property that no run
lists: the theorem says more than a run could, and the runs spend their time on what is
not proved.

### `RunControlProofs`: the queue

Theorems of `RunQueue`'s `Spec`, about types, authority and completion:

| Theorem | States |
|---|---|
| `TypeCorrect` | `Spec => []TypeOK` |
| `QueueInvariant` | `Spec => []QueueInv` |
| `AttemptsHaveAuthority` | `Spec => []AttemptAuthority`: a worker at work owns its job's lease, or a later attempt exists |
| `SingleCompletion` | `Spec => []CompletedByLastAttempt` |

`CompletedByLastAttempt` is not inductive: a completion is recorded for the attempt the
worker remembers, so one has to know that this attempt is the last one as long as the
worker owns the lease. `QueueInv` adds that (`AttemptAuthority`) and the agreement
between a record's status, its lease and the outcomes of its attempts
(`RecordsConsistent`). The lemmas `CreatedJobsTyped`, `CreatedJobsFields` and
`CreatedJobsSound` say once what the record constructors (`CreateLeasedJob`,
`CreateFailedJob`, …) yield, so that each action's case is about the workers only.

The second part is about the ledger and the history of attempts:

| Theorem | States |
|---|---|
| `QueueImplementsLedger` | `Spec => ImplementsLedger`: the queue refines `JobLedger` |
| `CompletionIsFinal`, `OutcomesWrittenOnce` | the action properties `CompletedIsFinal`, `HistoryIsWriteOnce` |
| `FailuresCounted`, `DeadLettersExhausted` | `Spec => []FailuresAccounted`, `Spec => []DeadLetterExhausted` |

One lemma about steps (`StepsOfTheQueue`) carries them: a step leaves the records
alone, lets time pass for all of them, or replaces one record by what a repository
operation makes of it. Every theorem is then a fact about the six record constructors
applied to one record that satisfies `QueueInv`. `CompletedIsFinal` needs in addition
that a completed record has no deadline left for time to change (`Finished`);
`FailuresAccounted` that the attempt whose failure is recorded was open until then.

The third part is about time. `TimelyExclusion`: `TimelyHeartbeats => (Spec => []ExecutionIsExclusive)`, where
`TimelyHeartbeats` says that renewals do not fail and that
`HeartbeatInterval + TimerDelay < LeaseDuration`. The invariant `OnTime` ties what is
left of a lease to its worker's timer: it is the lease duration less the heartbeat
interval plus what the timer shows. Both conditions are needed: without either TLC
finds two workers on one job.

`LeasesLostLate` (`Spec => []SupersededOnlyWhenLate`) goes without the assumption. `LateInv`
says of each worker at work that a renewal of its has failed, or that its timer is overdue
by all the lease has to spare, or that it owns a lease that lasts at least until then.

### `RunControlProofs`: the control

Theorems of `RunControl`'s `ControlSpec`:

| Theorem | States |
|---|---|
| `ControlDrivesQueue` | `ControlSpec => Spec`: whatever drives it, the queue takes only steps of its own |
| `ControlledQueueIsSafe` | hence `AttemptAuthority`, `CompletedByLastAttempt` and `ImplementsLedger` hold here |
| `ControlInvariant`, `ControlTypeCorrect` | `ControlSpec => []ControlInv`, `ControlSpec => []ControlTypeOK` |
| `CompletedRunsDidSucceed` | `ControlSpec => []CompletedRunsSucceeded` |
| `StopsAreObeyed` | `ControlSpec => []StopsHold` |
| `RecordedRunsStand` | `ControlSpec => RunHistoryStands` |

A session is written by whoever runs it, and nothing in it says who that is. `ControlInv`
supplies it: of the jobs that were never held twice, each has one holder (`Exclusive`); a
holder that is in its session finds there the cycles it has in memory and the session
open (`RunFollowsSession`), so that it can only append to them; and nobody but that holder's
final save closes the session, with the outcome of all its cycles and a reason to end
(`ClosedWell`). A worker that is about to record a success has a closed, successful session
behind it (`RecordsSuccess`); `CompletedSucceeded` is what remains of that once it is recorded.
For `StopsHold` a failed cycle or a stop request must not be forgotten: `RunningIsHeld` says
that an open session whose job was not killed has its runner, which still remembers
`stopReason`, and `LoopsUnstopped` that a runner that goes on had no reason to stop.
`CompletedRunsSucceeded` and the second half of `RunHistoryStands` exclude jobs held twice,
`StopsHold` those and the killed ones; the limits in section 7 say why.

### `CommandStoreProofs`

| Theorem | States |
|---|---|
| `CommandInvariant` | `Spec => []CommandInv` |
| `CommandTypesCorrect`, `RecordsKeepStanding`, `AnswersAreInStream`, `KeysAnsweredAlike` | `TypeOK`, `RecordsStand`, `AnsweredIsInStream` and run `command_store`'s `OneAnswerPerKey` |

`CommandInv` adds that an answer given is the record under its key (`AnswersRecorded`),
that a record is under its own key (`RecordsKeyed`), and what the call in flight relies on
between its appends (`InFlight`). The command that a death between the appends leaves
without a record is no contradiction to it: the retry gets the only answer there is, for
the second copy (section 7).

### `EventStoreProofs`

| Theorem | States |
|---|---|
| `StoreInvariant` | `Spec => []StoreInv` |
| `StoreTypeCorrect`, `RecordsResolve`, `AcknowledgedSurvives`, `PendingRecoverable` | `TypeOK`, `IndexMatchesStreams`, `AcknowledgedIsDurable`, `PendingIsRecoverable` |
| `OnlyErrorsOrRepacksBlock` | run `event_store`'s `BlockedByErrorOrRepack` |
| `StoreImplementsLog` | `Spec => ImplementsLog`: the store refines `IdempotentLog` |

`StoreInv` adds `InFlight`: what each phase of the call in flight relies on (in
"append" the stream still has the version expected; in "record" the batch is in the
stream and the key is free; behind it the record exists). A crash forgets the phase but
not the pending file, and `PendingIsRecoverable` is what is left of `InFlight` then;
recovery re-enters the phase that the files show. The refinement proof has one lemma
per kind of step: `CommitStep` (the rename is the abstract append), `StreamStep`,
`RecordStep`, `ClearStep` (stutters, since the pending request counts as made),
`AcknowledgeStep` and `ReplayStep`.

An append is answered "blocked" when it finds another's pending file, or when the repack
behind it is refused. `BlockInv` says that an idle process has no pending file in its way
unless an operation threw or a killed repack left its staging file: recovery leaves none
behind.

### `RuntimeLoopProofs`

| Theorem | Holds for | States |
|---|---|---|
| `LoopInvariant`, `LoopTypeCorrect` | every setting | `Spec => []LoopInv`, `Spec => []TypeOK` |
| `CheckpointsFollowEffects` | every setting | `[]CheckpointFollowsEffects`: a command's checkpoint comes behind its events, memory and trace |
| `KillsCostLittle` | every setting | `[]LossesBoundedByKills` |
| `RuntimeImplementsHistory` | every setting | `ImplementsHistory`: the runtime refines `TickHistory` |
| `BatchesAreExact`, `OperationsAdvanceOnce` | without pauses and resets | an operation has exactly its ticks: `OperationAdvancesOnce` |
| `NothingIsReplayed`, `PausesDoNoHarm` | every setting | `[]PausesAreHarmless`: without a kill and a reset no start throws |
| `UndisturbedStateIsPrefix` | without a kill and a reset | `DerivedStateIsPrefix` |
| `RecoveredStateIsPrefix` | commands that append nothing | `[]DerivedStateIsPrefix`, whatever is killed, paused or reset |
| `ReplaysAreExact`, `RecoverySucceeds` | commands that append nothing, cycles that decide alike when run again, no pauses and resets | `RecoveryIsExact`: no start throws, whatever is killed |

"Without" means in behaviours, or parts of behaviours up to the first one, in which none
occurred; the theorem's formula says so.

`LoopInv` goes without any assumption on the environment. `DrainInv` orders the four writes
of a drained command; `MemoryInv` counts a command's memories against the kills;
`OrderInv` says that a tick is entered behind a finished one and goes on directly behind its
last append, which is what the refinement needs; `TicksInv` bounds the tick by the operations
acknowledged and the pauses (so that the model's bounds never cut a batch short), and knows
that a partition whose drain has failed never ticks again (`Stuck`); `CyclesInv` says that the
cycles whose effects nobody will save are no more than the kills.

The other invariants hold on top of it for the environments named. `ExactBatch` ties the
ticks counted in memory, in the lifecycle file and in the acknowledged operations.
`Undisturbed` says that what is in memory is the whole stream and no tick meets an append of
its own. `ExactReplay` is what makes recovery exact: the stream has every append that is due
in the order of the ticks (`InOrder`); the lifecycle's boundary stands in front of exactly
the appends of the next tick (`AtBoundary`); the process replays from there or goes on from
the end (`FromBoundary`); and inside a tick the appends met so far are those of the slots
passed (`InStep`). Lemma `NothingThrows` draws the conclusion: an append that is there is the
next one, and one that is not is expected at the end. Each hypothesis of `RecoverySucceeds`
is needed: with commands that append, cycles that decide anew, or a pause in front of a kill,
TLC finds a start that throws (sections 6 and 7).

The refinement proof corrected the model's promise. `TickHistory` used to say that commands
stand between finished ticks. That is false: a replayed tick drains again before it replays,
and a command submitted since then is appended behind the appends the tick had already
made. The old run did not see it because it had no metrics slot, without which a tick of
idle agents is finished by its first append. The promise now says what is true and the
run has market metrics.

### `AuthorityProofs`

| Theorem | States |
|---|---|
| `AuthorityTypeCorrect` | `Spec => []TypeOK` |
| `LeaseExclusion` | `Spec => []LeaseExcludes` |
| `AnsweredStands` | `Spec => []AnswersStand` |
| `CrashesKeepOpen` | `Spec => []CrashesNeverClose` |

Two invariants carry them. `LeaseInv`, for processes that may die: unless a lease was outlived
or two takeovers of one expired lease crossed (`raced`), at most one writer is at work; while
it is, the lease is taken and not expired, if it is written the writer owns it, and nobody is
about to remove it. So a lease that runs out behind a death is nobody's who still works, a
takeover removes nothing that is in use, and a release removes the writer's own.
`ExclusiveInv`: as long as no two writers ever overlapped, at most one is between its
lease and its release (`Alone`), it has read what is still in the files and has
written what its next step relies on (`Prepared`), the journal is one chain (`Chained`)
that the state agrees with (`Coherent`), an operation is decided once (`DecidedOnce`),
and answers stand (`Standing`). Crashes of a process at any step keep it, because each
of the three writes of `mutate` leaves files that satisfy it: this is why the order
intent, state, completion is the right one.

### `AuthorityInboxProofs`

| Theorem | States |
|---|---|
| `KnownTypes` | `Spec => []InboxInv` |
| `ClocksAgree` | `Spec => []Timing` |
| `BarrierNeverBlocks` | `Spec => []BarrierOpens` |
| `ClockStandsStill` | `Spec => ClockMovesBetweenTicks` |
| `NothingTwice` | `Spec => []DeliveredOnce` |
| `WholeUntilAKill` | `UnpaidJourneys`: `Spec => [](crashes = 0 => Whole)` |
| `NothingIsLost` | `UnpaidJourneys`: `Spec => []InboxBringsEverything` |
| `OnlyOwnersDo` | `UnpaidJourneys`: `Spec => []OnlyOwnersAct` |
| `InboxTypesCorrect` | `TravelTicks > 0`: `Spec => []TypeOK` |

All of them with kills, starts given up and poisoned partitions, except that
`ClockMovesBetweenTicks`, `InboxBringsEverything` and `OnlyOwnersAct` themselves are
about behaviours up to the first kill. `UnpaidJourneys` says that journeys take time and that nobody who
moves is paid by a cadence. Without the first, TLC finds an older record published
(section 7); without the second, the paid mover of section 6. The run's constants
satisfy both.

`InboxInv` is the type invariant without the bounds on ages and tokens; it includes
`Known`: the authority has a record of exactly the agents it has an owner for, and only such
an agent is in transit.

`Timing` is what the barrier relies on. `TailOfTick`: the appends behind the lifecycle's
boundary contain the time event of the tick that runs or was interrupted, at most once, and
first in a recovered tick; the projection clock is the ticks completed plus that event.
`PublishedTicks`: a tick is published when it is finished; a partition that waits has
published the clock it waits with; the authority is at most one tick ahead of every
publication, and a tick in its body has the authority's clock. `Stamps`: no publication
that a router or a receipt remembers is ahead of what the partition has published, so that
a repeated publication, which the authority answers from its receipt, was applied before.
`BarrierOpens` needs the middle part: whoever waits and cannot go on has published the
authority's present clock, and so has a partition that has finished its batch.

`Streams` ties a stream to the cursor: tokens increase, an entry is at most the
cursor's unless its start was poisoned, and what was recorded up to the cursor is there.
A reading between two steps of the materializer has more (`Delivered`): it has appended
what is pending up to the token it has come to, each entry as the inbox says it now, which
is why a delivery found in the stream never conflicts. Lemma `ReadDelivered` proves it for
every reading, `RestartedDelivered` for a reading that a kill cut short and the restart
finished, and `StreamRead` draws the conclusion for the cursor.

What a partition reads is a recursive function of the deliveries, and an induction over
them would be needed. `Applying` and `Reading` prove that the recursions have their values
(the function that is pieced together from its values on shorter inputs satisfies the
equation), and what holds of every value is proved by looking at the least number at which it
fails (lemma `Least`, from the well-foundedness of the numbers).

`Whole` is what a step needs to lose nothing. Its centre is `View(p)`: what partition p
would have after reading its inbox to the end is what the authority says of it. That alone
is not inductive, because a settlement is made in one partition and its deliveries
are read in another, and because the authority overwrites an agent's record with
what a partition publishes. The other parts say what each place holds meanwhile:

* `Owners`: a pending journey leads from its traveller's owner to another partition.
  `OperationsPlain`: a cadence's settlement is for depositors, any other has one event.
* `Calm`: a time event in the tail means that a tick runs, nothing is recovered in a tick,
  and a running tick has taken all that the last cadence brought. `Working`: a tick works on
  exactly the agents its partition owns, at its clock, and on travellers' full records.
* `Bound`: the boundary, which a recovered start publishes, is nowhere ahead of the
  partition, has travellers' full records, and lacks nobody the router remembers as reported.
* `RecordsOf`: the authority's record of a traveller, with which it is handed over, is what
  its owner has. `Receipts`: a publication that is repeated and answered from its receipt
  would say nothing new of a traveller.

A step of one partition leaves what the others have alone (`ElsewhereWhole`). A settlement
between clocks (`TransferSettles`, `MoveSettles`) adds one delivery to every later reading.
A cadence (`AdvanceView`) adds payments and hand-overs at once: by the second
hypothesis, no two of them are for one agent, and `AppliedApart` shows that each has its
effect as if it were alone.

`Bounds` adds to `InboxInv` what `TypeOK` says of ages, tokens and numbers, with kills. A
record is at most as old as the clock it lives by: the authority's records as `now`, a
partition's projection and what its tick works on as its clock, the boundary, and what a
partition that waits or may start works on, as its ticks completed. Whatever an inbox brings is
at most as old as the reader's clock, although the record may come from a partition
further on: a hand-over falls in an advance, which every partition has
published the authority's clock for. Settlements are the authority's ticks and the agents'
commands: `Len(operations) = Settlements + now`. `TravelTicks > 0` is needed because an arrival
at once may be older than the clock of a partition that is still behind.

### `MarketCollectionProofs`

| Theorem | States |
|---|---|
| `Invariance` | `Spec => []Inv` |
| `CollectionTypesCorrect` | `Spec => []TypeOK` |
| `SocietyStaysInStep` | `Spec => []SocietyInStep` |
| `EpochsAreRunOnce` | `Spec => []EpochsRunOnce` |
| `RootsAreSharedWhenAbandoned` | `Spec => []SharedOnlyWhenAbandoned` |

The properties speak of worlds, the ledger of attempts, and the children stand in
between; `Inv` ties the three. `EpochsInTurn`: an epoch that was begun has its predecessors
completed, those of all shards in a single society. `StatusOfAttempts`: an epoch is pending
until its first attempt. `ChildrenOfAttempts`: an attempt starts one child, and while it
runs alone in its runtime root the ledger has its attempt as the one started.
`CyclesCounted`: a shard's world has gone through the cycles of its completed epochs and of
the session of the next. `WindowsRight`: the window a child or the ledger reports is the
epoch's. `AbandonedChildren`: a child its run does not wait for, or a shared root, only
behind an abandoned run. Lemma `WorkInv` covers the steps of children
(`RunCycle`, `StopSession`, `Report`, `ChildDies`), `WaitersInv` those that only change
who waits (`KillLateChild`, `RefuseLate`, `KillCoordinator`, `Restart`).

### `ResidentTurnsProofs`

| Theorem | States |
|---|---|
| `Invariance` | `Spec => []Inv` |
| `ResidentTypesCorrect` | `Spec => []TypeOK` |
| `WokenStayDue` | `Spec => []WokenIsDue` |
| `RotationIsFair` | `Spec => []ServedInTurn` |
| `FinishedTurnsStand` | `Spec => SettledTurnsStand` |

`WakesAreKept`: what is owed to a resident stands on its record, and while its turn is not
finished the wake-up is the message that `finishTurn` keeps. `FinishedTurnsAreOver`: a turn the journal has finished is neither running nor
waiting for a time, so that no call can change it. `PassedStandAhead`: whoever has passed
a due resident has a later place in the rotation, so that it cannot be chosen again before
that resident.
`LoopHasResident`: inside a turn the loop's resident exists.

### What stays with TLC

* Liveness (`EventuallyAnswered`, `EventuallyOpen`, `EventuallyCompletes`, `LeaseComesFree`,
  `EventuallyHandled`, `EventuallyFrozen`, `NobodyStarves`): the prover has no rules for weak
  fairness and ENABLED.
* What `AuthorityInbox` promises where the theorems' hypotheses do not hold: `InboxBringsEverything` and
  `OnlyOwnersAct` without `UnpaidJourneys`, `TypeOK` with journeys of no time. The run's
  constants satisfy these hypotheses.
* That a start which throws outside the hypotheses of `RecoverySucceeds` leaves the stream
  alone is part of `RuntimeImplementsHistory`; that such starts exist is shown by the run
  `runtime_drained_tick`.
* What the community modules' folds compute for every input: the library's induction
  theorems take operators as parameters, which the installed provers cannot
  instantiate. No module uses a RECURSIVE operator; where a proof needs induction over the
  naturals, it argues by the least counterexample (`AuthorityInboxProofs`).

## 6. Where the code differs from its documents

Two disagreements have a run that TLC ends with a counterexample; `PROJECT.json` quotes the
lines.

1. **A tick interrupted behind a drained command is not recovered**
   (`runtime_drained_tick`, `worker/localRuntimeStep.ts:193`). The recovered tick is
   hydrated to the boundary in front of the command's events and expects that version.
   Every later start throws. README.md:371–374 promises exact recovery.
2. **A recovered tick makes the authority delete an agent** (`authority_inbox_erased`,
   `worker/simulationCommandRouter.ts:192`). The process dies in a tick behind the append
   of an agent's arrival. The recovered tick publishes the boundary in front of it, in which
   the agent is missing, while the new router takes from the ownership ledger that it was
   reported: the agent counts as departed, its record and owner are deleted and its
   deposits liquidated. The comment at lines 141–145 says that a missing resident is a true
   departure.

The following were met while modelling; they have no run of their own.

* **A command can be submitted twice** (`sim-core/fileCommandStore.ts:75`). The process dies
  between the stream line and the idempotency line; the client's retry is appended again
  and handled under a second append key. The design document says retries and restarts do
  not create duplicate facts. `OneAnswerPerKey` holds all the same: the retry gets the only
  answer there is.
* **A killed compaction blocks the store** (`sim-core/fileEventStore.ts:1240`). The file
  `idempotency.deflate.compacting` of a killed process is never removed, and every later
  compaction refuses. The append that triggers it has become durable but is answered by an
  exception, and its pending file blocks the appends that follow in that process.
  `BlockedByErrorOrRepack` names this case as the one besides failing operations.
* **A recovered tick can save a wrong snapshot** (`worker/tickRunner.ts:575`). A command that
  is drained in front of replayed appends enters the projection but not the version the
  snapshot is labelled with. The comment ten lines above says this must not happen for the
  authority's deliveries; it does not consider commands.
* **The paid mover** (`worker/simulationWideAuthority.ts:3223`). A payment of the credit
  cadence is routed to whoever owns its receiver when the inbox is read. A receiver that is
  handed over in the same advance has its payment, an earlier fencing token, delivered to
  its new owner ahead of the arrival, and the fold throws on the unknown agent. The
  partition cannot take its inbox any more.
* **Two writers of a resident journal** (`worker/openSociety/journal.ts:46`, `:60–70`). Starter A
  reads the lock of B; B closes; C acquires without a recovery guard, as there is no lock;
  A finds B's process gone and removes the lock by name, which is C's now.
  `specs/OPEN_AGENT_SOCIETY_V1.md:91` promises that an exclusive lock keeps a second writer out. A kill inside the
  journal's append leaves `truncated-open-society-journal` until somebody repairs the file.
* **Conversations recovered on demand.** The comment at
  `worker/localSimulationSocialInteraction.ts:100–105` says pending operations are still
  recovered when the authority has taken over; the service that is used then recovers none.

`RecoveryIsExact` and `DerivedStateIsPrefix` (every projection and snapshot is the fold of a
prefix of the stream) are therefore checked as invariants only where
commands append nothing; there they hold, with two crashes anywhere.

## 7. Limits known from the models

Behaviour that the models have and that a reader should know of. None is asserted by a
document to be otherwise, or the document is too vague to quote; no run is spent on it.

*Run queue.* The budget of a dead-letter replay has no effect on the failure that
follows: `createFailedJob` is given the worker's `maxAttempts`
(`localSimulationRuntimeRunQueue.ts:668`, `:719`).

*Event and command store.* An incomplete frame at the end of a file makes the store
unreadable until somebody repairs it (`fileEventStore.ts:640`,
`deflatedJsonLinesFrames.ts:53`); `EventuallyOpen` names that case. A JSON line continued
after an unfinished one is spoiled for good (`appendOnlyJsonLinesFile.ts:49`);
`EventuallyAnswered` names it.

*Runtime.*
* A command with drafts that is delivered again after a kill is refused by the store,
  since it expects a later version under the same key (`commandDispatch.ts:120`); the drain
  and with it every later start fails.
* A cycle that left no append is run again in recovery and may now append at a version
  that is taken (`tickRunner.ts:391`). The start throws; the stream stays one history
  (`ImplementsHistory`).
* A pause requested while a tick runs writes the lifecycle state; if the process is
  killed before the tick ends, the batch is not found running and the tick is not
  replayed (`localSimulationLifecycle.ts:285`, `:443–450`).
* A reset requested while a batch runs is overwritten by the next tick boundary, the
  end of the batch or a pause (`:333`, `:347`, `:374`, `:394`, `:443`).
* A pause between the end of a batch and the answer makes the caller's retry run the
  operation again (`:258`, `:437–441`).
* The lifecycle file is rewritten in place (`:226`); a kill inside the write leaves JSON
  that does not parse. The model saves it atomically.
* The memory, plan progress and trace of a cycle are written behind its append and lost by
  a kill in between, and a redelivered command is remembered again; `LossesBoundedByKills`
  bounds both to one per kill.

*Authority.*
* A crash between the creation of the lease directory and `lease.json`, or with
  `lease.json` removed, keeps every later writer out (`simulationWideAuthority.ts:3782–3794`);
  `LeaseComesFree` names it.
* Two processes that find one lease expired can both end up at work: the second removes
  what the first has just taken (`:3791`). A release removes whoever's lease it finds
  (`:3771`). The properties of the files are stated for writers that did not overlap, and
  `LeaseExcludes` says that this crossing of takeovers (the variable `raced`) and an outlived
  lease are the only ways to two writers at work, also behind deaths. One death is enough for
  the crossing: the restarted process and another one both read the lease it left.
* Nothing compares fencing tokens when the state is replaced (`:990`). With three
  writers, one of them stopped in front of its publication for longer than its lease,
  an operation published and answered through the existing-operation path but not yet
  completed in the journal is overwritten without notice. TLC finds it with
  three writers and one outlived lease; with two writers, up to two crashes and one
  outlived lease, every overwriting is found out by the coherence check. `docs/PAPER_ALIGNMENT_MATRIX.md:49–51` lists multi-process
  verification as open; the supported deployment has one authority process.
* The lease's times come from the command's `issuedAt`
  (`localSimulationRuntimeHost.ts:459`), so that a lease can be born expired. In the
  model a lease may run out at any step, which includes this.
* An incomplete journal row closes the authority (`:3888`).

*Authority's inbox.*
* Where journeys take no time (`TravelTicks = 0`), `InboxBringsEverything` fails in the
  model: the router publishes in front of a settlement without taking the inbox
  (`simulationCommandRouter.ts:294`), and can publish a record older than the arrival. The
  locations of the content catalogue have travel times (`packages/content/src/locations.ts:61`).
  The bounds on ages in `TypeOK` are proved for journeys that take time.
* `InboxBringsEverything`, `OnlyOwnersAct` and `ClockMovesBetweenTicks` are stated for
  behaviours without a kill. Behind one, a recovered tick publishes an older boundary (finding 2) and
  may run at a time the authority has left.
* One reading takes at most 100 deliveries (`simulationWideAuthority.ts:2597`), and what is
  published behind it lacks the rest until the next readings. The model reads the inbox to the
  end, which is the same up to 100 unread deliveries. With a variant of the model that takes one
  delivery per reading, TLC finds the six properties of the run to hold for 3
  settlements and a kill, and without kills for 4 settlements and 3 ticks. A traveller
  could be handed over with an older record only if the backlog outlasted every reading of its
  partition during the journey.
* The paid mover (section 6) is in no run: `InboxBringsEverything` is checked with movers
  and depositors apart, and says nothing of it.
* Behind a kill, only `DeliveredOnce`, `TypeOK` and `BarrierOpens` are claimed. What a recovered
  tick's older boundary does to agents is shown by `NobodyErased`.

*Run control.*
* A kill between a cycle's checkpoint and the final save forgets why the session stopped:
  the next worker goes on with the remaining cycles, behind a failed one or a stop request
  (`localSimulationRuntimeSupervisor.ts:381`). `StopsHold` excludes such jobs, and
  `CompletedRunsSucceeded` holds nevertheless, since the outcome is that of all cycles.
  `docs/superpowers/plans/2026-06-24-runtime-run-session-recovery-slice.md:40–42` specifies the
  resumption and says nothing of the reason.
* A job that two workers held at once (a lease outlived) can have its closed session
  written again; `RunHistoryStands` excludes that, but not for recorded cycles.
* A job that is replayed although its session is closed fails again without running: its
  outcome is final, and a replay budget is used up for nothing (`:348`).
* `allowWhenDeadLettered` is off in the model; with it the scheduler's gate on dead letters is
  gone. The recovery's query limit (`localSimulationRuntimeRecovery.ts:268`) is applied
  before its filter, so that enough dead letters beyond the replay limit hide one below it;
  with the default of one pending job that does not come about.

*Market collection.*
* A ledger append is one action; that two coordinators started at once both read the ledger
  before they append (`paperMarketCollection.ts:302`) is not in the model.
* Node's timers are taken never to fire early; a child killed for too much output is
  `ChildDies`; one kill orphans the children of all processes whose run has failed.

*Residents.*
* With several turns open at the operator's endpoints, a reminder or the end of an activity
  that comes due during a resident's turn is overwritten by the end of that turn: only a
  message is protected (`runtime.ts:278`). In the run loop time stands still during a turn.
* A turn left "waiting" by a kill is never finished; the next `beginTurn` replaces it.
* A driver that throws for good moves no clock: the loop's catch finishes the turn and tries
  the next resident. The model bounds interruptions, so `NobodyStarves` is claimed for drivers
  that recover.
* The commands `call` and `advance` of the command line are short sessions of the operator;
  endpoints used while `run` is under way, residents that leave the world, and the
  verification modes are not modelled.

## 8. What is not modelled

* **Social interaction journal** (`worker/localSimulationSocialInteraction.ts`): an intent that is
  appended to two streams in turn. The simulation-wide authority replaces it, and it is
  switched off where the authority is on; a death between the two appends leaves an intent
  whose expected version may have passed. The hazard is listed without a property.
* **Open society's writer lock and the format of its journal**: described in section 6; the
  hazard is listed without a property. Its capabilities are functions of the state.
* **World and domain aggregates**: some 19 000 lines of sequential rules over one record,
  decided inside one append. The models
  above need of them only that a handler is a function of the projection. The market
  maker computes with floating-point numbers, which TLC does not have.
* **Agent cognition, LLM gateway**: what an agent decides is nondeterministic.
* **File formats**: compression, JSON, legacy readers, the bloom filter, bounded read
  caches and sparse checkpoints are represented by what they return.
* **Offline tools** (migration, redaction, data deletion): copies of a directory nobody
  writes to.
* **HTTP API, server wiring, registry, content, observability, web client**: no state of
  their own that the simulation reads back, or constants.
* **Wall-clock time**: only the order of deadlines is kept.

## 9. Plan

Done, in this order: `RunQueue` with `JobLedger`; `EventStore` with `IdempotentLog`;
`CommandStore`; `RuntimeLoop` with `TickHistory`; `Authority`; `AuthorityInbox`; `RunControl`;
`ResidentTurns`; `MarketCollection`. Each has its proofs (those of `RunQueue` and `RunControl` share
a module), in which every invariant and action property of its runs is a theorem;
`AuthorityInbox` has three of its own under hypotheses on journeys and payments (section 5).

What is worth doing next:

1. `DeliveredOnce` as a refinement: each partition applies a prefix of its part of one
   global order.
2. The resident journal's lock and the social interaction journal, each a small module over
   files like `EventStore`.
3. The limit of 100 deliveries per reading as a constant of `AuthorityInbox`, with its theorems.
4. Life cycles of bank deposits, orders, bookings and ride requests.
