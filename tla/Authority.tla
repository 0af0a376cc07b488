------------------------------ MODULE Authority ------------------------------
(***************************************************************************)
(* The durable core of the simulation-wide authority                       *)
(* (apps/worker/src/simulationWideAuthority.ts): every operation that      *)
(* settles something for the whole town goes through mutate, which takes   *)
(* the writer lease (a directory with lease.json in it), reads state.json  *)
(* and the hash-chained journal and checks one against the other, appends  *)
(* an intent, replaces state.json, appends a completion, and removes the   *)
(* lease.  Several processes may open one directory; each recovers when it *)
(* starts and may die between any two file operations.  The directory was  *)
(* seeded before; the two reads at the head of a call are one step, as is  *)
(* the removal of the lease with the throw that leads to it.               *)
(*                                                                         *)
(* An operation is its id and its request fingerprint.  What it decides,   *)
(* in the domain, is left out: state.json is the sequence of operations    *)
(* decided so far, an operation's position in it is its fencing token and  *)
(* its length is both the revision and the latest token.  A hash-chain     *)
(* link is the number of rows that precede the row it was computed from.   *)
(***************************************************************************)
EXTENDS Naturals, Sequences, FiniteSets

CONSTANTS
  Writer,       \* processes that open the authority directory
  Operation,    \* operation ids
  Fingerprint,  \* request fingerprints
  Requests,     \* the requests each writer's callers make
  Nobody,       \* no live writer
  TornRows,     \* whether an append to the journal may be cut short
  MaxCrashes,   \* bound: crashes of a process
  MaxStalls     \* bound: leases that expire under a live writer

Decision == [op : Operation, print : Fingerprint]

ASSUME AuthorityAssumption ==
  /\ Nobody \notin Writer \cup Operation
  /\ Requests \in [Writer -> SUBSET Decision]
  /\ TornRows \in BOOLEAN
  /\ MaxCrashes \in Nat /\ MaxStalls \in Nat

VARIABLES
  \* The directory.
  ledger,   \* the operations in state.json, by fencing token
  journal,  \* the complete rows of operations.jsonl
  torn,     \* whether operations.jsonl ends in an incomplete row
  lease,    \* the directory .writer-lease, and the live writer behind it
  \* The processes.
  pc,       \* the next file operation of each writer
  job,      \* what it is doing: recovering, or the request it settles
  seen,     \* the ledger it read, and after its publication the one it wrote
  tail,     \* the number of journal rows it read before an append
  todo,     \* the operations it has to append completions for
  \* What happened.
  answers,  \* the operations answered to callers, with their tokens
  overlap,  \* whether two writers were ever at work at once
  raced,    \* whether two takeovers of one expired lease crossed
  crashes, stalls

files == <<ledger, journal, torn>>
process == <<job, seen, tail, todo>>
faults == <<raced, crashes, stalls>>
vars == <<files, lease, pc, process, answers, overlap, faults>>

Recovery == [op |-> Nobody, print |-> Nobody]

\* The steps between the lease and its release.
Section == {"read", "intent-tail", "intent", "publish", "completion-tail",
            "completion", "answer"}

Step == Section \cup {"down", "idle", "acquire", "remove", "retake", "lease"}

Intent(d, token, after) ==
  [type |-> "intent", op |-> d.op, print |-> d.print, number |-> token, after |-> after]

Completion(op, revision, after) ==
  [type |-> "completed", op |-> op, print |-> Nobody, number |-> revision, after |-> after]

-----------------------------------------------------------------------------
(* readVerifiedJournal and assertAuthoritySnapshotJournalCoherence.        *)
Decided(l) == {l[i].op : i \in DOMAIN l}

Completed(j) == {j[n].op : n \in {m \in DOMAIN j : j[m].type = "completed"}}

\* Every row was computed from the row before it.
Verified == ~torn /\ \A n \in DOMAIN journal : journal[n].after = n - 1

\* A completion appears once, for an operation of the state that is not
\* newer than it; a decided operation has the intent it was published under.
Coherent(l) ==
  /\ \A n \in DOMAIN journal : journal[n].type = "completed" =>
       /\ journal[n].op \in Decided(l)
       /\ journal[n].number <= Len(l)
       /\ \A m \in DOMAIN journal :
            journal[m].type = "completed" /\ journal[m].op = journal[n].op => m = n
  /\ \A i \in DOMAIN l : \E n \in DOMAIN journal :
       /\ journal[n].type = "intent"
       /\ [op |-> journal[n].op, print |-> journal[n].print] = l[i]
       /\ journal[n].number = i

\* Fails closed: every start and every operation throws from here on.
Closed == ~Verified \/ ~Coherent(ledger)

\* A row written behind an incomplete one cannot be told from it.
AppendRow(row) == journal' = IF torn THEN journal ELSE Append(journal, row)

\* A writer moves on; two of them at work at once are remembered.
Goto(w, step) ==
  /\ pc' = [pc EXCEPT ![w] = step]
  /\ overlap' = (overlap \/ \E u, v \in Writer :
                   u # v /\ pc'[u] \in Section /\ pc'[v] \in Section)

\* The call returns or throws, or the process ends: its variables are gone.
Leave(w, step) ==
  /\ Goto(w, step)
  /\ job' = [job EXCEPT ![w] = Recovery]
  /\ seen' = [seen EXCEPT ![w] = << >>]
  /\ tail' = [tail EXCEPT ![w] = 0]
  /\ todo' = [todo EXCEPT ![w] = {}]

\* A request that throws is answered with the error; a start that throws ends
\* the process.
Throw(w) == Leave(w, IF job[w] = Recovery THEN "down" ELSE "idle")

Init ==
  /\ ledger = << >> /\ journal = << >> /\ torn = FALSE
  /\ lease = [phase |-> "absent", owner |-> Nobody]
  /\ pc = [w \in Writer |-> "down"]
  /\ job = [w \in Writer |-> Recovery]
  /\ seen = [w \in Writer |-> << >>]
  /\ tail = [w \in Writer |-> 0]
  /\ todo = [w \in Writer |-> {}]
  /\ answers = {} /\ overlap = FALSE
  /\ raced = FALSE /\ crashes = 0 /\ stalls = 0

-----------------------------------------------------------------------------
(* createSimulationWideAuthority checks the files; a process that finds    *)
(* them closed does not come up, and one that does recovers first.         *)
Start(w) ==
  /\ pc[w] = "down"
  /\ ~Closed
  /\ Goto(w, "acquire")
  /\ UNCHANGED <<files, lease, process, answers, faults>>

Request(w) ==
  /\ pc[w] = "idle"
  /\ \E d \in Requests[w] : job' = [job EXCEPT ![w] = d]
  /\ Goto(w, "acquire")
  /\ UNCHANGED <<files, lease, seen, tail, todo, answers, faults>>

-----------------------------------------------------------------------------
\* Mutant: a lease directory without lease.json counts as expired.
AcquireUnwritten(w) ==
  /\ pc[w] = "acquire"
  /\ \/ /\ lease.phase = "absent"
        /\ lease' = [phase |-> "made", owner |-> w]
        /\ Goto(w, "lease")
        /\ UNCHANGED process
     \/ /\ lease.phase \in {"made", "expired"}
        /\ Goto(w, "remove")
        /\ UNCHANGED <<lease, process>>
     \/ /\ lease.phase = "held"
        /\ UNCHANGED lease
        /\ Throw(w)
  /\ UNCHANGED <<files, answers, faults>>

\* Mutant: an expired lease is not taken over.
AcquireNoTakeover(w) ==
  /\ pc[w] = "acquire"
  /\ \/ /\ lease.phase = "absent"
        /\ lease' = [phase |-> "made", owner |-> w]
        /\ Goto(w, "lease")
        /\ UNCHANGED process
     \/ /\ lease.phase # "absent"
        /\ UNCHANGED lease
        /\ Throw(w)
  /\ UNCHANGED <<files, answers, faults>>

(* acquireLease.  A directory whose lease.json is missing counts as held.  *)
Acquire(w) ==
  /\ pc[w] = "acquire"
  /\ \/ /\ lease.phase = "absent"
        /\ lease' = [phase |-> "made", owner |-> w]
        /\ Goto(w, "lease")
        /\ UNCHANGED process
     \/ /\ lease.phase = "expired"
        /\ Goto(w, "remove")
        /\ UNCHANGED <<lease, process>>
     \/ /\ lease.phase \in {"made", "held"}
        /\ UNCHANGED lease
        /\ Throw(w)
  /\ UNCHANGED <<files, answers, faults>>

\* rmSync of what was an expired lease when it was read.  That another writer
\* is about to remove it too, and may remove what comes in its place, is
\* remembered.
RemoveExpired(w) ==
  /\ pc[w] = "remove"
  /\ lease' = [phase |-> "absent", owner |-> Nobody]
  /\ raced' = (raced \/ \E v \in Writer \ {w} : pc[v] = "remove")
  /\ Goto(w, "retake")
  /\ UNCHANGED <<files, process, answers, crashes, stalls>>

Retake(w) ==
  /\ pc[w] = "retake"
  /\ \/ /\ lease.phase = "absent"
        /\ lease' = [phase |-> "made", owner |-> w]
        /\ Goto(w, "lease")
        /\ UNCHANGED process
     \/ /\ lease.phase # "absent"
        /\ UNCHANGED lease
        /\ Throw(w)
  /\ UNCHANGED <<files, answers, faults>>

\* Throws when another writer has removed the directory meanwhile.
WriteLease(w) ==
  /\ pc[w] = "lease"
  /\ \/ /\ lease.phase # "absent"
        /\ lease' = [phase |-> "held", owner |-> w]
        /\ Goto(w, "read")
        /\ UNCHANGED process
     \/ /\ lease.phase = "absent"
        /\ UNCHANGED lease
        /\ Throw(w)
  /\ UNCHANGED <<files, answers, faults>>

-----------------------------------------------------------------------------
(* mutate and recover, under the lease.                                    *)
\* The finally clause removes the lease directory, whoever's it is by then.
ReleaseLease == lease' = [phase |-> "absent", owner |-> Nobody]

Fail(w) == ReleaseLease /\ Throw(w)

\* The journal refutes the state, or the operation was decided with another input.
Refused(w) ==
  \/ Closed
  \/ \E i \in DOMAIN ledger : ledger[i].op = job[w].op /\ ledger[i] # job[w]

\* An operation is replayed when it was decided before; a new one is
\* rejected by its domain rule or goes on to its intent.
ReadForRequest(w) ==
  /\ pc[w] = "read" /\ job[w] # Recovery
  /\ \/ /\ Refused(w) \/ job[w].op \notin Decided(ledger)
        /\ Fail(w)
     \/ /\ ~Refused(w)
        /\ seen' = [seen EXCEPT ![w] = ledger]
        /\ Goto(w, IF job[w].op \in Decided(ledger) THEN "answer" ELSE "intent-tail")
        /\ UNCHANGED <<lease, job, tail, todo>>
  /\ UNCHANGED <<files, answers, faults>>

\* Mutant: recover completes every operation again.
RecoverAll(w) ==
  /\ pc[w] = "read" /\ job[w] = Recovery
  /\ \/ Closed /\ Fail(w)
     \/ /\ ~Closed
        /\ seen' = [seen EXCEPT ![w] = ledger]
        /\ todo' = [todo EXCEPT ![w] = Decided(ledger)]
        /\ Goto(w, IF todo'[w] = {} THEN "answer" ELSE "completion-tail")
        /\ UNCHANGED <<lease, job, tail>>
  /\ UNCHANGED <<files, answers, faults>>

\* recover collects the decided operations without a completion.
ReadForRecovery(w) ==
  /\ pc[w] = "read" /\ job[w] = Recovery
  /\ \/ Closed /\ Fail(w)
     \/ /\ ~Closed
        /\ seen' = [seen EXCEPT ![w] = ledger]
        /\ todo' = [todo EXCEPT ![w] = Decided(ledger) \ Completed(journal)]
        /\ Goto(w, IF todo'[w] = {} THEN "answer" ELSE "completion-tail")
        /\ UNCHANGED <<lease, job, tail>>
  /\ UNCHANGED <<files, answers, faults>>

\* appendChainedJournal first reads the journal again.
ReadTail(w) ==
  /\ pc[w] \in {"intent-tail", "completion-tail"}
  /\ \/ /\ Verified
        /\ tail' = [tail EXCEPT ![w] = Len(journal)]
        /\ Goto(w, IF pc[w] = "intent-tail" THEN "intent" ELSE "completion")
        /\ UNCHANGED <<lease, job, seen, todo>>
     \/ ~Verified /\ Fail(w)
  /\ UNCHANGED <<files, answers, faults>>

AppendIntent(w) ==
  /\ pc[w] = "intent"
  /\ AppendRow(Intent(job[w], Len(seen[w]) + 1, tail[w]))
  /\ Goto(w, "publish")
  /\ UNCHANGED <<ledger, torn, lease, process, answers, faults>>

\* Mutant: the operations of the state that was read are not carried over.
PublishAlone(w) ==
  /\ pc[w] = "publish"
  /\ ledger' = <<job[w]>>
  /\ seen' = [seen EXCEPT ![w] = ledger']
  /\ todo' = [todo EXCEPT ![w] = {job[w].op}]
  /\ Goto(w, "completion-tail")
  /\ UNCHANGED <<journal, torn, lease, job, tail, answers, faults>>

\* state.json is replaced by what was read and the new operation.
Publish(w) ==
  /\ pc[w] = "publish"
  /\ ledger' = Append(seen[w], job[w])
  /\ seen' = [seen EXCEPT ![w] = ledger']
  /\ todo' = [todo EXCEPT ![w] = {job[w].op}]
  /\ Goto(w, "completion-tail")
  /\ UNCHANGED <<journal, torn, lease, job, tail, answers, faults>>

AppendCompletion(w) ==
  /\ pc[w] = "completion"
  /\ \E op \in todo[w] :
       /\ AppendRow(Completion(op, Len(seen[w]), tail[w]))
       /\ todo' = [todo EXCEPT ![w] = @ \ {op}]
  /\ Goto(w, IF todo'[w] = {} THEN "answer" ELSE "completion-tail")
  /\ UNCHANGED <<ledger, torn, lease, job, seen, tail, answers, faults>>

Answer(w) ==
  /\ pc[w] = "answer"
  /\ ReleaseLease
  /\ answers' = IF job[w] = Recovery THEN answers
                ELSE answers \cup {[op |-> job[w].op, print |-> job[w].print, token |-> i] :
                                   i \in {n \in DOMAIN seen[w] : seen[w][n].op = job[w].op}}
  /\ Leave(w, "idle")
  /\ UNCHANGED <<files, faults>>

-----------------------------------------------------------------------------
(* The environment: a process dies, possibly in the middle of a row, or    *)
(* with lease.json removed and its directory not; a lease runs out after   *)
(* its writer's death, or under a writer that was stopped or was given an  *)
(* observedAt behind the clock.                                            *)
Crash(w) ==
  /\ pc[w] # "down"
  /\ crashes < MaxCrashes
  /\ crashes' = crashes + 1
  /\ torn' \in {torn} \cup (IF TornRows /\ pc[w] \in {"intent", "completion"}
                            THEN {TRUE} ELSE {})
  /\ \/ lease' = IF lease.owner = w THEN [lease EXCEPT !.owner = Nobody] ELSE lease
     \/ /\ pc[w] \in {"read", "answer", "remove"} /\ lease.phase # "absent"
        /\ lease' = [phase |-> "made", owner |-> Nobody]
  /\ Leave(w, "down")
  /\ UNCHANGED <<ledger, journal, answers, raced, stalls>>

LeaseRunsOut ==
  /\ lease.phase = "held" /\ lease.owner = Nobody
  /\ lease' = [lease EXCEPT !.phase = "expired"]
  /\ UNCHANGED <<files, pc, process, answers, overlap, faults>>

LeaseOutlived ==
  /\ lease.phase = "held" /\ lease.owner # Nobody
  /\ stalls < MaxStalls
  /\ stalls' = stalls + 1
  /\ lease' = [lease EXCEPT !.phase = "expired"]
  /\ UNCHANGED <<files, pc, process, answers, overlap, raced, crashes>>

\* Everything a writer does unprompted.
Work(w) ==
  \/ Start(w) \/ Acquire(w) \/ RemoveExpired(w) \/ Retake(w) \/ WriteLease(w)
  \/ ReadForRequest(w) \/ ReadForRecovery(w)
  \/ ReadTail(w) \/ AppendIntent(w) \/ Publish(w) \/ AppendCompletion(w)
  \/ Answer(w)

Next ==
  \/ \E w \in Writer : Work(w) \/ Request(w) \/ Crash(w)
  \/ LeaseRunsOut \/ LeaseOutlived

Spec == Init /\ [][Next]_vars

\* The service manager restarts a failed process, a running process takes its
\* next step, and time passes.
FairSpec == Spec /\ (\A w \in Writer : WF_vars(Work(w))) /\ WF_vars(LeaseRunsOut)

-----------------------------------------------------------------------------
\* The types of the files, the processes and what callers were told.
TypeOK ==
  /\ torn \in BOOLEAN /\ overlap \in BOOLEAN /\ raced \in BOOLEAN
  /\ ledger \in Seq(Decision)
  /\ journal \in Seq([type : {"intent", "completed"}, op : Operation,
                      print : Fingerprint \cup {Nobody}, number : Nat, after : Nat])
  /\ lease \in [phase : {"absent", "made", "held", "expired"},
                owner : Writer \cup {Nobody}]
  /\ pc \in [Writer -> Step]
  /\ job \in [Writer -> Decision \cup {Recovery}]
  /\ seen \in [Writer -> Seq(Decision)]
  /\ tail \in [Writer -> Nat]
  /\ todo \in [Writer -> SUBSET Operation]
  /\ answers \subseteq [op : Operation, print : Fingerprint, token : Nat]
  /\ crashes \in 0 .. MaxCrashes /\ stalls \in 0 .. MaxStalls

\* As long as no two writers were at work at once, whatever was answered to a
\* caller stays in state.json under the token and with the input it was answered
\* with: no later operation, crash or recovery drops, moves or replaces it.
AnswersStand == ~overlap =>
  \A a \in answers : /\ a.token \in DOMAIN ledger
                     /\ ledger[a.token] = [op |-> a.op, print |-> a.print]

\* As long as no two writers were at work at once, a death at any step leaves a
\* state and a journal that the coherence check accepts; only an incomplete
\* journal row closes the authority.
CrashesNeverClose == ~overlap /\ ~torn => ~Closed

\* The lease excludes, processes that die included: two writers are between
\* their lease and its release at once only behind a lease that ran out under
\* its writer, or behind two takeovers of one expired lease that crossed: both
\* had read it before either removed it.
LeaseExcludes == stalls = 0 /\ ~raced => ~overlap

\* The writer lease does not stay taken: from some point on the authority is
\* closed or a process died between the lease directory and lease.json, or the
\* lease is free again and again.
LeaseComesFree ==
  \/ <>[](Closed \/ lease = [phase |-> "made", owner |-> Nobody])
  \/ []<>(lease.phase = "absent")
=============================================================================
