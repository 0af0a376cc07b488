--------------------------- MODULE AuthorityProofs ---------------------------
(***************************************************************************)
(* What the authority answered stands, and no crash closes it, as long as  *)
(* no two writers were at work at once; and the lease sees to that unless  *)
(* it runs out under its writer or two takeovers of it cross.  For any     *)
(* number of processes, operations and crashes.                            *)
(*                                                                         *)
(* The inductive invariant says of the one writer at work what its next    *)
(* step has already established: the ledger it read is the one in the      *)
(* file, the journal has not grown behind the tail it read, the intent is  *)
(* written before the publication, and what it still has to complete is    *)
(* decided and not completed.                                              *)
(***************************************************************************)
EXTENDS Authority, TLAPS

Row == [type : {"intent", "completed"}, op : Operation,
        print : Fingerprint \cup {Nobody}, number : Nat, after : Nat]

Answered == [op : Operation, print : Fingerprint, token : Nat]

\* A writer settles a request when it is about to record one.
Settling == \A w \in Writer :
  pc[w] \in {"intent-tail", "intent", "publish"} => job[w] \in Decision

AuthorityTypes == TypeOK /\ Settling

-----------------------------------------------------------------------------
LEMMA GotoTypes ==
  ASSUME TypeOK, NEW w \in Writer, NEW step \in Step, Goto(w, step)
  PROVE  /\ pc' \in [Writer -> Step]
         /\ overlap' \in BOOLEAN
         /\ pc'[w] = step
         /\ \A v \in Writer : v # w => pc'[v] = pc[v]
<1>1. /\ pc' \in [Writer -> Step]
      /\ pc'[w] = step
      /\ \A v \in Writer : v # w => pc'[v] = pc[v]
  BY DEF TypeOK, Goto
<1>2. overlap' \in BOOLEAN
  BY Zenon DEF TypeOK, Goto
<1>. QED
  BY <1>1, <1>2

LEMMA LeaveTypes ==
  ASSUME TypeOK, NEW w \in Writer, NEW step \in Step, Leave(w, step)
  PROVE  /\ job' \in [Writer -> Decision \cup {Recovery}]
         /\ seen' \in [Writer -> Seq(Decision)]
         /\ tail' \in [Writer -> Nat]
         /\ todo' \in [Writer -> SUBSET Operation]
         /\ Goto(w, step)
         /\ \A v \in Writer : v # w =>
              /\ job'[v] = job[v] /\ seen'[v] = seen[v]
              /\ tail'[v] = tail[v] /\ todo'[v] = todo[v]
<1>1. << >> \in Seq(Decision)
  OBVIOUS
<1>. QED
  BY <1>1 DEF TypeOK, Leave

LEMMA ThrowLeaves ==
  ASSUME TypeOK, NEW w \in Writer, Throw(w)
  PROVE  \E step \in {"down", "idle"} : Leave(w, step)
BY DEF Throw

LEMMA StepNames == {"down", "idle"} \subseteq Step /\ Section \subseteq Step
BY DEF Step

LEMMA AppendRowTypes ==
  ASSUME TypeOK, NEW row \in Row, AppendRow(row)
  PROVE  journal' \in Seq(Row)
<1>1. journal \in Seq(Row)
  BY DEF TypeOK, Row
<1>2. Append(journal, row) \in Seq(Row)
  BY <1>1
<1>. QED
  BY <1>1, <1>2 DEF AppendRow

LEMMA RowTypes ==
  ASSUME NEW after \in Nat, NEW number \in Nat
  PROVE  /\ \A d \in Decision : Intent(d, number, after) \in Row
         /\ \A op \in Operation : Completion(op, number, after) \in Row
BY DEF Decision, Intent, Completion, Row

\* A writer that leaves, or moves on outside the recording steps, keeps Settling.
LEMMA SettlingKept ==
  ASSUME TypeOK, Settling, NEW w \in Writer, NEW step \in Step, Goto(w, step),
         \A v \in Writer : v # w => job'[v] = job[v],
         step \in {"intent-tail", "intent", "publish"} => job'[w] \in Decision
  PROVE  Settling'
<1>1. /\ pc'[w] = step
      /\ \A v \in Writer : v # w => pc'[v] = pc[v]
  BY GotoTypes
<1>. QED
  BY <1>1 DEF Settling

LEMMA InitTypes == Init => AuthorityTypes
<1>. SUFFICES ASSUME Init PROVE AuthorityTypes
  OBVIOUS
<1>1. << >> \in Seq(Decision) /\ << >> \in Seq(Row)
  OBVIOUS
<1>2. TypeOK
  <2>1. journal \in Seq(Row) /\ ledger \in Seq(Decision)
    BY <1>1 DEF Init
  <2>2. /\ pc \in [Writer -> Step]
        /\ job \in [Writer -> Decision \cup {Recovery}]
        /\ seen \in [Writer -> Seq(Decision)]
        /\ tail \in [Writer -> Nat]
        /\ todo \in [Writer -> SUBSET Operation]
    BY <1>1, StepNames DEF Init
  <2>3. crashes \in 0 .. MaxCrashes /\ stalls \in 0 .. MaxStalls
    BY AuthorityAssumption DEF Init
  <2>. QED
    BY <2>1, <2>2, <2>3 DEF Init, TypeOK, Row
<1>3. Settling
  BY DEF Init, Settling
<1>. QED
  BY <1>2, <1>3 DEF AuthorityTypes

-----------------------------------------------------------------------------
LEMMA StartTypes ==
  ASSUME AuthorityTypes, NEW w \in Writer, Start(w)
  PROVE  AuthorityTypes'
<1>. USE DEF AuthorityTypes
<1>1. Goto(w, "acquire") /\ "acquire" \in Step
  BY DEF Start, Step
<1>2. TypeOK'
  BY <1>1, GotoTypes DEF Start, TypeOK, files, process, faults
<1>3. Settling'
  BY <1>1, SettlingKept DEF Start, process
<1>. QED
  BY <1>2, <1>3

LEMMA RequestTypes ==
  ASSUME AuthorityTypes, NEW w \in Writer, Request(w)
  PROVE  AuthorityTypes'
<1>. USE DEF AuthorityTypes
<1>1. Goto(w, "acquire") /\ "acquire" \in Step
  BY DEF Request, Step
<1>2. PICK d \in Requests[w] : job' = [job EXCEPT ![w] = d]
  BY DEF Request
<1>3. d \in Decision
  BY AuthorityAssumption
<1>4. job' \in [Writer -> Decision \cup {Recovery}]
  BY <1>2, <1>3 DEF TypeOK
<1>5. TypeOK'
  BY <1>1, <1>4, GotoTypes DEF Request, TypeOK, files, faults
<1>6. Settling'
  BY <1>1, <1>2, SettlingKept DEF TypeOK
<1>. QED
  BY <1>5, <1>6

\* A writer that leaves changes its own variables, and perhaps the lease.
LEMMA ThrowTypes ==
  ASSUME AuthorityTypes, NEW w \in Writer, Throw(w),
         lease' \in [phase : {"absent", "made", "held", "expired"},
                     owner : Writer \cup {Nobody}],
         UNCHANGED <<files, answers, faults>>
  PROVE  AuthorityTypes'
<1>. USE DEF AuthorityTypes
<1>1. PICK step \in {"down", "idle"} : Leave(w, step)
  BY ThrowLeaves
<1>2. step \in Step /\ Goto(w, step)
  BY <1>1, StepNames DEF Leave
<1>3. TypeOK'
  BY <1>1, <1>2, GotoTypes, LeaveTypes DEF TypeOK, files, faults
<1>4. Settling'
  BY <1>1, <1>2, SettlingKept, LeaveTypes
<1>. QED
  BY <1>3, <1>4

\* A step that only moves a writer and the lease.
LEMMA MoveTypes ==
  ASSUME AuthorityTypes, NEW w \in Writer,
         NEW step \in {"lease", "remove", "retake", "read"}, Goto(w, step),
         lease' \in [phase : {"absent", "made", "held", "expired"},
                     owner : Writer \cup {Nobody}],
         raced' \in BOOLEAN,
         UNCHANGED <<files, process, answers, crashes, stalls>>
  PROVE  AuthorityTypes'
<1>. USE DEF AuthorityTypes
<1>1. step \in Step
  BY DEF Step, Section
<1>2. TypeOK'
  BY <1>1, GotoTypes DEF TypeOK, files, process
<1>3. Settling'
  BY <1>1, SettlingKept DEF process
<1>. QED
  BY <1>2, <1>3

LEMMA LeaseTypes ==
  ASSUME TypeOK, NEW w \in Writer
  PROVE  /\ lease \in [phase : {"absent", "made", "held", "expired"},
                       owner : Writer \cup {Nobody}]
         /\ \A phase \in {"absent", "made", "held", "expired"} :
              /\ [phase |-> phase, owner |-> w]
                   \in [phase : {"absent", "made", "held", "expired"},
                        owner : Writer \cup {Nobody}]
              /\ [phase |-> phase, owner |-> Nobody]
                   \in [phase : {"absent", "made", "held", "expired"},
                        owner : Writer \cup {Nobody}]
BY DEF TypeOK

LEMMA AcquisitionTypes ==
  ASSUME AuthorityTypes, NEW w \in Writer,
         Acquire(w) \/ RemoveExpired(w) \/ Retake(w) \/ WriteLease(w)
  PROVE  AuthorityTypes'
<1>. TypeOK
  BY DEF AuthorityTypes
<1>. raced \in BOOLEAN
  BY DEF TypeOK
<1>1. CASE Acquire(w)
  BY <1>1, LeaseTypes, MoveTypes, ThrowTypes DEF Acquire, faults
<1>2. CASE RemoveExpired(w)
  <2>1. raced' \in BOOLEAN
    BY <1>2 DEF RemoveExpired
  <2>. QED
    BY <1>2, <2>1, LeaseTypes, MoveTypes DEF RemoveExpired
<1>3. CASE Retake(w)
  BY <1>3, LeaseTypes, MoveTypes, ThrowTypes DEF Retake, faults
<1>4. CASE WriteLease(w)
  BY <1>4, LeaseTypes, MoveTypes, ThrowTypes DEF WriteLease, faults
<1>. QED
  BY <1>1, <1>2, <1>3, <1>4

LEMMA FailTypes ==
  ASSUME AuthorityTypes, NEW w \in Writer, Fail(w),
         UNCHANGED <<files, answers, faults>>
  PROVE  AuthorityTypes'
BY LeaseTypes, ThrowTypes DEF Fail, ReleaseLease, AuthorityTypes

LEMMA ReadTypes ==
  ASSUME AuthorityTypes, NEW w \in Writer,
         ReadForRequest(w) \/ ReadForRecovery(w) \/ ReadTail(w)
  PROVE  AuthorityTypes'
<1>. USE DEF AuthorityTypes
<1>. {"answer", "intent-tail", "intent", "completion-tail", "completion"} \subseteq Step
  BY DEF Step, Section
<1>. Decided(ledger) \subseteq Operation
  <2>1. \A i \in DOMAIN ledger : ledger[i] \in Decision
    BY DEF TypeOK
  <2>. QED
    BY <2>1 DEF Decided, Decision
<1>1. CASE ReadForRequest(w)
  <2>1. CASE Fail(w)
    BY <1>1, <2>1, FailTypes DEF ReadForRequest
  <2>2. CASE ~Fail(w)
    <3>1. PICK step \in {"answer", "intent-tail"} : Goto(w, step)
      BY <1>1, <2>2 DEF ReadForRequest
    <3>2. /\ job[w] # Recovery
          /\ seen' = [seen EXCEPT ![w] = ledger]
          /\ UNCHANGED <<files, lease, job, tail, todo, answers, faults>>
      BY <1>1, <2>2 DEF ReadForRequest
    <3>3. seen' \in [Writer -> Seq(Decision)] /\ job[w] \in Decision
      BY <3>2 DEF TypeOK
    <3>4. TypeOK'
      BY <3>1, <3>2, <3>3, GotoTypes DEF TypeOK, files, faults
    <3>. QED
      BY <3>1, <3>2, <3>3, <3>4, SettlingKept
  <2>. QED
    BY <2>1, <2>2
<1>2. CASE ReadForRecovery(w)
  <2>1. CASE Fail(w)
    BY <1>2, <2>1, FailTypes DEF ReadForRecovery
  <2>2. CASE ~Fail(w)
    <3>1. PICK step \in {"answer", "completion-tail"} : Goto(w, step)
      BY <1>2, <2>2 DEF ReadForRecovery
    <3>2. /\ seen' = [seen EXCEPT ![w] = ledger]
          /\ todo' = [todo EXCEPT ![w] = Decided(ledger) \ Completed(journal)]
          /\ UNCHANGED <<files, lease, job, tail, answers, faults>>
      BY <1>2, <2>2 DEF ReadForRecovery
    <3>3. /\ seen' \in [Writer -> Seq(Decision)]
          /\ todo' \in [Writer -> SUBSET Operation]
      BY <3>2 DEF TypeOK
    <3>4. TypeOK'
      BY <3>1, <3>2, <3>3, GotoTypes DEF TypeOK, files, faults
    <3>. QED
      BY <3>1, <3>2, <3>4, SettlingKept
  <2>. QED
    BY <2>1, <2>2
<1>3. CASE ReadTail(w)
  <2>1. CASE Fail(w)
    BY <1>3, <2>1, FailTypes DEF ReadTail
  <2>2. CASE ~Fail(w)
    <3>1. PICK step \in {"intent", "completion"} :
            Goto(w, step) /\ (step = "intent" => pc[w] = "intent-tail")
      BY <1>3, <2>2 DEF ReadTail
    <3>2. /\ tail' = [tail EXCEPT ![w] = Len(journal)]
          /\ UNCHANGED <<files, lease, job, seen, todo, answers, faults>>
      BY <1>3, <2>2 DEF ReadTail
    <3>3. tail' \in [Writer -> Nat]
      BY <3>2 DEF TypeOK
    <3>4. TypeOK'
      BY <3>1, <3>2, <3>3, GotoTypes DEF TypeOK, files, faults
    <3>. QED
      BY <3>1, <3>2, <3>4, SettlingKept DEF Settling
  <2>. QED
    BY <2>1, <2>2
<1>. QED
  BY <1>1, <1>2, <1>3

LEMMA AppendIntentTypes ==
  ASSUME AuthorityTypes, NEW w \in Writer, AppendIntent(w)
  PROVE  AuthorityTypes'
<1>. USE DEF AuthorityTypes
<1>1. Goto(w, "publish") /\ "publish" \in Step /\ job[w] \in Decision
  BY DEF AppendIntent, Step, Section, Settling
<1>2. Len(seen[w]) + 1 \in Nat /\ tail[w] \in Nat
  BY DEF TypeOK
<1>3. Intent(job[w], Len(seen[w]) + 1, tail[w]) \in Row
  BY <1>1, <1>2, RowTypes
<1>4. journal' \in Seq(Row)
  BY <1>3, AppendRowTypes DEF AppendIntent
<1>5. TypeOK'
  BY <1>1, <1>4, GotoTypes DEF AppendIntent, TypeOK, process, faults, Row
<1>6. Settling'
  BY <1>1, SettlingKept DEF AppendIntent, process
<1>. QED
  BY <1>5, <1>6

LEMMA PublishTypes ==
  ASSUME AuthorityTypes, NEW w \in Writer, Publish(w)
  PROVE  AuthorityTypes'
<1>. USE DEF AuthorityTypes
<1>1. /\ Goto(w, "completion-tail") /\ "completion-tail" \in Step
      /\ job[w] \in Decision /\ job[w].op \in Operation
  BY DEF Publish, Step, Section, Settling, Decision
<1>2. seen[w] \in Seq(Decision)
  BY DEF TypeOK
<1>3. ledger' \in Seq(Decision)
  BY <1>1, <1>2 DEF Publish
<1>4. /\ seen' \in [Writer -> Seq(Decision)]
      /\ todo' \in [Writer -> SUBSET Operation]
  BY <1>1, <1>3 DEF Publish, TypeOK
<1>5. TypeOK'
  BY <1>1, <1>3, <1>4, GotoTypes DEF Publish, TypeOK, faults
<1>6. Settling'
  BY <1>1, SettlingKept DEF Publish
<1>. QED
  BY <1>5, <1>6

LEMMA AppendCompletionTypes ==
  ASSUME AuthorityTypes, NEW w \in Writer, AppendCompletion(w)
  PROVE  AuthorityTypes'
<1>. USE DEF AuthorityTypes
<1>1. PICK op \in todo[w] :
        /\ AppendRow(Completion(op, Len(seen[w]), tail[w]))
        /\ todo' = [todo EXCEPT ![w] = @ \ {op}]
  BY DEF AppendCompletion
<1>2. PICK step \in {"answer", "completion-tail"} : Goto(w, step)
  BY DEF AppendCompletion
<1>3. step \in Step /\ op \in Operation
  BY <1>1 DEF Step, Section, TypeOK
<1>4. Len(seen[w]) \in Nat /\ tail[w] \in Nat
  BY DEF TypeOK
<1>5. journal' \in Seq(Row)
  BY <1>1, <1>3, <1>4, RowTypes, AppendRowTypes
<1>6. todo' \in [Writer -> SUBSET Operation]
  BY <1>1 DEF TypeOK
<1>7. TypeOK'
  BY <1>2, <1>3, <1>5, <1>6, GotoTypes DEF AppendCompletion, TypeOK, faults, Row
<1>8. Settling'
  BY <1>2, <1>3, SettlingKept DEF AppendCompletion
<1>. QED
  BY <1>7, <1>8

LEMMA AnswerTypes ==
  ASSUME AuthorityTypes, NEW w \in Writer, Answer(w)
  PROVE  AuthorityTypes'
<1>. USE DEF AuthorityTypes
<1>1. /\ Leave(w, "idle") /\ Goto(w, "idle") /\ "idle" \in Step
  BY DEF Answer, Leave, Step
<1>2. /\ answers' \subseteq Answered
      /\ lease' \in [phase : {"absent", "made", "held", "expired"},
                     owner : Writer \cup {Nobody}]
  BY DEF Answer, ReleaseLease, TypeOK, Decision, Answered
<1>3. TypeOK'
  BY <1>1, <1>2, GotoTypes, LeaveTypes DEF Answer, TypeOK, files, faults, Answered
<1>4. Settling'
  BY <1>1, SettlingKept, LeaveTypes
<1>. QED
  BY <1>3, <1>4

LEMMA CrashTypes ==
  ASSUME AuthorityTypes, NEW w \in Writer, Crash(w)
  PROVE  AuthorityTypes'
<1>. USE DEF AuthorityTypes
<1>1. /\ Leave(w, "down") /\ Goto(w, "down") /\ "down" \in Step
  BY DEF Crash, Leave, Step
<1>2. lease' \in [phase : {"absent", "made", "held", "expired"},
                  owner : Writer \cup {Nobody}]
  BY DEF Crash, TypeOK
<1>3. crashes' \in 0 .. MaxCrashes
  BY AuthorityAssumption DEF Crash, TypeOK
<1>4. torn' \in BOOLEAN
  BY DEF Crash, TypeOK
<1>5. TypeOK'
  BY <1>1, <1>2, <1>3, <1>4, GotoTypes, LeaveTypes DEF Crash, TypeOK
<1>6. Settling'
  BY <1>1, SettlingKept, LeaveTypes
<1>. QED
  BY <1>5, <1>6

LEMMA LeaseExpiryTypes ==
  ASSUME AuthorityTypes, LeaseRunsOut \/ LeaseOutlived
  PROVE  AuthorityTypes'
<1>1. /\ lease' = [lease EXCEPT !.phase = "expired"]
      /\ UNCHANGED <<files, pc, process, answers, overlap, raced, crashes>>
      /\ stalls' \in 0 .. MaxStalls
  BY AuthorityAssumption DEF LeaseRunsOut, LeaseOutlived, faults, AuthorityTypes, TypeOK
<1>. QED
  BY <1>1 DEF AuthorityTypes, TypeOK, Settling, files, process

LEMMA NextTypes ==
  ASSUME AuthorityTypes, [Next]_vars
  PROVE  AuthorityTypes'
<1>1. CASE UNCHANGED vars
  BY <1>1 DEF AuthorityTypes, TypeOK, Settling, vars, files, process, faults
<1>2. CASE Next
  BY <1>2, StartTypes, RequestTypes, AcquisitionTypes, ReadTypes, AppendIntentTypes,
     PublishTypes, AppendCompletionTypes, AnswerTypes, CrashTypes, LeaseExpiryTypes
  DEF Next, Work
<1>. QED
  BY <1>1, <1>2

(* The files, the processes and what callers were told keep their types. *)
THEOREM AuthorityTypeCorrect == Spec => []TypeOK
<1>1. Init => AuthorityTypes
  BY InitTypes
<1>2. AuthorityTypes /\ [Next]_vars => AuthorityTypes'
  BY NextTypes
<1>3. AuthorityTypes => TypeOK
  BY DEF AuthorityTypes
<1>. QED
  BY <1>1, <1>2, <1>3, PTL DEF Spec

-----------------------------------------------------------------------------
(* Mutual exclusion: at most one writer works, under a lease that is taken *)
(* and not expired; only the owner of a held lease works under it, and     *)
(* nobody is about to remove it.  A process that dies may leave the lease, *)
(* or in a takeover its directory, behind, with nobody at work.            *)
Working == Section \cup {"lease"}

Taken == lease.phase \in {"made", "held"}

LeaseInv == stalls = 0 /\ ~raced =>
  /\ ~overlap
  /\ \A w \in Writer : pc[w] \in Working =>
       /\ Taken
       /\ lease.phase = "held" => lease.owner = w
       /\ \A v \in Writer : pc[v] \in Working => v = w
  /\ \A w \in Writer : pc[w] = "remove" =>
       /\ lease.phase \in {"expired", "made"}
       /\ \A v \in Writer : pc[v] \notin Working

\* A step of w that takes a free lease, keeps its own, or leaves.
LEMMA LeaseStep ==
  ASSUME TypeOK, LeaseInv, stalls = 0, ~raced, NEW w \in Writer,
         NEW step \in Step, Goto(w, step),
         \A v \in Writer : v # w /\ pc[v] \in Working =>
           /\ step \notin Working \cup {"remove"} /\ Taken'
           /\ lease'.phase = "held" => lease'.owner = v,
         \A v \in Writer : v # w /\ pc[v] = "remove" =>
           step \notin Working /\ lease'.phase \in {"expired", "made"},
         step \in Working => Taken' /\ (lease'.phase = "held" => lease'.owner = w),
         step = "remove" => lease'.phase \in {"expired", "made"}
  PROVE  LeaseInv'
<1>1. /\ pc'[w] = step
      /\ \A v \in Writer : v # w => pc'[v] = pc[v]
  BY GotoTypes
<1>2. "remove" \notin Working
  BY DEF Working, Section
<1>3. ASSUME NEW u \in Writer, pc'[u] \in Working
      PROVE  /\ Taken'
             /\ lease'.phase = "held" => lease'.owner = u
             /\ \A v \in Writer : pc'[v] \in Working => v = u
  <2>1. CASE u = w
    BY <1>1, <1>3, <2>1
  <2>2. CASE u # w
    <3>1. pc[u] \in Working /\ pc'[w] \notin Working
      BY <1>1, <1>3, <2>2
    <3>. QED
      BY <1>1, <2>2, <3>1 DEF LeaseInv
  <2>. QED
    BY <2>1, <2>2
<1>4. ASSUME NEW u \in Writer, pc'[u] = "remove"
      PROVE  /\ lease'.phase \in {"expired", "made"}
             /\ \A v \in Writer : pc'[v] \notin Working
  <2>1. CASE u = w
    BY <1>1, <1>2, <1>4, <2>1
  <2>2. CASE u # w
    <3>1. pc[u] = "remove" /\ pc'[w] \notin Working
      BY <1>1, <1>4, <2>2
    <3>. QED
      BY <1>1, <2>2, <3>1 DEF LeaseInv
  <2>. QED
    BY <2>1, <2>2
<1>5. \A u, v \in Writer : pc'[u] \in Section /\ pc'[v] \in Section => u = v
  BY <1>3 DEF Working
<1>6. ~overlap'
  BY <1>5, Zenon DEF Goto, LeaseInv
<1>. QED
  BY <1>3, <1>4, <1>6 DEF LeaseInv

LEMMA LeaseInvStep ==
  ASSUME AuthorityTypes, LeaseInv, [Next]_vars
  PROVE  LeaseInv'
<1>. SUFFICES ASSUME stalls' = 0, ~raced'
              PROVE  LeaseInv'
  BY DEF LeaseInv
<1>. TypeOK
  BY DEF AuthorityTypes
<1>1. CASE UNCHANGED vars
  BY <1>1 DEF LeaseInv, Taken, vars, faults
<1>2. ASSUME NEW w \in Writer, Work(w) \/ Request(w) \/ Crash(w)
      PROVE  LeaseInv'
  <2>1. stalls = 0 /\ ~raced
    <3>1. CASE RemoveExpired(w)
      BY <3>1, Zenon DEF RemoveExpired
    <3>2. CASE Crash(w)
      BY <3>2 DEF Crash
    <3>3. CASE ~RemoveExpired(w) /\ ~Crash(w)
      <4>1. UNCHANGED faults
        BY <1>2, <3>3 DEF Work, Request, Start, Acquire, Retake, WriteLease,
           ReadForRequest, ReadForRecovery, ReadTail, AppendIntent, Publish,
           AppendCompletion, Answer
      <4>. QED
        BY <4>1 DEF faults
    <3>. QED
      BY <3>1, <3>2, <3>3
  <2>2. /\ ~Taken => \A v \in Writer : pc[v] \notin Working
        /\ pc[w] \in Working =>
             \A v \in Writer : v # w => pc[v] \notin Working /\ pc[v] # "remove"
        /\ \A v \in Writer : pc[v] \in Working =>
             Taken /\ (lease.phase = "held" => lease.owner = v)
        /\ \A v \in Writer : pc[v] = "remove" => lease.phase \in {"expired", "made"}
    BY <2>1 DEF LeaseInv
  <2>3. {"down", "idle", "acquire", "remove", "retake", "lease", "read", "intent-tail",
         "intent", "publish", "completion-tail", "completion", "answer"} \subseteq Step
    BY DEF Step, Section
  <2>4. /\ {"read", "intent-tail", "intent", "publish", "completion-tail",
            "completion", "answer", "lease"} = Working
        /\ {"down", "idle", "acquire", "remove", "retake"} \cap Working = {}
    BY DEF Working, Section
  <2>5. ASSUME NEW step \in Step \ Working, step # "remove", Goto(w, step),
               lease' = lease \/ pc[w] \in Working
        PROVE  LeaseInv'
    BY <2>1, <2>2, <2>5, LeaseStep DEF Taken
  <2>6. ASSUME Throw(w), lease' = lease \/ pc[w] \in Working
        PROVE  LeaseInv'
    <3>1. PICK step \in {"down", "idle"} : Goto(w, step)
      BY <2>6 DEF Throw, Leave
    <3>. QED
      BY <2>3, <2>4, <2>5, <2>6, <3>1
  <2>7. CASE Start(w) \/ Request(w)
    <3>1. Goto(w, "acquire") /\ lease' = lease
      BY <2>7 DEF Start, Request
    <3>. QED
      BY <2>3, <2>4, <2>5, <3>1
  <2>8. CASE Acquire(w) \/ Retake(w)
    <3>1. \/ /\ lease.phase = "absent"
             /\ Goto(w, "lease") /\ lease' = [phase |-> "made", owner |-> w]
          \/ lease.phase = "expired" /\ Goto(w, "remove") /\ lease' = lease
          \/ Throw(w) /\ lease' = lease
      BY <2>8 DEF Acquire, Retake
    <3>2. CASE /\ lease.phase = "absent"
               /\ Goto(w, "lease") /\ lease' = [phase |-> "made", owner |-> w]
      <4>1. /\ Taken' /\ lease'.phase # "held"
            /\ \A v \in Writer : pc[v] \notin Working /\ pc[v] # "remove"
        BY <2>2, <3>2 DEF Taken
      <4>. QED
        BY <2>1, <2>3, <3>2, <4>1, LeaseStep
    <3>3. CASE lease.phase = "expired" /\ Goto(w, "remove") /\ lease' = lease
      <4>1. lease'.phase = "expired" /\ \A v \in Writer : pc[v] \notin Working
        BY <2>2, <3>3 DEF Taken
      <4>. QED
        BY <2>1, <2>3, <2>4, <3>3, <4>1, LeaseStep
    <3>. QED
      BY <2>6, <3>1, <3>2, <3>3
  <2>9. CASE RemoveExpired(w)
    <3>1. Goto(w, "retake") /\ \A v \in Writer : pc[v] \notin Working
      BY <2>1, <2>9 DEF RemoveExpired, LeaseInv
    <3>2. \A v \in Writer : v # w => pc[v] # "remove"
      BY <2>9, Zenon DEF RemoveExpired
    <3>. QED
      BY <2>1, <2>3, <2>4, <3>1, <3>2, LeaseStep
  <2>10. CASE WriteLease(w)
    <3>1. CASE Throw(w) /\ lease' = lease
      BY <2>6, <3>1
    <3>2. CASE Goto(w, "read") /\ lease' = [phase |-> "held", owner |-> w]
      <4>1. /\ Taken' /\ lease'.owner = w
            /\ \A v \in Writer : v # w => pc[v] \notin Working /\ pc[v] # "remove"
        BY <2>2, <2>4, <2>10, <3>2 DEF WriteLease, Taken
      <4>. QED
        BY <2>1, <2>3, <3>2, <4>1, LeaseStep
    <3>. QED
      BY <2>10, <3>1, <3>2 DEF WriteLease
  <2>11. CASE \/ ReadForRequest(w) \/ ReadForRecovery(w) \/ ReadTail(w)
              \/ AppendIntent(w) \/ Publish(w) \/ AppendCompletion(w)
    <3>1. pc[w] \in Working
      BY <2>11 DEF ReadForRequest, ReadForRecovery, ReadTail, AppendIntent, Publish,
           AppendCompletion, Section, Working
    <3>2. CASE Fail(w)
      BY <2>6, <3>1, <3>2 DEF Fail
    <3>3. CASE ~Fail(w)
      <4>1. lease' = lease /\ \E step \in Section : Goto(w, step)
        BY <2>11, <3>3 DEF ReadForRequest, ReadForRecovery, ReadTail, AppendIntent,
             Publish, AppendCompletion, Section
      <4>2. PICK step \in Section : Goto(w, step)
        BY <4>1
      <4>3. step \in Step
        BY DEF Step
      <4>4. /\ Taken' /\ (lease'.phase = "held" => lease'.owner = w)
            /\ \A v \in Writer : v # w => pc[v] \notin Working /\ pc[v] # "remove"
            /\ step # "remove"
        BY <2>2, <3>1, <4>1 DEF Taken, Section
      <4>. QED
        BY <2>1, <4>2, <4>3, <4>4, LeaseStep
    <3>. QED
      BY <3>2, <3>3
  <2>12. CASE Answer(w)
    <3>1. Goto(w, "idle") /\ pc[w] \in Working
      BY <2>12 DEF Answer, Leave, Working, Section
    <3>. QED
      BY <2>3, <2>4, <2>5, <3>1
  <2>13. CASE Crash(w)
    <3>1. Goto(w, "down")
      BY <2>13 DEF Crash, Leave
    <3>2. \/ lease' = lease
          \/ lease.owner = w /\ lease' = [lease EXCEPT !.owner = Nobody]
          \/ lease.phase # "absent" /\ lease' = [phase |-> "made", owner |-> Nobody]
      BY <2>13 DEF Crash
    <3>3. ASSUME NEW v \in Writer, v # w, pc[v] \in Working
          PROVE  Taken' /\ (lease'.phase = "held" => lease'.owner = v)
      BY <2>2, <3>2, <3>3 DEF Taken, TypeOK
    <3>4. ASSUME NEW v \in Writer, v # w, pc[v] = "remove"
          PROVE  lease'.phase \in {"expired", "made"}
      BY <2>2, <3>2, <3>4 DEF TypeOK
    <3>. QED
      BY <2>1, <2>3, <2>4, <3>1, <3>3, <3>4, LeaseStep
  <2>. QED
    BY <1>2, <2>7, <2>8, <2>9, <2>10, <2>11, <2>12, <2>13 DEF Work
<1>3. ~LeaseOutlived
  BY AuthorityAssumption DEF LeaseOutlived, TypeOK
<1>4. CASE LeaseRunsOut
  <2>1. /\ stalls = 0 /\ ~raced /\ lease.phase = "held" /\ lease.owner \notin Writer
        /\ UNCHANGED <<pc, overlap>>
    BY <1>4, AuthorityAssumption DEF LeaseRunsOut, faults
  <2>2. \A v \in Writer : pc[v] \notin Working /\ pc[v] # "remove"
    BY <2>1 DEF LeaseInv
  <2>. QED
    BY <2>1, <2>2 DEF LeaseInv
<1>. QED
  BY <1>1, <1>2, <1>3, <1>4 DEF Next

(* The lease excludes, for any number of processes and deaths, unless it   *)
(* runs out under its writer or two takeovers of one expired lease cross.  *)
THEOREM LeaseExclusion == Spec => []LeaseExcludes
<1>1. Init => AuthorityTypes /\ LeaseInv
  BY InitTypes DEF Init, LeaseInv, Working, Section
<1>2. AuthorityTypes /\ LeaseInv /\ [Next]_vars => AuthorityTypes' /\ LeaseInv'
  BY NextTypes, LeaseInvStep
<1>3. LeaseInv => LeaseExcludes
  BY DEF LeaseInv, LeaseExcludes
<1>. QED
  BY <1>1, <1>2, <1>3, PTL DEF Spec

-----------------------------------------------------------------------------
(* The files as long as at most one writer is at work.                     *)
InLedger(d) == \E i \in DOMAIN ledger : ledger[i] = d

HasIntent(d, token) == \E n \in DOMAIN journal :
  /\ journal[n].type = "intent"
  /\ [op |-> journal[n].op, print |-> journal[n].print] = d
  /\ journal[n].number = token

Alone == \A u, v \in Writer : pc[u] \in Section /\ pc[v] \in Section => u = v

\* What the next step of a writer at work relies on.
Prepared(w) ==
  /\ pc[w] \in {"intent-tail", "intent", "publish"} =>
       seen[w] = ledger /\ job[w].op \notin Decided(ledger)
  /\ pc[w] \in {"intent", "completion"} => ~torn /\ tail[w] = Len(journal)
  /\ pc[w] = "publish" => HasIntent(job[w], Len(ledger) + 1)
  /\ pc[w] \in {"completion-tail", "completion"} =>
       todo[w] \subseteq Decided(ledger) \ Completed(journal)
  /\ pc[w] \in {"completion-tail", "completion", "answer"} =>
       seen[w] = ledger /\ (job[w] # Recovery => InLedger(job[w]))

Chained == \A n \in DOMAIN journal : journal[n].after = n - 1

DecidedOnce == \A i, j \in DOMAIN ledger : ledger[i].op = ledger[j].op => i = j

Standing == \A a \in answers :
  /\ a.token \in DOMAIN ledger
  /\ ledger[a.token] = [op |-> a.op, print |-> a.print]

Exclusive ==
  /\ Alone
  /\ \A w \in Writer : Prepared(w)
  /\ Chained /\ Coherent(ledger)
  /\ DecidedOnce /\ Standing

ExclusiveInv == ~overlap => Exclusive

LEMMA OverlapRemembered ==
  ASSUME TypeOK, NEW w \in Writer, NEW step \in Step, Goto(w, step), ~overlap'
  PROVE  ~overlap /\ Alone'
BY Zenon DEF Goto, Alone

\* A writer that is not at work relies on nothing.
LEMMA PreparedOutside ==
  ASSUME NEW w \in Writer, pc[w] \notin Section
  PROVE  Prepared(w)
BY DEF Prepared, Section

\* Steps that leave the ledger, the journal and the answers alone; an
\* incomplete row is left behind only by a writer at work.
LEMMA FilesKept ==
  ASSUME TypeOK, Exclusive, NEW w \in Writer, NEW step \in Step, Goto(w, step),
         Alone', UNCHANGED <<ledger, journal, answers>>,
         torn' = torn \/ pc[w] \in Section,
         \A v \in Writer : v # w =>
           /\ job'[v] = job[v] /\ seen'[v] = seen[v]
           /\ tail'[v] = tail[v] /\ todo'[v] = todo[v],
         Prepared(w)'
  PROVE  Exclusive'
<1>1. ASSUME NEW v \in Writer, v # w
      PROVE  Prepared(v)'
  <2>1. pc'[v] = pc[v]
    BY <1>1, GotoTypes
  <2>2. CASE pc[v] \in Section
    <3>1. torn' = torn
      BY <1>1, <2>2 DEF Exclusive, Alone
    <3>2. Prepared(v)
      BY DEF Exclusive
    <3>. QED
      BY <1>1, <2>1, <3>1, <3>2 DEF Prepared, HasIntent, InLedger
  <2>3. CASE pc[v] \notin Section
    BY <2>1, <2>3 DEF Prepared, Section
  <2>. QED
    BY <2>2, <2>3
<1>2. Chained' /\ Coherent(ledger)' /\ DecidedOnce' /\ Standing'
  BY DEF Exclusive, Chained, Coherent, DecidedOnce, Standing
<1>. QED
  BY <1>1, <1>2 DEF Exclusive

\* When a writer at work changes the files, no other relies on them.
LEMMA OthersIdle ==
  ASSUME TypeOK, Alone, NEW w \in Writer, NEW step \in Step, Goto(w, step),
         pc[w] \in Section
  PROVE  \A v \in Writer : v # w => Prepared(v)'
<1>. SUFFICES ASSUME NEW v \in Writer, v # w PROVE Prepared(v)'
  OBVIOUS
<1>1. pc'[v] = pc[v] /\ pc[v] \notin Section
  BY GotoTypes DEF Alone
<1>. QED
  BY <1>1 DEF Prepared, Section

-----------------------------------------------------------------------------
(* What an appended row and an appended decision do to the files.          *)
LEMMA RowAppended ==
  ASSUME NEW row \in Row, journal \in Seq(Row), journal' = Append(journal, row)
  PROVE  /\ Len(journal') = Len(journal) + 1
         /\ DOMAIN journal' = 1 .. Len(journal) + 1
         /\ DOMAIN journal = 1 .. Len(journal)
         /\ journal'[Len(journal) + 1] = row
         /\ \A n \in DOMAIN journal : journal'[n] = journal[n]
OBVIOUS

LEMMA ChainExtended ==
  ASSUME NEW row \in Row, journal \in Seq(Row), journal' = Append(journal, row),
         row.after = Len(journal), Chained
  PROVE  Chained'
<1>. SUFFICES ASSUME NEW n \in DOMAIN journal'
              PROVE  journal'[n].after = n - 1
  BY DEF Chained
<1>1. CASE n = Len(journal) + 1
  BY <1>1, RowAppended
<1>2. CASE n # Len(journal) + 1
  <2>1. n \in DOMAIN journal /\ journal'[n] = journal[n]
    BY <1>2, RowAppended
  <2>. QED
    BY <2>1 DEF Chained
<1>. QED
  BY <1>1, <1>2

\* A row that is not a completion, or is the first of a decided operation,
\* keeps state and journal coherent.
LEMMA CoherenceExtended ==
  ASSUME NEW row \in Row, journal \in Seq(Row), journal' = Append(journal, row),
         ledger' = ledger, Coherent(ledger),
         row.type = "completed" =>
           /\ row.op \in Decided(ledger) \ Completed(journal)
           /\ row.number <= Len(ledger)
  PROVE  Coherent(ledger)'
<1>1. ASSUME NEW n \in DOMAIN journal', journal'[n].type = "completed"
      PROVE  /\ journal'[n].op \in Decided(ledger)
             /\ journal'[n].number <= Len(ledger)
             /\ \A m \in DOMAIN journal' :
                  journal'[m].type = "completed" /\ journal'[m].op = journal'[n].op => m = n
  <2>. SUFFICES ASSUME NEW m \in DOMAIN journal', journal'[m].type = "completed",
                       journal'[m].op = journal'[n].op
                PROVE  /\ journal'[n].op \in Decided(ledger)
                       /\ journal'[n].number <= Len(ledger)
                       /\ m = n
    BY <1>1
  <2>1. \A k \in DOMAIN journal' :
          \/ k \in DOMAIN journal /\ journal'[k] = journal[k]
          \/ k = Len(journal) + 1 /\ journal'[k] = row
    BY RowAppended
  <2>2. \A k \in DOMAIN journal : journal[k].type = "completed" =>
          journal[k].op \in Completed(journal)
    BY DEF Completed
  <2>3. CASE n \in DOMAIN journal /\ m \in DOMAIN journal
    BY <1>1, <2>1, <2>3, RowAppended DEF Coherent
  <2>4. CASE n = Len(journal) + 1 /\ m = Len(journal) + 1
    BY <1>1, <2>4, RowAppended
  <2>5. CASE n \in DOMAIN journal /\ m = Len(journal) + 1
    BY <1>1, <2>2, <2>5, RowAppended
  <2>6. CASE n = Len(journal) + 1 /\ m \in DOMAIN journal
    BY <1>1, <2>2, <2>6, RowAppended
  <2>. QED
    BY <2>1, <2>3, <2>4, <2>5, <2>6
<1>2. ASSUME NEW i \in DOMAIN ledger
      PROVE  \E n \in DOMAIN journal' :
               /\ journal'[n].type = "intent"
               /\ [op |-> journal'[n].op, print |-> journal'[n].print] = ledger[i]
               /\ journal'[n].number = i
  <2>1. PICK n \in DOMAIN journal :
          /\ journal[n].type = "intent"
          /\ [op |-> journal[n].op, print |-> journal[n].print] = ledger[i]
          /\ journal[n].number = i
    BY DEF Coherent
  <2>2. n \in DOMAIN journal' /\ journal'[n] = journal[n]
    BY <2>1, RowAppended
  <2>. QED
    BY <2>1, <2>2
<1>. QED
  BY <1>1, <1>2 DEF Coherent

LEMMA DecisionAppended ==
  ASSUME NEW d \in Decision, ledger \in Seq(Decision), ledger' = Append(ledger, d)
  PROVE  /\ Len(ledger') = Len(ledger) + 1
         /\ DOMAIN ledger' = 1 .. Len(ledger) + 1
         /\ DOMAIN ledger = 1 .. Len(ledger)
         /\ ledger'[Len(ledger) + 1] = d
         /\ \A i \in DOMAIN ledger : ledger'[i] = ledger[i]
         /\ Decided(ledger') = Decided(ledger) \cup {d.op}
<1>1. /\ Len(ledger') = Len(ledger) + 1
      /\ DOMAIN ledger' = 1 .. Len(ledger) + 1
      /\ DOMAIN ledger = 1 .. Len(ledger)
      /\ ledger'[Len(ledger) + 1] = d
      /\ \A i \in DOMAIN ledger : ledger'[i] = ledger[i]
  OBVIOUS
<1>2. Decided(ledger') = Decided(ledger) \cup {d.op}
  BY <1>1 DEF Decided
<1>. QED
  BY <1>1, <1>2

-----------------------------------------------------------------------------
(* The steps of a writer, as long as it was alone.                         *)
LEMMA ExclusiveAppendIntent ==
  ASSUME AuthorityTypes, Exclusive, NEW w \in Writer, AppendIntent(w), ~overlap'
  PROVE  Exclusive'
<1>. TypeOK
  BY DEF AuthorityTypes
<1>1. /\ Goto(w, "publish") /\ "publish" \in Step /\ pc[w] \in Section
      /\ pc'[w] = "publish"
  BY GotoTypes DEF AppendIntent, Step, Section
<1>2. Alone' /\ \A v \in Writer : v # w => Prepared(v)'
  BY <1>1, OverlapRemembered, OthersIdle DEF Exclusive
<1>3. /\ job[w] \in Decision /\ seen[w] = ledger /\ job[w].op \notin Decided(ledger)
      /\ ~torn /\ tail[w] = Len(journal) /\ Len(ledger) + 1 \in Nat
  BY DEF AppendIntent, Exclusive, Prepared, AuthorityTypes, Settling, TypeOK
<1>. DEFINE row == Intent(job[w], Len(ledger) + 1, Len(journal))
<1>4. row \in Row /\ journal \in Seq(Row)
  BY <1>3, RowTypes DEF TypeOK, Row
<1>5. journal' = Append(journal, row)
  BY <1>3 DEF AppendIntent, AppendRow
<1>6. /\ row.after = Len(journal) /\ row.type = "intent"
      /\ [op |-> row.op, print |-> row.print] = job[w] /\ row.number = Len(ledger) + 1
  BY <1>3 DEF Intent, Decision
<1>7. UNCHANGED <<ledger, torn, process, answers>>
  BY DEF AppendIntent, process
<1>. HIDE DEF row
<1>8. Chained' /\ Coherent(ledger)'
  BY <1>4, <1>5, <1>6, <1>7, ChainExtended, CoherenceExtended DEF Exclusive
<1>9. HasIntent(job[w], Len(ledger) + 1)'
  BY <1>4, <1>5, <1>6, <1>7, RowAppended DEF HasIntent, process
<1>10. Prepared(w)'
  BY <1>1, <1>3, <1>7, <1>9 DEF Prepared, process
<1>11. DecidedOnce' /\ Standing'
  BY <1>7 DEF Exclusive, DecidedOnce, Standing
<1>. QED
  BY <1>2, <1>8, <1>10, <1>11 DEF Exclusive

LEMMA ExclusiveAppendCompletion ==
  ASSUME AuthorityTypes, Exclusive, NEW w \in Writer, AppendCompletion(w), ~overlap'
  PROVE  Exclusive'
<1>. TypeOK
  BY DEF AuthorityTypes
<1>1. PICK step \in {"answer", "completion-tail"} : Goto(w, step)
  BY DEF AppendCompletion
<1>2. step \in Step /\ pc[w] \in Section /\ pc'[w] = step
  BY <1>1, GotoTypes DEF AppendCompletion, Step, Section
<1>3. Alone' /\ \A v \in Writer : v # w => Prepared(v)'
  BY <1>1, <1>2, OverlapRemembered, OthersIdle DEF Exclusive
<1>4. PICK op \in todo[w] :
        /\ AppendRow(Completion(op, Len(seen[w]), tail[w]))
        /\ todo' = [todo EXCEPT ![w] = @ \ {op}]
  BY DEF AppendCompletion
<1>5. /\ seen[w] = ledger /\ ~torn /\ tail[w] = Len(journal)
      /\ todo[w] \subseteq Decided(ledger) \ Completed(journal)
      /\ job[w] # Recovery => InLedger(job[w])
  BY DEF AppendCompletion, Exclusive, Prepared
<1>. DEFINE row == Completion(op, Len(ledger), Len(journal))
<1>6. op \in Operation /\ Len(ledger) \in Nat /\ Len(journal) \in Nat
  BY <1>4 DEF TypeOK
<1>7. row \in Row /\ journal \in Seq(Row)
  BY <1>6, RowTypes DEF TypeOK, Row
<1>8. journal' = Append(journal, row)
  BY <1>4, <1>5 DEF AppendRow
<1>9. /\ row.after = Len(journal) /\ row.type = "completed"
      /\ row.op = op /\ row.number = Len(ledger)
  BY DEF Completion
<1>10. UNCHANGED <<ledger, torn, job, seen, answers>>
  BY DEF AppendCompletion
<1>. HIDE DEF row
<1>11. Chained' /\ Coherent(ledger)'
  BY <1>4, <1>5, <1>6, <1>7, <1>8, <1>9, <1>10, ChainExtended, CoherenceExtended
  DEF Exclusive
<1>12. Completed(journal') = Completed(journal) \cup {op}
  BY <1>7, <1>8, <1>9, RowAppended DEF Completed
<1>13. todo'[w] = todo[w] \ {op}
  BY <1>4 DEF TypeOK
<1>14. Prepared(w)'
  BY <1>1, <1>2, <1>5, <1>10, <1>12, <1>13 DEF Prepared, InLedger
<1>15. DecidedOnce' /\ Standing'
  BY <1>10 DEF Exclusive, DecidedOnce, Standing
<1>. QED
  BY <1>3, <1>11, <1>14, <1>15 DEF Exclusive

LEMMA ExclusivePublish ==
  ASSUME AuthorityTypes, Exclusive, NEW w \in Writer, Publish(w), ~overlap'
  PROVE  Exclusive'
<1>. TypeOK
  BY DEF AuthorityTypes
<1>1. /\ Goto(w, "completion-tail") /\ "completion-tail" \in Step /\ pc[w] \in Section
      /\ pc'[w] = "completion-tail"
  BY GotoTypes DEF Publish, Step, Section
<1>2. Alone' /\ \A v \in Writer : v # w => Prepared(v)'
  BY <1>1, OverlapRemembered, OthersIdle DEF Exclusive
<1>3. /\ job[w] \in Decision /\ seen[w] = ledger /\ job[w].op \notin Decided(ledger)
      /\ HasIntent(job[w], Len(ledger) + 1) /\ ledger \in Seq(Decision)
  BY DEF Publish, Exclusive, Prepared, AuthorityTypes, Settling, TypeOK
<1>4. /\ ledger' = Append(ledger, job[w])
      /\ seen'[w] = ledger' /\ todo'[w] = {job[w].op}
      /\ UNCHANGED <<journal, torn, job, tail, answers>>
  BY <1>3 DEF Publish, TypeOK
<1>5. /\ Len(ledger') = Len(ledger) + 1
      /\ DOMAIN ledger' = 1 .. Len(ledger) + 1
      /\ DOMAIN ledger = 1 .. Len(ledger)
      /\ ledger'[Len(ledger) + 1] = job[w]
      /\ \A i \in DOMAIN ledger : ledger'[i] = ledger[i]
      /\ Decided(ledger') = Decided(ledger) \cup {job[w].op}
  BY <1>3, <1>4, DecisionAppended
<1>6. Len(ledger) \in Nat /\ \A n \in DOMAIN journal : journal[n].number \in Nat
  <2>1. Len(ledger) \in Nat
    BY <1>3
  <2>2. \A n \in DOMAIN journal : journal[n] \in Row
    <3>1. journal \in Seq(Row)
      BY DEF TypeOK, Row
    <3>. QED
      BY <3>1
  <2>3. \A r \in Row : r.number \in Nat
    BY DEF Row
  <2>. QED
    BY <2>1, <2>2, <2>3
<1>7. Coherent(ledger)'
  <2>1. ASSUME NEW n \in DOMAIN journal, journal[n].type = "completed"
        PROVE  /\ journal[n].op \in Decided(ledger')
               /\ journal[n].number <= Len(ledger')
               /\ \A m \in DOMAIN journal :
                    journal[m].type = "completed" /\ journal[m].op = journal[n].op => m = n
    BY <1>5, <1>6, <2>1 DEF Exclusive, Coherent
  <2>2. ASSUME NEW i \in DOMAIN ledger'
        PROVE  \E n \in DOMAIN journal :
                 /\ journal[n].type = "intent"
                 /\ [op |-> journal[n].op, print |-> journal[n].print] = ledger'[i]
                 /\ journal[n].number = i
    <3>1. CASE i \in DOMAIN ledger
      BY <1>5, <3>1 DEF Exclusive, Coherent
    <3>2. CASE i = Len(ledger) + 1
      BY <1>3, <1>5, <3>2 DEF HasIntent
    <3>. QED
      BY <1>5, <1>6, <3>1, <3>2
  <2>. QED
    BY <1>4, <2>1, <2>2 DEF Coherent
<1>8. Prepared(w)'
  <2>1. job[w].op \notin Completed(journal)
    BY <1>3 DEF Exclusive, Coherent, Completed
  <2>2. InLedger(job[w])'
    BY <1>4, <1>5, <1>6 DEF InLedger
  <2>. QED
    BY <1>1, <1>4, <1>5, <2>1, <2>2 DEF Prepared
<1>9. DecidedOnce'
  <2>1. \A i \in DOMAIN ledger : ledger[i].op \in Decided(ledger)
    BY DEF Decided
  <2>2. ASSUME NEW i \in DOMAIN ledger', NEW j \in DOMAIN ledger',
               ledger'[i].op = ledger'[j].op
        PROVE  i = j
    <3>1. CASE i \in DOMAIN ledger /\ j \in DOMAIN ledger
      BY <1>5, <2>2, <3>1 DEF Exclusive, DecidedOnce
    <3>2. CASE i = Len(ledger) + 1 \/ j = Len(ledger) + 1
      BY <1>3, <1>5, <1>6, <2>1, <2>2, <3>2
    <3>. QED
      BY <1>5, <1>6, <3>1, <3>2
  <2>. QED
    BY <2>2 DEF DecidedOnce
<1>10. Chained' /\ Standing'
  BY <1>4, <1>5, <1>6 DEF Exclusive, Chained, Standing
<1>. QED
  BY <1>2, <1>7, <1>8, <1>9, <1>10 DEF Exclusive

LEMMA ExclusiveLeave ==
  ASSUME AuthorityTypes, Exclusive, NEW w \in Writer, NEW step \in {"down", "idle"},
         Leave(w, step), UNCHANGED <<ledger, journal, answers>>,
         torn' = torn \/ pc[w] \in Section, ~overlap'
  PROVE  Exclusive'
<1>. TypeOK
  BY DEF AuthorityTypes
<1>1. step \in Step /\ Goto(w, step) /\ pc'[w] = step
  BY GotoTypes, StepNames DEF Leave
<1>2. Prepared(w)'
  BY <1>1 DEF Prepared
<1>. QED
  BY <1>1, <1>2, OverlapRemembered, LeaveTypes, FilesKept

LEMMA ExclusiveThrow ==
  ASSUME AuthorityTypes, Exclusive, NEW w \in Writer, Throw(w),
         UNCHANGED <<files, answers>>, ~overlap'
  PROVE  Exclusive'
BY ExclusiveLeave DEF Throw, files

LEMMA ExclusiveFail ==
  ASSUME AuthorityTypes, Exclusive, NEW w \in Writer, Fail(w),
         UNCHANGED <<files, answers>>, ~overlap'
  PROVE  Exclusive'
BY ExclusiveThrow DEF Fail

\* A step of one writer that touches neither the files nor its variables.
LEMMA ExclusiveMove ==
  ASSUME AuthorityTypes, Exclusive, NEW w \in Writer,
         NEW step \in {"acquire", "lease", "remove", "retake", "read"}, Goto(w, step),
         UNCHANGED <<files, seen, tail, todo, answers>>,
         \A v \in Writer : v # w => job'[v] = job[v], ~overlap'
  PROVE  Exclusive'
<1>. TypeOK
  BY DEF AuthorityTypes
<1>1. step \in Step /\ pc'[w] = step
  BY GotoTypes DEF Step, Section
<1>2. Prepared(w)'
  BY <1>1 DEF Prepared
<1>. QED
  BY <1>1, <1>2, OverlapRemembered, FilesKept DEF files

LEMMA ExclusiveReadForRequest ==
  ASSUME AuthorityTypes, Exclusive, NEW w \in Writer, ReadForRequest(w), ~overlap'
  PROVE  Exclusive'
<1>. TypeOK
  BY DEF AuthorityTypes
<1>1. CASE Fail(w)
  BY <1>1, ExclusiveFail DEF ReadForRequest
<1>2. CASE ~Fail(w)
  <2>1. /\ ~Refused(w) /\ job[w] # Recovery
        /\ seen' = [seen EXCEPT ![w] = ledger]
        /\ UNCHANGED <<files, lease, job, tail, todo, answers>>
    BY <1>2 DEF ReadForRequest
  <2>2. PICK step \in {"answer", "intent-tail"} :
          Goto(w, step) /\ (step = "answer" <=> job[w].op \in Decided(ledger))
    BY <1>2 DEF ReadForRequest
  <2>3. step \in Step /\ pc'[w] = step
    BY <2>2, GotoTypes DEF Step, Section
  <2>4. /\ seen'[w] = ledger
        /\ \A v \in Writer : v # w => seen'[v] = seen[v]
    BY <2>1 DEF TypeOK
  <2>5. job[w].op \in Decided(ledger) => InLedger(job[w])
    BY <2>1 DEF Refused, Decided, InLedger
  <2>6. Prepared(w)'
    BY <2>1, <2>2, <2>3, <2>4, <2>5 DEF Prepared, InLedger, files
  <2>. QED
    BY <2>1, <2>2, <2>3, <2>4, <2>6, OverlapRemembered, FilesKept DEF files
<1>. QED
  BY <1>1, <1>2

LEMMA ExclusiveReadForRecovery ==
  ASSUME AuthorityTypes, Exclusive, NEW w \in Writer, ReadForRecovery(w), ~overlap'
  PROVE  Exclusive'
<1>. TypeOK
  BY DEF AuthorityTypes
<1>1. CASE Fail(w)
  BY <1>1, ExclusiveFail DEF ReadForRecovery
<1>2. CASE ~Fail(w)
  <2>1. /\ job[w] = Recovery
        /\ seen' = [seen EXCEPT ![w] = ledger]
        /\ todo' = [todo EXCEPT ![w] = Decided(ledger) \ Completed(journal)]
        /\ UNCHANGED <<files, lease, job, tail, answers>>
    BY <1>2 DEF ReadForRecovery
  <2>2. PICK step \in {"answer", "completion-tail"} : Goto(w, step)
    BY <1>2 DEF ReadForRecovery
  <2>3. step \in Step /\ pc'[w] = step
    BY <2>2, GotoTypes DEF Step, Section
  <2>4. /\ seen'[w] = ledger
        /\ todo'[w] = Decided(ledger) \ Completed(journal)
        /\ \A v \in Writer : v # w => seen'[v] = seen[v] /\ todo'[v] = todo[v]
    BY <2>1 DEF TypeOK
  <2>5. Prepared(w)'
    BY <2>1, <2>2, <2>3, <2>4 DEF Prepared, files
  <2>. QED
    BY <2>1, <2>2, <2>3, <2>4, <2>5, OverlapRemembered, FilesKept DEF files
<1>. QED
  BY <1>1, <1>2

LEMMA ExclusiveReadTail ==
  ASSUME AuthorityTypes, Exclusive, NEW w \in Writer, ReadTail(w), ~overlap'
  PROVE  Exclusive'
<1>. TypeOK
  BY DEF AuthorityTypes
<1>1. CASE Fail(w)
  BY <1>1, ExclusiveFail DEF ReadTail
<1>2. CASE ~Fail(w)
  <2>1. /\ Verified
        /\ tail' = [tail EXCEPT ![w] = Len(journal)]
        /\ UNCHANGED <<files, lease, job, seen, todo, answers>>
    BY <1>2 DEF ReadTail
  <2>2. PICK step \in {"intent", "completion"} :
          /\ Goto(w, step)
          /\ step = "intent" => pc[w] = "intent-tail"
          /\ step = "completion" => pc[w] = "completion-tail"
    BY <1>2 DEF ReadTail
  <2>3. step \in Step /\ pc'[w] = step
    BY <2>2, GotoTypes DEF Step, Section
  <2>4. /\ tail'[w] = Len(journal)
        /\ \A v \in Writer : v # w => tail'[v] = tail[v]
    BY <2>1 DEF TypeOK
  <2>5. Prepared(w)'
    BY <2>1, <2>2, <2>3, <2>4 DEF Exclusive, Prepared, InLedger, Verified, files
  <2>. QED
    BY <2>1, <2>2, <2>3, <2>4, <2>5, OverlapRemembered, FilesKept DEF files
<1>. QED
  BY <1>1, <1>2

LEMMA ExclusiveAnswer ==
  ASSUME AuthorityTypes, Exclusive, NEW w \in Writer, Answer(w), ~overlap'
  PROVE  Exclusive'
<1>. TypeOK
  BY DEF AuthorityTypes
<1>1. /\ Leave(w, "idle") /\ Goto(w, "idle") /\ "idle" \in Step /\ pc'[w] = "idle"
      /\ pc[w] \in Section /\ UNCHANGED files
  BY GotoTypes DEF Answer, Leave, Step, Section
<1>2. Alone' /\ \A v \in Writer : v # w => Prepared(v)'
  BY <1>1, OverlapRemembered, OthersIdle DEF Exclusive
<1>3. Prepared(w)'
  BY <1>1 DEF Prepared
<1>4. Chained' /\ Coherent(ledger)' /\ DecidedOnce'
  BY <1>1 DEF Exclusive, Chained, Coherent, DecidedOnce, files
<1>5. ASSUME NEW a \in answers', a \notin answers
      PROVE  a.token \in DOMAIN ledger /\ ledger[a.token] = [op |-> a.op, print |-> a.print]
  <2>1. seen[w] = ledger /\ job[w] # Recovery /\ InLedger(job[w])
    BY <1>5 DEF Answer, Exclusive, Prepared
  <2>2. PICK i \in DOMAIN ledger : /\ ledger[i].op = job[w].op
                                  /\ a = [op |-> job[w].op, print |-> job[w].print, token |-> i]
    BY <1>5, <2>1 DEF Answer
  <2>3. PICK k \in DOMAIN ledger : ledger[k] = job[w]
    BY <2>1 DEF InLedger
  <2>4. k = i /\ job[w] \in Decision
    BY <2>1, <2>2, <2>3 DEF Exclusive, DecidedOnce, TypeOK
  <2>. QED
    BY <2>2, <2>3, <2>4 DEF Decision
<1>6. Standing'
  BY <1>1, <1>5 DEF Exclusive, Standing, files
<1>. QED
  BY <1>2, <1>3, <1>4, <1>6 DEF Exclusive

LEMMA ExclusiveCrash ==
  ASSUME AuthorityTypes, Exclusive, NEW w \in Writer, Crash(w), ~overlap'
  PROVE  Exclusive'
<1>1. Leave(w, "down") /\ UNCHANGED <<ledger, journal, answers>>
  BY DEF Crash
<1>2. torn' = torn \/ pc[w] \in Section
  BY DEF Crash, Section
<1>. QED
  BY <1>1, <1>2, ExclusiveLeave

LEMMA ExclusiveInvStep ==
  ASSUME AuthorityTypes, ExclusiveInv, [Next]_vars
  PROVE  ExclusiveInv'
<1>. SUFFICES ASSUME ~overlap'
              PROVE  Exclusive'
  BY DEF ExclusiveInv
<1>. TypeOK
  BY DEF AuthorityTypes
<1>1. CASE UNCHANGED <<files, pc, process, answers, overlap>>
  BY <1>1 DEF ExclusiveInv, Exclusive, Alone, Prepared, HasIntent, InLedger, Chained,
     Coherent, DecidedOnce, Standing, files, process
<1>2. ASSUME NEW w \in Writer, Work(w) \/ Request(w) \/ Crash(w)
      PROVE  Exclusive'
  <2>1. PICK step \in Step : Goto(w, step)
    <3>1. {"down", "idle", "acquire", "lease", "remove", "retake", "read", "intent-tail",
           "intent", "publish", "completion-tail", "completion", "answer"} \subseteq Step
      BY DEF Step, Section
    <3>. QED
      BY <1>2, <3>1 DEF Work, Request, Crash, Start, Acquire, RemoveExpired, Retake,
         WriteLease, ReadForRequest, ReadForRecovery, ReadTail, AppendIntent, Publish,
         AppendCompletion, Answer, Fail, Throw, Leave
  <2>2. Exclusive
    BY <2>1, OverlapRemembered DEF ExclusiveInv
  <2>3. CASE Start(w) \/ Acquire(w) \/ RemoveExpired(w) \/ Retake(w) \/ WriteLease(w)
    <3>1. CASE Throw(w)
      BY <2>2, <2>3, <3>1, ExclusiveThrow
      DEF Start, Acquire, RemoveExpired, Retake, WriteLease
    <3>2. CASE ~Throw(w)
      <4>1. PICK next \in {"acquire", "lease", "remove", "retake", "read"} :
              Goto(w, next) /\ UNCHANGED <<files, process, answers>>
        BY <2>3, <3>2 DEF Start, Acquire, RemoveExpired, Retake, WriteLease
      <4>. QED
        BY <2>2, <4>1, ExclusiveMove DEF process
    <3>. QED
      BY <3>1, <3>2
  <2>4. CASE Request(w)
    <3>1. \A v \in Writer : v # w => job'[v] = job[v]
      BY <2>4 DEF Request, TypeOK
    <3>. QED
      BY <2>2, <2>4, <3>1, ExclusiveMove DEF Request
  <2>. QED
    BY <1>2, <2>2, <2>3, <2>4, ExclusiveReadForRequest, ExclusiveReadForRecovery,
       ExclusiveReadTail, ExclusiveAppendIntent, ExclusivePublish,
       ExclusiveAppendCompletion, ExclusiveAnswer, ExclusiveCrash DEF Work
<1>3. CASE LeaseRunsOut \/ LeaseOutlived
  BY <1>1, <1>3 DEF LeaseRunsOut, LeaseOutlived
<1>. QED
  BY <1>1, <1>2, <1>3 DEF Next, vars

LEMMA InitExclusive == Init => ExclusiveInv
<1>. SUFFICES ASSUME Init PROVE Exclusive
  BY DEF ExclusiveInv
<1>1. Alone /\ \A w \in Writer : Prepared(w)
  BY DEF Init, Alone, Prepared, Section
<1>2. DOMAIN ledger = {} /\ DOMAIN journal = {} /\ answers = {}
  BY DEF Init
<1>. QED
  BY <1>1, <1>2 DEF Exclusive, Chained, Coherent, DecidedOnce, Standing

(* What was answered stands while no two writers were at work at once.     *)
THEOREM AnsweredStands == Spec => []AnswersStand
<1>1. Init => AuthorityTypes /\ ExclusiveInv
  BY InitTypes, InitExclusive
<1>2. AuthorityTypes /\ ExclusiveInv /\ [Next]_vars => AuthorityTypes' /\ ExclusiveInv'
  BY NextTypes, ExclusiveInvStep
<1>3. ExclusiveInv => AnswersStand
  BY DEF ExclusiveInv, Exclusive, Standing, AnswersStand
<1>. QED
  BY <1>1, <1>2, <1>3, PTL DEF Spec

(* A death at any step leaves files the coherence check accepts.           *)
THEOREM CrashesKeepOpen == Spec => []CrashesNeverClose
<1>1. Init => AuthorityTypes /\ ExclusiveInv
  BY InitTypes, InitExclusive
<1>2. AuthorityTypes /\ ExclusiveInv /\ [Next]_vars => AuthorityTypes' /\ ExclusiveInv'
  BY NextTypes, ExclusiveInvStep
<1>3. ExclusiveInv => CrashesNeverClose
  BY DEF ExclusiveInv, Exclusive, Chained, CrashesNeverClose, Closed, Verified
<1>. QED
  BY <1>1, <1>2, <1>3, PTL DEF Spec
=============================================================================
