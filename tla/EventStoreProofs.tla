-------------------------- MODULE EventStoreProofs --------------------------
(***************************************************************************)
(* The event store keeps its records, its acknowledged appends and its     *)
(* pending append consistent, and implements IdempotentLog, for every set  *)
(* of streams, keys and batches, with torn writes, I/O errors and crashes. *)
(*                                                                         *)
(* The inductive invariant says, besides the properties stated of it,      *)
(* how far the append in flight has come: what each value of phase has     *)
(* already made durable.                                                   *)
(***************************************************************************)
EXTENDS EventStore, TLAPS

Durable == <<streams, index, pending, acknowledged>>

(* What the phase of the call in flight says about the files. *)
InFlight ==
  /\ phase = "rename" =>
       /\ request \in Request
       /\ pending = NoRequest
       /\ index[request.key] = NoRequest
       /\ Len(streams[request.stream]) = request.expectedVersion
  /\ phase \in {"append", "record", "compact", "repack", "clear"} =>
       /\ request \in Request
       /\ pending = request
  /\ phase = "append" =>
       /\ index[request.key] = NoRequest
       /\ Len(streams[request.stream]) = request.expectedVersion
  /\ phase = "record" =>
       /\ index[request.key] = NoRequest
       /\ Holds(request)
  /\ phase \in {"compact", "repack", "clear"} => index[request.key] = request

StoreInv ==
  /\ TypeOK
  /\ IndexMatchesStreams
  /\ AcknowledgedIsDurable
  /\ PendingIsRecoverable
  /\ InFlight

-----------------------------------------------------------------------------
(* Appending to a sequence leaves what it held in place. *)
LEMMA AppendKeepsPrefix ==
  ASSUME NEW s \in Seq(Event), NEW e \in Seq(Event),
         NEW m \in Nat, NEW n \in Nat, n <= Len(s)
  PROVE  SubSeq(s \o e, m + 1, n) = SubSeq(s, m + 1, n)
<1>1. \A i \in 1..Len(s) : (s \o e)[i] = s[i]
  OBVIOUS
<1>2. Len(s \o e) >= Len(s)
  OBVIOUS
<1>. QED
  BY <1>1, <1>2

(* An appended batch is found at the end of the longer sequence. *)
LEMMA AppendedBatch ==
  ASSUME NEW s \in Seq(Event), NEW e \in Seq(Event)
  PROVE  /\ SubSeq(s \o e, Len(s) + 1, Len(s) + Len(e)) = e
         /\ Len(s \o e) = Len(s) + Len(e)
<1>1. Len(s \o e) = Len(s) + Len(e)
  OBVIOUS
<1>2. \A i \in 1..Len(e) : (s \o e)[Len(s) + i] = e[i]
  OBVIOUS
<1>3. SubSeq(s \o e, Len(s) + 1, Len(s) + Len(e)) \in Seq(Event)
  BY <1>1
<1>4. Len(SubSeq(s \o e, Len(s) + 1, Len(s) + Len(e))) = Len(e)
  BY <1>1
<1>. QED
  BY <1>1, <1>2, <1>3, <1>4

LEMMA RequestTypes ==
  ASSUME NEW r \in Request
  PROVE  /\ r.key \in Key /\ r.stream \in Stream
         /\ r.expectedVersion \in Nat
         /\ r.events \in Seq(Event) /\ Len(r.events) > 0
         /\ StreamVersion(r) \in Nat /\ StreamVersion(r) > r.expectedVersion
         /\ r # NoRequest
<1>1. /\ r.key \in Key /\ r.stream \in Stream
      /\ r.expectedVersion \in Nat
      /\ r.events \in Seq(Event) /\ r.events # << >>
  BY EventStoreAssumption DEF Request
<1>2. Len(r.events) \in Nat /\ Len(r.events) > 0
  BY <1>1
<1>. QED
  BY <1>1, <1>2, EventStoreAssumption DEF StreamVersion

(* Events that are in a stream stay there whatever is appended. *)
LEMMA HoldsMonotone ==
  ASSUME TypeOK, NEW r \in Request, NEW s \in Stream, NEW e \in Seq(Event),
         streams' = [streams EXCEPT ![s] = @ \o e], Holds(r)
  PROVE  Holds(r)'
<1>1. CASE r.stream = s
  <2>1. /\ streams[s] \in Seq(Event)
        /\ streams'[s] = streams[s] \o e
    BY DEF TypeOK
  <2>2. /\ r.expectedVersion \in Nat
        /\ StreamVersion(r) \in Nat
        /\ StreamVersion(r) <= Len(streams[s])
    BY <1>1, RequestTypes DEF Holds
  <2>3. SubSeq(streams'[s], r.expectedVersion + 1, StreamVersion(r))
          = SubSeq(streams[s], r.expectedVersion + 1, StreamVersion(r))
    <3>1. ASSUME NEW q \in Seq(Event), NEW m \in Nat, NEW n \in Nat,
                 n <= Len(q)
          PROVE  SubSeq(q \o e, m + 1, n) = SubSeq(q, m + 1, n)
      BY <3>1, AppendKeepsPrefix
    <3>. HIDE DEF StreamVersion
    <3>. QED
      BY <2>1, <2>2, <3>1
  <2>4. Len(streams'[s]) >= StreamVersion(r)
    BY <2>1, <2>2, AppendedBatch
  <2>. QED
    BY <1>1, <2>3, <2>4 DEF Holds, StreamVersion
<1>2. CASE r.stream # s
  <2>1. streams'[r.stream] = streams[r.stream]
    BY <1>2 DEF TypeOK, Request
  <2>. QED
    BY <2>1 DEF Holds, StreamVersion
<1>. QED
  BY <1>1, <1>2

(* Steps that leave the durable state alone keep every property of it. *)
LEMMA DurableUnchanged ==
  ASSUME UNCHANGED Durable, IndexMatchesStreams, AcknowledgedIsDurable,
         PendingIsRecoverable
  PROVE  /\ IndexMatchesStreams'
         /\ AcknowledgedIsDurable'
         /\ PendingIsRecoverable'
BY DEF Durable, IndexMatchesStreams, AcknowledgedIsDurable,
       PendingIsRecoverable, Holds, StreamVersion

LEMMA InitStoreInv == Init => StoreInv
<1>. SUFFICES ASSUME Init PROVE StoreInv
  OBVIOUS
<1>1. TypeOK
  <2>1. << >> \in Seq(Event)
    OBVIOUS
  <2>2. /\ streams \in [Stream -> Seq(Event)]
        /\ index \in [Key -> Request \cup {NoRequest}]
    BY <2>1 DEF Init
  <2>3. /\ indexSize \in Nat /\ nextCompaction \in Nat
        /\ crashes \in 0..MaxCrashes /\ ioErrors \in 0..MaxIoErrors
    BY EventStoreAssumption DEF Init
  <2>. QED
    BY <2>2, <2>3 DEF Init, TypeOK, Phase, Outcome
<1>2. IndexMatchesStreams /\ AcknowledgedIsDurable /\ PendingIsRecoverable
  BY DEF Init, IndexMatchesStreams, AcknowledgedIsDurable, PendingIsRecoverable
<1>3. InFlight
  BY DEF Init, InFlight
<1>. QED
  BY <1>1, <1>2, <1>3 DEF StoreInv

(* Throwing, and returning from a call that wrote nothing. *)
LEMMA FinishKeepsTypes ==
  ASSUME TypeOK, NEW o \in Outcome, Finish(o)
  PROVE  /\ phase' \in {"down", "idle"}
         /\ request' \in Request \cup {NoRequest}
         /\ recovering' \in BOOLEAN
         /\ nextCompaction' \in Nat
         /\ outcome' \in Outcome
BY DEF Finish, TypeOK

LEMMA ReplayAppendInv ==
  ASSUME StoreInv, NEW r \in Request, ReplayAppend(r)
  PROVE  StoreInv'
<1>. USE DEF StoreInv
<1>1. /\ UNCHANGED <<streams, index, pending>>
      /\ acknowledged' = acknowledged \cup {r}
  BY DEF ReplayAppend, files
<1>2. TypeOK'
  <2>1. phase' \in {"down", "idle"} /\ outcome' \in Outcome
        /\ request' \in Request \cup {NoRequest}
        /\ recovering' \in BOOLEAN /\ nextCompaction' \in Nat
    BY FinishKeepsTypes DEF ReplayAppend, Outcome
  <2>. QED
    BY <2>1 DEF ReplayAppend, TypeOK, files, faults, Phase
<1>3. IndexMatchesStreams' /\ PendingIsRecoverable'
  BY <1>1 DEF IndexMatchesStreams, PendingIsRecoverable, Holds, StreamVersion
<1>4. AcknowledgedIsDurable'
  <2>1. index[r.key] = r /\ index[r.key] # NoRequest /\ r.key \in Key
    BY EventStoreAssumption DEF ReplayAppend, Request
  <2>2. Holds(r)
    BY <2>1 DEF IndexMatchesStreams
  <2>. QED
    BY <1>1, <2>1, <2>2 DEF AcknowledgedIsDurable, Holds, StreamVersion
<1>5. InFlight'
  BY FinishKeepsTypes DEF ReplayAppend, Outcome, InFlight
<1>. QED
  BY <1>2, <1>3, <1>4, <1>5

LEMMA RefuseAppendInv ==
  ASSUME StoreInv, NEW r \in Request, RefuseAppend(r)
  PROVE  StoreInv'
<1>. USE DEF StoreInv
<1>1. UNCHANGED Durable
  BY DEF RefuseAppend, files, Durable
<1>2. Refusal(r) \in Outcome
  BY DEF Refusal, Outcome
<1>3. /\ phase' \in {"down", "idle"} /\ outcome' \in Outcome
      /\ request' \in Request \cup {NoRequest}
      /\ recovering' \in BOOLEAN /\ nextCompaction' \in Nat
  BY <1>2, FinishKeepsTypes DEF RefuseAppend
<1>4. TypeOK'
  BY <1>3 DEF RefuseAppend, TypeOK, files, faults, Phase
<1>5. InFlight'
  BY <1>3 DEF InFlight
<1>. QED
  BY <1>1, <1>4, <1>5, DurableUnchanged

LEMMA StageAppendInv ==
  ASSUME StoreInv, NEW r \in Request, StageAppend(r)
  PROVE  StoreInv'
<1>. USE DEF StoreInv
<1>1. UNCHANGED Durable
  BY DEF StageAppend, Durable
<1>2. TypeOK'
  BY DEF StageAppend, TypeOK, faults, Phase
<1>3. pending = NoRequest /\ Len(streams[r.stream]) = r.expectedVersion
  BY DEF StageAppend, Refusal
<1>4. InFlight'
  BY <1>3 DEF StageAppend, InFlight, Holds, StreamVersion
<1>. QED
  BY <1>1, <1>2, <1>4, DurableUnchanged

LEMMA RenamePendingInv ==
  ASSUME StoreInv, RenamePending
  PROVE  StoreInv'
<1>. USE DEF StoreInv
<1>1. /\ request \in Request /\ request # NoRequest
      /\ index[request.key] = NoRequest
      /\ Len(streams[request.stream]) = request.expectedVersion
      /\ pending = NoRequest
  BY RequestTypes DEF RenamePending, InFlight
<1>2. /\ UNCHANGED <<streams, index, acknowledged>>
      /\ pending' = request /\ request' = request /\ phase' = "append"
  BY DEF RenamePending, Continue
<1>3. TypeOK'
  BY <1>1, <1>2 DEF RenamePending, Continue, TypeOK, faults, Phase
<1>4. IndexMatchesStreams'
  BY <1>2 DEF IndexMatchesStreams, Holds, StreamVersion
<1>5. AcknowledgedIsDurable'
  <2>. SUFFICES ASSUME NEW r \in acknowledged
                PROVE  Holds(r)' /\ index'[r.key] = r
    BY <1>2 DEF AcknowledgedIsDurable
  <2>1. r # NoRequest
    BY RequestTypes DEF TypeOK
  <2>. QED
    BY <1>1, <1>2, <2>1 DEF AcknowledgedIsDurable, Holds, StreamVersion
<1>6. PendingIsRecoverable'
  BY <1>1, <1>2 DEF PendingIsRecoverable
<1>7. InFlight'
  BY <1>1, <1>2 DEF InFlight
<1>. QED
  BY <1>3, <1>4, <1>5, <1>6, <1>7

LEMMA AppendToStreamFileInv ==
  ASSUME StoreInv, AppendToStreamFile
  PROVE  StoreInv'
<1>. USE DEF StoreInv
<1>1. /\ request \in Request /\ pending = request
      /\ index[request.key] = NoRequest
      /\ Len(streams[request.stream]) = request.expectedVersion
  BY DEF AppendToStreamFile, InFlight
<1>2. /\ streams' = [streams EXCEPT ![request.stream] = @ \o request.events]
      /\ UNCHANGED <<index, acknowledged, pending, request>>
      /\ phase' = "record"
  BY DEF AppendToStreamFile, Continue
<1>3. /\ request.stream \in Stream /\ request.events \in Seq(Event)
      /\ streams[request.stream] \in Seq(Event)
      /\ streams'[request.stream] = streams[request.stream] \o request.events
  BY <1>1, <1>2, RequestTypes DEF TypeOK
<1>4. \A r \in Request : Holds(r) => Holds(r)'
  BY <1>2, <1>3, HoldsMonotone
<1>5. Holds(request)' /\ Len(streams'[request.stream]) = StreamVersion(request)
  <2>1. /\ SubSeq(streams'[request.stream], request.expectedVersion + 1,
                  request.expectedVersion + Len(request.events)) = request.events
        /\ Len(streams'[request.stream])
             = request.expectedVersion + Len(request.events)
    BY <1>1, <1>3, AppendedBatch
  <2>2. request.expectedVersion + Len(request.events) \in Nat
    BY <1>1, RequestTypes DEF StreamVersion
  <2>3. request' = request
    BY <1>2
  <2>4. /\ StreamVersion(request)'
             = request.expectedVersion + Len(request.events)
        /\ StreamVersion(request)
             = request.expectedVersion + Len(request.events)
    BY <2>3 DEF StreamVersion
  <2>5. Len(streams'[request.stream]) >= StreamVersion(request)'
    BY <2>1, <2>2, <2>4
  <2>. QED
    BY <2>1, <2>3, <2>4, <2>5 DEF Holds
<1>6. TypeOK'
  <2>1. streams' \in [Stream -> Seq(Event)]
    BY <1>2, <1>3 DEF TypeOK
  <2>. QED
    BY <2>1, <1>2 DEF AppendToStreamFile, Continue, TypeOK, faults, Phase
<1>7. IndexMatchesStreams'
  BY <1>2, <1>4 DEF IndexMatchesStreams, TypeOK
<1>8. AcknowledgedIsDurable'
  BY <1>2, <1>4 DEF AcknowledgedIsDurable, TypeOK
<1>9. PendingIsRecoverable'
  BY <1>1, <1>2, <1>5 DEF PendingIsRecoverable, StreamVersion
<1>10. InFlight'
  BY <1>1, <1>2, <1>5 DEF InFlight
<1>. QED
  BY <1>6, <1>7, <1>8, <1>9, <1>10

LEMMA AppendIdempotencyRecordInv ==
  ASSUME StoreInv, AppendIdempotencyRecord
  PROVE  StoreInv'
<1>. USE DEF StoreInv
<1>1. /\ request \in Request /\ pending = request /\ request # NoRequest
      /\ index[request.key] = NoRequest
      /\ Holds(request)
  BY RequestTypes DEF AppendIdempotencyRecord, InFlight
<1>2. /\ index' = [index EXCEPT ![request.key] = request]
      /\ UNCHANGED <<streams, acknowledged, pending, request>>
      /\ phase' \in {"compact", "clear"}
  BY DEF AppendIdempotencyRecord, Continue
<1>3. request.key \in Key /\ index'[request.key] = request
  BY <1>1, <1>2, RequestTypes DEF TypeOK
<1>4. TypeOK'
  <2>1. index' \in [Key -> Request \cup {NoRequest}]
    BY <1>1, <1>2, <1>3 DEF TypeOK
  <2>2. indexSize' \in Nat
    BY DEF AppendIdempotencyRecord, TypeOK
  <2>. QED
    BY <2>1, <2>2, <1>2
       DEF AppendIdempotencyRecord, Continue, TypeOK, faults, Phase
<1>5. \A r : Holds(r)' <=> Holds(r)
  BY <1>2 DEF Holds, StreamVersion
<1>6. IndexMatchesStreams'
  BY <1>1, <1>2, <1>3, <1>5 DEF IndexMatchesStreams, TypeOK
<1>7. AcknowledgedIsDurable'
  <2>. SUFFICES ASSUME NEW r \in acknowledged
                PROVE  Holds(r)' /\ (index'[r.key] = r \/ pending' = r)
    BY <1>2 DEF AcknowledgedIsDurable
  <2>1. r \in Request /\ r # NoRequest /\ r.key \in Key
    BY RequestTypes DEF TypeOK
  <2>2. Holds(r) /\ (index[r.key] = r \/ pending = r)
    BY DEF AcknowledgedIsDurable
  <2>3. Holds(r)'
    BY <2>2, <1>5
  <2>4. CASE r.key = request.key
    BY <1>1, <1>2, <2>1, <2>2, <2>3, <2>4
  <2>5. CASE r.key # request.key
    <3>1. index'[r.key] = index[r.key]
      BY <1>2, <2>1, <2>5 DEF TypeOK
    <3>. QED
      BY <1>2, <2>2, <2>3, <3>1
  <2>. QED
    BY <2>4, <2>5
<1>8. PendingIsRecoverable'
  BY <1>1, <1>2, <1>3, <1>5 DEF PendingIsRecoverable, StreamVersion
<1>9. InFlight'
  BY <1>1, <1>2, <1>3 DEF InFlight
<1>. QED
  BY <1>4, <1>6, <1>7, <1>8, <1>9

(* Compaction does not touch what the records say. *)
LEMMA CompactionInv ==
  ASSUME StoreInv, StartCompaction \/ CompactionRefused \/ RepackIndex
  PROVE  StoreInv'
<1>. USE DEF StoreInv
<1>1. UNCHANGED Durable
  BY DEF StartCompaction, CompactionRefused, RepackIndex, Durable, files
<1>2. CASE StartCompaction
  <2>1. TypeOK'
    BY <1>2 DEF StartCompaction, Continue, TypeOK, faults, Phase
  <2>2. InFlight'
    BY <1>1, <1>2 DEF StartCompaction, Continue, Durable, InFlight
  <2>. QED
    BY <1>1, <2>1, <2>2, DurableUnchanged
<1>3. CASE CompactionRefused
  <2>1. /\ phase' \in {"down", "idle"} /\ outcome' \in Outcome
        /\ request' \in Request \cup {NoRequest}
        /\ recovering' \in BOOLEAN /\ nextCompaction' \in Nat
    BY <1>3, FinishKeepsTypes DEF CompactionRefused, Outcome
  <2>2. TypeOK'
    BY <1>3, <2>1 DEF CompactionRefused, TypeOK, files, faults, Phase
  <2>3. InFlight'
    BY <2>1 DEF InFlight
  <2>. QED
    BY <1>1, <2>2, <2>3, DurableUnchanged
<1>4. CASE RepackIndex
  <2>1. nextCompaction' \in Nat
    BY <1>4, EventStoreAssumption DEF RepackIndex
  <2>2. TypeOK'
    BY <1>4, <2>1 DEF RepackIndex, Continue, TypeOK, faults, Phase
  <2>3. InFlight'
    BY <1>1, <1>4 DEF RepackIndex, Continue, Durable, InFlight
  <2>. QED
    BY <1>1, <2>2, <2>3, DurableUnchanged
<1>. QED
  BY <1>2, <1>3, <1>4

LEMMA ClearPendingInv ==
  ASSUME StoreInv, ClearPending
  PROVE  StoreInv'
<1>. USE DEF StoreInv
<1>1. /\ request \in Request /\ pending = request /\ request # NoRequest
      /\ index[request.key] = request
      /\ request.key \in Key
  BY RequestTypes DEF ClearPending, InFlight
<1>2. /\ UNCHANGED <<streams, index>>
      /\ pending' = NoRequest /\ phase' = "idle"
      /\ acknowledged' \in {acknowledged, acknowledged \cup {request}}
  BY DEF ClearPending
<1>3. TypeOK'
  <2>1. acknowledged' \subseteq Request
    BY <1>1, <1>2 DEF TypeOK
  <2>2. outcome' \in Outcome
    BY DEF ClearPending, TypeOK, Outcome
  <2>. QED
    BY <2>1, <2>2 DEF ClearPending, TypeOK, faults, Phase
<1>4. IndexMatchesStreams'
  BY <1>2 DEF IndexMatchesStreams, Holds, StreamVersion
<1>5. Holds(request)
  BY <1>1 DEF IndexMatchesStreams
<1>6. AcknowledgedIsDurable'
  BY <1>1, <1>2, <1>5 DEF AcknowledgedIsDurable, Holds, StreamVersion
<1>7. PendingIsRecoverable' /\ InFlight'
  BY <1>2 DEF PendingIsRecoverable, InFlight
<1>. QED
  BY <1>3, <1>4, <1>6, <1>7

(* What the constructor finds decides where it resumes. *)
LEMMA OpenInv ==
  ASSUME StoreInv, Open
  PROVE  StoreInv'
<1>. USE DEF StoreInv
<1>1. UNCHANGED Durable
  BY DEF Open, OpenWithoutPending, OpenAndResume, OpenFails, Reset, Durable
<1>2. /\ UNCHANGED <<streams, tornStreams, index, indexSize, indexTorn,
                     pending, compacting, acknowledged, crashes, ioErrors>>
      /\ nextCompaction' \in Nat /\ staging' = FALSE
  BY EventStoreAssumption
     DEF Open, OpenWithoutPending, OpenAndResume, OpenFails, Reset, faults
<1>3. CASE OpenWithoutPending
  <2>1. TypeOK' /\ InFlight'
    BY <1>2, <1>3 DEF OpenWithoutPending, TypeOK, Phase, InFlight
  <2>. QED
    BY <1>1, <2>1, DurableUnchanged
<1>4. CASE OpenAndResume
  <2>1. pending \in Request /\ request' = pending /\ recovering' = TRUE
    BY <1>4 DEF OpenAndResume, TypeOK
  <2>2. phase' \in {"clear", "append", "record"}
    BY <1>4 DEF OpenAndResume, ResumePhase
  <2>3. TypeOK'
    BY <1>2, <1>4, <2>1, <2>2 DEF OpenAndResume, TypeOK, Phase
  <2>4. InFlight'
    BY <1>2, <1>4, <2>1
       DEF OpenAndResume, ResumePhase, Resumable, InFlight, Holds, StreamVersion
  <2>. QED
    BY <1>1, <2>3, <2>4, DurableUnchanged
<1>5. CASE OpenFails
  <2>1. TypeOK'
    BY <1>2, <1>5 DEF OpenFails, TypeOK, Outcome
  <2>2. InFlight'
    BY <1>5 DEF OpenFails, InFlight
  <2>. QED
    BY <1>1, <2>1, <2>2, DurableUnchanged
<1>. QED
  BY <1>3, <1>4, <1>5 DEF Open

LEMMA CrashInv ==
  ASSUME StoreInv, Crash
  PROVE  StoreInv'
<1>. USE DEF StoreInv
<1>1. UNCHANGED Durable
  BY DEF Crash, Durable
<1>2. tornStreams' \subseteq Stream /\ indexTorn' \in BOOLEAN
  <2>1. CASE phase = "append"
    BY <2>1, RequestTypes DEF Crash, MayTear, TypeOK, InFlight
  <2>2. CASE phase # "append"
    BY <2>2 DEF Crash, MayTear, TypeOK
  <2>. QED
    BY <2>1, <2>2
<1>3. crashes' \in 0..MaxCrashes
  BY EventStoreAssumption DEF Crash, TypeOK
<1>4. TypeOK'
  BY <1>2, <1>3 DEF Crash, TypeOK, Phase
<1>5. InFlight'
  BY DEF Crash, InFlight
<1>. QED
  BY <1>1, <1>4, <1>5, DurableUnchanged

LEMMA IoErrorInv ==
  ASSUME StoreInv, IoError
  PROVE  StoreInv'
<1>. USE DEF StoreInv
<1>1. UNCHANGED Durable
  BY DEF IoError, Durable
<1>2. tornStreams' \subseteq Stream /\ indexTorn' \in BOOLEAN
  <2>1. CASE phase = "append"
    BY <2>1, RequestTypes DEF IoError, MayTear, TypeOK, InFlight
  <2>2. CASE phase # "append"
    BY <2>2 DEF IoError, MayTear, TypeOK
  <2>. QED
    BY <2>1, <2>2
<1>3. ioErrors' \in 0..MaxIoErrors
  BY EventStoreAssumption DEF IoError, TypeOK
<1>4. /\ phase' \in {"down", "idle"} /\ outcome' \in Outcome
      /\ request' \in Request \cup {NoRequest}
      /\ recovering' \in BOOLEAN /\ nextCompaction' \in Nat
  BY FinishKeepsTypes DEF IoError, Outcome
<1>5. compacting' \in BOOLEAN
  BY ZenonT(30) DEF IoError, TypeOK
<1>6. TypeOK'
  BY <1>2, <1>3, <1>4, <1>5 DEF IoError, TypeOK, Phase
<1>7. InFlight'
  BY <1>4 DEF InFlight
<1>. QED
  BY <1>1, <1>6, <1>7, DurableUnchanged

-----------------------------------------------------------------------------
(***************************************************************************)
(* The invariant holds in every state: no order of writes, crashes, torn   *)
(* frames, I/O errors and restarts breaks the file store's consistency.    *)
(***************************************************************************)
THEOREM StoreInvariant == Spec => []StoreInv
<1>1. StoreInv /\ [Next]_vars => StoreInv'
  <2>. SUFFICES ASSUME StoreInv, [Next]_vars PROVE StoreInv'
    OBVIOUS
  <2>1. ASSUME NEW r \in Request, Call(r) PROVE StoreInv'
    BY <2>1, ReplayAppendInv, RefuseAppendInv, StageAppendInv DEF Call
  <2>2. CASE Step
    BY <2>2, RenamePendingInv, AppendToStreamFileInv,
       AppendIdempotencyRecordInv, CompactionInv, ClearPendingInv DEF Step
  <2>3. CASE Open
    BY <2>3, OpenInv
  <2>4. CASE Crash
    BY <2>4, CrashInv
  <2>5. CASE IoError
    BY <2>5, IoErrorInv
  <2>6. CASE UNCHANGED vars
    <3>1. UNCHANGED Durable
      BY <2>6 DEF vars, files, Durable
    <3>2. TypeOK' /\ InFlight'
      BY <2>6 DEF vars, files, process, faults, StoreInv, TypeOK, InFlight,
                  Holds, StreamVersion
    <3>. QED
      BY <3>1, <3>2, DurableUnchanged DEF StoreInv
  <2>. QED
    BY <2>1, <2>2, <2>3, <2>4, <2>5, <2>6 DEF Next
<1>. QED
  BY <1>1, InitStoreInv, PTL DEF Spec

(* Every variable of the store keeps its type. *)
THEOREM StoreTypeCorrect == Spec => []TypeOK
<1>1. StoreInv => TypeOK
  BY DEF StoreInv
<1>. QED
  BY <1>1, StoreInvariant, PTL

(* Every idempotency record resolves to the events it was written for. *)
THEOREM RecordsResolve == Spec => []IndexMatchesStreams
<1>1. StoreInv => IndexMatchesStreams
  BY DEF StoreInv
<1>. QED
  BY <1>1, StoreInvariant, PTL

(* What a caller was told is appended stays appended, across crashes. *)
THEOREM AcknowledgedSurvives == Spec => []AcknowledgedIsDurable
<1>1. StoreInv => AcknowledgedIsDurable
  BY DEF StoreInv
<1>. QED
  BY <1>1, StoreInvariant, PTL

(* A pending file never disagrees with its stream when recovery reads it. *)
THEOREM PendingRecoverable == Spec => []PendingIsRecoverable
<1>1. StoreInv => PendingIsRecoverable
  BY DEF StoreInv
<1>. QED
  BY <1>1, StoreInvariant, PTL

-----------------------------------------------------------------------------
(* A process that is open has no pending append in its way unless an I/O   *)
(* error or a killed repack left one, and a repack begins only where no    *)
(* staging file did.                                                       *)
BlockInv ==
  /\ phase = "idle" /\ pending # NoRequest => ioErrors > 0 \/ compacting
  /\ BlockedByErrorOrRepack
  /\ phase = "repack" /\ outcome = "blocked" => ioErrors > 0

LEMMA BlockInvStep ==
  ASSUME StoreInv, BlockInv, [Next]_vars
  PROVE  BlockInv'
<1>0. ioErrors \in Nat /\ compacting \in BOOLEAN
  BY DEF StoreInv, TypeOK
<1>1. ASSUME NEW r \in Request, ReplayAppend(r) PROVE BlockInv'
  BY <1>1 DEF ReplayAppend, Finish, BlockInv, BlockedByErrorOrRepack, files, faults
<1>2. ASSUME NEW r \in Request, RefuseAppend(r) PROVE BlockInv'
  <2>1. Refusal(r) = "blocked" => pending # NoRequest
    BY DEF Refusal
  <2> QED
    BY <1>2, <2>1 DEF RefuseAppend, Finish, BlockInv, BlockedByErrorOrRepack, files, faults
<1>3. ASSUME NEW r \in Request, StageAppend(r) PROVE BlockInv'
  BY <1>3 DEF StageAppend, BlockInv, BlockedByErrorOrRepack, faults
<1>4. CASE RenamePending \/ AppendToStreamFile \/ AppendIdempotencyRecord
  BY <1>4 DEF RenamePending, AppendToStreamFile, AppendIdempotencyRecord, Continue,
              BlockInv, BlockedByErrorOrRepack, faults
<1>5. CASE StartCompaction \/ RepackIndex
  BY <1>5 DEF StartCompaction, RepackIndex, Continue, BlockInv, BlockedByErrorOrRepack, faults
<1>6. CASE CompactionRefused
  BY <1>6 DEF CompactionRefused, Finish, BlockInv, BlockedByErrorOrRepack, files, faults
<1>7. CASE ClearPending
  <2>1. outcome' \in {outcome, "appended"} /\ pending' = NoRequest /\ phase' = "idle"
    BY <1>7 DEF ClearPending
  <2>2. UNCHANGED <<compacting, ioErrors>>
    BY <1>7 DEF ClearPending, faults
  <2> QED
    BY <2>1, <2>2 DEF BlockInv, BlockedByErrorOrRepack
<1>8. CASE Open
  BY <1>8 DEF Open, OpenWithoutPending, OpenAndResume, OpenFails, Reset, ResumePhase,
              BlockInv, BlockedByErrorOrRepack, faults
<1>9. CASE Crash
  BY <1>9 DEF Crash, BlockInv, BlockedByErrorOrRepack
<1>10. CASE IoError
  BY <1>0, <1>10 DEF IoError, Finish, BlockInv, BlockedByErrorOrRepack
<1>11. CASE UNCHANGED vars
  BY <1>11 DEF vars, files, process, faults, BlockInv, BlockedByErrorOrRepack
<1> QED
  BY <1>1, <1>2, <1>3, <1>4, <1>5, <1>6, <1>7, <1>8, <1>9, <1>10, <1>11
  DEF Next, Call, Step

(* No append is refused over what a killed process left, but for the       *)
(* staging file of a repack; recovery rolls every pending append forward   *)
(* before the store is open.                                               *)
THEOREM OnlyErrorsOrRepacksBlock == Spec => []BlockedByErrorOrRepack
<1>1. Init => BlockInv
  BY DEF Init, BlockInv, BlockedByErrorOrRepack
<1>2. BlockInv => BlockedByErrorOrRepack
  BY DEF BlockInv
<1> QED
  BY StoreInvariant, BlockInvStep, <1>1, <1>2, PTL DEF Spec

-----------------------------------------------------------------------------
(* Refinement.  The rename of the pending file is the abstract append;     *)
(* every later file operation of the same append is a stutter.             *)

LogState == <<[s \in Stream |-> RolledForward(s)],
              [k \in Key |-> Committed(k)]>>

LEMMA LogInit == Init => Log!Init
BY DEF Init, Log!Init, RolledForward, Committed

(* Steps that leave the durable state alone leave the log alone. *)
LEMMA LogStutter ==
  ASSUME UNCHANGED Durable
  PROVE  UNCHANGED Log!vars
BY DEF Durable, Log!vars, RolledForward, Committed

LEMMA AcknowledgeStep ==
  ASSUME StoreInv, NEW r \in Request, index[r.key] = r,
         UNCHANGED LogState, acknowledged' = acknowledged \cup {r}
  PROVE  Log!Next
<1>1. r.key \in Key /\ r # NoRequest
  BY RequestTypes
<1>2. Committed(r.key) = r
  BY <1>1 DEF Committed, StoreInv, PendingIsRecoverable
<1>3. Log!Acknowledge(r)
  BY <1>1, <1>2 DEF Log!Acknowledge, LogState
<1>4. r \in Log!Request
  BY DEF Request, Log!Request
<1>. QED
  BY <1>3, <1>4 DEF Log!Next

LEMMA ReplayStep ==
  ASSUME StoreInv, NEW r \in Request, ReplayAppend(r)
  PROVE  Log!Next
<1>1. UNCHANGED <<streams, index, pending>>
  BY DEF ReplayAppend, files
<1>2. UNCHANGED LogState
  BY <1>1 DEF LogState, RolledForward, Committed
<1>. QED
  BY <1>2, AcknowledgeStep DEF ReplayAppend

LEMMA CommitStep ==
  ASSUME StoreInv, RenamePending
  PROVE  Log!Next
<1>1. /\ request \in Request /\ request # NoRequest
      /\ request.key \in Key /\ request.stream \in Stream
      /\ index[request.key] = NoRequest
      /\ Len(streams[request.stream]) = request.expectedVersion
      /\ pending = NoRequest
  BY RequestTypes DEF RenamePending, StoreInv, InFlight
<1>2. /\ UNCHANGED <<streams, index, acknowledged>>
      /\ pending' = request
  BY DEF RenamePending
<1>3. \A s \in Stream : RolledForward(s) = streams[s]
  BY <1>1 DEF RolledForward
<1>4. \A k \in Key : Committed(k) = index[k]
  BY <1>1 DEF Committed
<1>5. \A s \in Stream : RolledForward(s)' =
        IF s = request.stream THEN streams[s] \o request.events ELSE streams[s]
  BY <1>1, <1>2 DEF RolledForward
<1>6. \A k \in Key : Committed(k)' =
        IF k = request.key THEN request ELSE index[k]
  BY <1>1, <1>2 DEF Committed
<1>7. Log!Apply(request)
  <2>1. [s \in Stream |-> RolledForward(s)]' =
          [[s \in Stream |-> RolledForward(s)]
            EXCEPT ![request.stream] = @ \o request.events]
    BY <1>1, <1>3, <1>5
  <2>2. [k \in Key |-> Committed(k)]' =
          [[k \in Key |-> Committed(k)] EXCEPT ![request.key] = request]
    BY <1>1, <1>4, <1>6
  <2>. QED
    BY <1>1, <1>2, <1>3, <1>4, <2>1, <2>2 DEF Log!Apply
<1>8. request \in Log!Request
  BY <1>1 DEF Request, Log!Request
<1>. QED
  BY <1>7, <1>8 DEF Log!Next

LEMMA StreamStep ==
  ASSUME StoreInv, AppendToStreamFile
  PROVE  UNCHANGED Log!vars
<1>1. /\ request \in Request /\ pending = request /\ request # NoRequest
      /\ Len(streams[request.stream]) = request.expectedVersion
      /\ request.stream \in Stream /\ request.events \in Seq(Event)
      /\ Len(request.events) > 0
      /\ streams \in [Stream -> Seq(Event)]
  BY RequestTypes DEF AppendToStreamFile, StoreInv, InFlight, TypeOK
<1>2. /\ streams' = [streams EXCEPT ![request.stream] = @ \o request.events]
      /\ UNCHANGED <<index, acknowledged, pending>>
  BY DEF AppendToStreamFile
<1>3. streams'[request.stream] = streams[request.stream] \o request.events
  BY <1>1, <1>2
<1>4. Len(streams'[request.stream]) # request.expectedVersion
  <2>1. streams[request.stream] \in Seq(Event)
    BY <1>1
  <2>2. Len(streams'[request.stream])
          = Len(streams[request.stream]) + Len(request.events)
    BY <1>1, <1>3, <2>1, AppendedBatch
  <2>. QED
    BY <1>1, <2>1, <2>2
<1>5. \A s \in Stream : RolledForward(s)' = RolledForward(s)
  BY <1>1, <1>2, <1>3, <1>4 DEF RolledForward
<1>6. \A k \in Key : Committed(k)' = Committed(k)
  BY <1>2 DEF Committed
<1>. QED
  BY <1>2, <1>5, <1>6 DEF Log!vars

LEMMA RecordStep ==
  ASSUME StoreInv, AppendIdempotencyRecord
  PROVE  UNCHANGED Log!vars
<1>1. /\ request \in Request /\ pending = request /\ request # NoRequest
      /\ request.key \in Key
      /\ index \in [Key -> Request \cup {NoRequest}]
  BY RequestTypes DEF AppendIdempotencyRecord, StoreInv, InFlight, TypeOK
<1>2. /\ index' = [index EXCEPT ![request.key] = request]
      /\ UNCHANGED <<streams, acknowledged, pending>>
  BY DEF AppendIdempotencyRecord
<1>3. \A s \in Stream : RolledForward(s)' = RolledForward(s)
  BY <1>2 DEF RolledForward
<1>4. \A k \in Key : Committed(k)' = Committed(k)
  BY <1>1, <1>2 DEF Committed
<1>. QED
  BY <1>2, <1>3, <1>4 DEF Log!vars

LEMMA ClearStep ==
  ASSUME StoreInv, ClearPending
  PROVE  Log!Next \/ UNCHANGED Log!vars
<1>1. /\ request \in Request /\ pending = request /\ request # NoRequest
      /\ index[request.key] = request /\ request.key \in Key
  BY RequestTypes DEF ClearPending, StoreInv, InFlight
<1>2. UNCHANGED <<streams, index>> /\ pending' = NoRequest
  BY DEF ClearPending
<1>3. Holds(request) /\ Len(streams[request.stream]) # request.expectedVersion
  <2>1. Holds(request)
    BY <1>1 DEF StoreInv, IndexMatchesStreams
  <2>2. /\ request.stream \in Stream /\ request.expectedVersion \in Nat
        /\ StreamVersion(request) \in Nat
        /\ StreamVersion(request) > request.expectedVersion
    BY <1>1, RequestTypes
  <2>3. Len(streams[request.stream]) \in Nat
    BY <2>2 DEF StoreInv, TypeOK
  <2>. QED
    BY <2>1, <2>2, <2>3 DEF Holds
<1>4. \A s \in Stream : RolledForward(s)' = RolledForward(s)
  BY <1>1, <1>2, <1>3 DEF RolledForward
<1>5. \A k \in Key : Committed(k)' = Committed(k)
  BY <1>1, <1>2 DEF Committed
<1>6. UNCHANGED LogState
  BY <1>4, <1>5 DEF LogState
<1>7. CASE acknowledged' = acknowledged \cup {request}
  BY <1>1, <1>6, <1>7, AcknowledgeStep
<1>8. CASE UNCHANGED acknowledged
  BY <1>6, <1>8 DEF LogState, Log!vars
<1>. QED
  BY <1>7, <1>8 DEF ClearPending

(***************************************************************************)
(* The file event store implements the idempotent log: each append takes   *)
(* effect once, whole, together with its key, however it is interrupted    *)
(* and resumed, and only appends in the log are acknowledged.              *)
(***************************************************************************)
THEOREM StoreImplementsLog == Spec => ImplementsLog
<1>1. StoreInv /\ [Next]_vars => [Log!Next]_(Log!vars)
  <2>. SUFFICES ASSUME StoreInv, [Next]_vars
                PROVE  Log!Next \/ UNCHANGED Log!vars
    OBVIOUS
  <2>1. ASSUME NEW r \in Request, ReplayAppend(r) PROVE Log!Next
    BY <2>1, ReplayStep
  <2>2. ASSUME NEW r \in Request, RefuseAppend(r) \/ StageAppend(r)
        PROVE  UNCHANGED Log!vars
    <3>1. UNCHANGED Durable
      BY <2>2 DEF RefuseAppend, StageAppend, files, Durable
    <3>. QED
      BY <3>1, LogStutter
  <2>3. CASE RenamePending
    BY <2>3, CommitStep
  <2>4. CASE AppendToStreamFile
    BY <2>4, StreamStep
  <2>5. CASE AppendIdempotencyRecord
    BY <2>5, RecordStep
  <2>6. CASE StartCompaction \/ CompactionRefused \/ RepackIndex
    <3>1. UNCHANGED Durable
      BY <2>6 DEF StartCompaction, CompactionRefused, RepackIndex, files, Durable
    <3>. QED
      BY <3>1, LogStutter
  <2>7. CASE ClearPending
    BY <2>7, ClearStep
  <2>8. CASE Open \/ Crash \/ IoError \/ UNCHANGED vars
    <3>1. UNCHANGED Durable
      BY <2>8 DEF Open, OpenWithoutPending, OpenAndResume, OpenFails, Reset,
                  Crash, IoError, vars, files, Durable
    <3>. QED
      BY <3>1, LogStutter
  <2>. QED
    BY <2>1, <2>2, <2>3, <2>4, <2>5, <2>6, <2>7, <2>8 DEF Next, Call, Step
<1>. QED
  BY <1>1, LogInit, StoreInvariant, PTL DEF Spec, ImplementsLog, Log!Spec
=============================================================================
