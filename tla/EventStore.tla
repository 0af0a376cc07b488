----------------------------- MODULE EventStore -----------------------------
(***************************************************************************)
(* The file event store (packages/sim-core/src/fileEventStore.ts), one     *)
(* writer process over one directory.  A keyed append writes its request   *)
(* to a pending file (staging file, then rename), appends one compressed   *)
(* frame to the stream file, appends an idempotency record to the index    *)
(* file, repacks the index when it has grown enough, and removes the       *)
(* pending file.  The process may die between any two of these file        *)
(* operations, or in the middle of a write; the constructor of the next    *)
(* process rolls a pending append forward.                                 *)
(*                                                                         *)
(* Every caller in the repository passes an idempotency key and an         *)
(* expectedVersion and numbers its events from expectedVersion + 1, so a   *)
(* request is the four fields below, events stand for their fingerprint,   *)
(* and an event's sequence is its position in the stream.  The writer      *)
(* format is the default one (compact-deflate-frames-v1): a batch is one   *)
(* frame and is read whole or not at all.                                  *)
(***************************************************************************)
EXTENDS Naturals, Sequences, FiniteSets

CONSTANTS
  Stream,               \* event stream names
  Key,                  \* idempotency keys
  Version,              \* bound: the versions a request may expect
  Event, Batch,         \* events, and the batches callers append
  NoRequest,            \* no pending file, no record, no call in flight
  CompactionIncrement,  \* idempotencyCompactionIncrementBytes, in frames
  TornWrites,           \* whether a write may be cut short
  MaxCrashes,           \* bound: crashes of the process
  MaxIoErrors           \* bound: file operations that throw

Request ==
  [key : Key, stream : Stream, expectedVersion : Version, events : Batch]

ASSUME EventStoreAssumption ==
  /\ Version \subseteq Nat
  /\ \A b \in Batch : b \in Seq(Event) /\ b # << >>
  /\ NoRequest \notin Request
  /\ CompactionIncrement \in Nat \ {0}
  /\ TornWrites \in BOOLEAN
  /\ MaxCrashes \in Nat /\ MaxIoErrors \in Nat

VARIABLES
  \* The directory.
  streams,      \* the complete frames of every stream file
  tornStreams,  \* the stream files that end in an incomplete frame
  index,        \* the complete records of the idempotency index
  indexSize,    \* the length of the index file, in frames
  indexTorn,    \* whether the index file ends in an incomplete frame
  staging,      \* whether append-transaction.pending.json.staging exists
  pending,      \* the request in append-transaction.pending.json
  compacting,   \* whether idempotency.deflate.compacting exists
  \* The process.
  phase,           \* the next file operation of the call in flight
  request,         \* the request of that call
  recovering,      \* whether the constructor is making it
  nextCompaction,  \* nextCompactionByteLength, in frames
  \* What callers saw.
  outcome,       \* how the last call ended
  acknowledged,  \* the requests answered with success
  crashes, ioErrors

files == <<streams, tornStreams, index, indexSize, indexTorn, staging,
           pending, compacting>>
process == <<phase, request, recovering, nextCompaction>>
faults == <<crashes, ioErrors>>
vars == <<files, process, outcome, acknowledged, faults>>

\* The file operation the process executes next.
Phase == {"down", "idle", "rename", "append", "record", "compact", "repack",
          "clear"}

Outcome == {"none", "appended", "replayed", "key-reused", "wrong-version",
            "blocked", "unreadable", "inconsistent", "io-error"}

-----------------------------------------------------------------------------
(* The version a request leaves its stream at, and whether the stream      *)
(* already holds the request's events at their sequences.                  *)
StreamVersion(r) == r.expectedVersion + Len(r.events)

Holds(r) ==
  /\ Len(streams[r.stream]) >= StreamVersion(r)
  /\ SubSeq(streams[r.stream], r.expectedVersion + 1, StreamVersion(r)) = r.events

\* Both files are scanned to their end; an incomplete frame makes refresh throw.
Readable(r) == ~indexTorn /\ r.stream \notin tornStreams

\* A call returns or throws: the process is ready for the next one.
Finish(result) ==
  /\ phase' = IF recovering THEN "down" ELSE "idle"
  /\ request' = NoRequest
  /\ recovering' = FALSE
  /\ outcome' = result
  /\ UNCHANGED nextCompaction

\* The call goes on with its next file operation.
Continue(next) ==
  /\ phase' = next
  /\ UNCHANGED <<request, recovering, outcome>>

Init ==
  /\ streams = [s \in Stream |-> << >>]
  /\ tornStreams = {}
  /\ index = [k \in Key |-> NoRequest]
  /\ indexSize = 0
  /\ indexTorn = FALSE
  /\ staging = FALSE
  /\ pending = NoRequest
  /\ compacting = FALSE
  /\ phase = "down"
  /\ request = NoRequest
  /\ recovering = FALSE
  /\ nextCompaction = CompactionIncrement
  /\ outcome = "none"
  /\ acknowledged = {}
  /\ crashes = 0
  /\ ioErrors = 0

-----------------------------------------------------------------------------
(* appendToStream, up to its first write.                                  *)

\* The key is known for the same request: answer without writing.
ReplayAppend(r) ==
  /\ phase = "idle"
  /\ Readable(r)
  /\ index[r.key] = r
  /\ Finish("replayed")
  /\ acknowledged' = acknowledged \cup {r}
  /\ UNCHANGED <<files, faults>>

\* Mutant: writePendingAppend replaces a pending file it finds.
RefusalWithoutPending(r) ==
  IF indexTorn THEN "unreadable"
  ELSE IF index[r.key] # NoRequest /\ index[r.key] # r THEN "key-reused"
  ELSE IF r.stream \in tornStreams THEN "unreadable"
  ELSE IF r.expectedVersion # Len(streams[r.stream]) THEN "wrong-version"
  ELSE "none"

\* The checks before the first write, in the order of the code.
Refusal(r) ==
  IF indexTorn THEN "unreadable"
  ELSE IF index[r.key] # NoRequest /\ index[r.key] # r THEN "key-reused"
  ELSE IF r.stream \in tornStreams THEN "unreadable"
  ELSE IF r.expectedVersion # Len(streams[r.stream]) THEN "wrong-version"
  ELSE IF pending # NoRequest THEN "blocked"
  ELSE "none"

RefuseAppend(r) ==
  /\ phase = "idle"
  /\ ~(Readable(r) /\ index[r.key] = r)
  /\ Refusal(r) # "none"
  /\ Finish(Refusal(r))
  /\ UNCHANGED <<files, acknowledged, faults>>

\* writePendingAppend, its first half: the staging file.
StageAppend(r) ==
  /\ phase = "idle"
  /\ index[r.key] = NoRequest
  /\ Refusal(r) = "none"
  /\ staging' = TRUE
  /\ request' = r
  /\ phase' = "rename"
  /\ UNCHANGED <<streams, tornStreams, index, indexSize, indexTorn, pending,
                 compacting, recovering, nextCompaction, outcome,
                 acknowledged, faults>>

-----------------------------------------------------------------------------
(* The file operations of an append in flight.                             *)

\* writePendingAppend, its second half: from here on the append is durable.
RenamePending ==
  /\ phase = "rename"
  /\ staging' = FALSE
  /\ pending' = request
  /\ Continue("append")
  /\ UNCHANGED <<streams, tornStreams, index, indexSize, indexTorn,
                 compacting, nextCompaction, acknowledged, faults>>

\* IndexedEventStreamFile.append: one frame at the end of the stream file.
AppendToStreamFile ==
  /\ phase = "append"
  /\ streams' = [streams EXCEPT ![request.stream] = @ \o request.events]
  /\ Continue("record")
  /\ UNCHANGED <<tornStreams, index, indexSize, indexTorn, staging, pending,
                 compacting, nextCompaction, acknowledged, faults>>

\* FileEventIdempotencyIndex.append, and whether a compaction is due.
AppendIdempotencyRecord ==
  /\ phase = "record"
  /\ index' = [index EXCEPT ![request.key] = request]
  /\ indexSize' = indexSize + 1
  /\ Continue(IF indexSize + 1 >= nextCompaction THEN "compact" ELSE "clear")
  /\ UNCHANGED <<streams, tornStreams, indexTorn, staging, pending,
                 compacting, nextCompaction, acknowledged, faults>>

\* compactSingleWriterIfNeeded creates its staging file, and throws if there
\* is one already.
StartCompaction ==
  /\ phase = "compact"
  /\ ~compacting
  /\ compacting' = TRUE
  /\ Continue("repack")
  /\ UNCHANGED <<streams, tornStreams, index, indexSize, indexTorn, staging,
                 pending, nextCompaction, acknowledged, faults>>

CompactionRefused ==
  /\ phase = "compact"
  /\ compacting
  /\ Finish("blocked")
  /\ UNCHANGED <<files, acknowledged, faults>>

\* The records are copied into one batched frame that replaces the index.
RepackIndex ==
  /\ phase = "repack"
  /\ compacting' = FALSE
  /\ indexSize' = 1
  /\ nextCompaction' = 1 + CompactionIncrement
  /\ Continue("clear")
  /\ UNCHANGED <<streams, tornStreams, index, indexTorn, staging, pending,
                 acknowledged, faults>>

\* clearPendingAppend, and appendToStream returns; the constructor's recovery
\* ends the same way and leaves the store open.
ClearPending ==
  /\ phase = "clear"
  /\ pending' = NoRequest
  /\ phase' = "idle"
  /\ request' = NoRequest
  /\ recovering' = FALSE
  /\ \/ /\ ~recovering
        /\ outcome' = "appended"
        /\ acknowledged' = acknowledged \cup {request}
     \/ /\ recovering
        /\ UNCHANGED <<outcome, acknowledged>>
  /\ UNCHANGED <<streams, tornStreams, index, indexSize, indexTorn, staging,
                 compacting, nextCompaction, faults>>

-----------------------------------------------------------------------------
(* Opening the store: the constructor and recoverPendingAppend.            *)

\* A new process; it has not refreshed any file yet.
Reset ==
  /\ nextCompaction' = CompactionIncrement
  /\ staging' = FALSE
  /\ UNCHANGED <<streams, tornStreams, index, indexSize, indexTorn, pending,
                 compacting, acknowledged, faults>>

\* Mutant: the constructor leaves a pending append where it is.
OpenWithoutRecovery ==
  /\ phase = "down"
  /\ phase' = "idle"
  /\ Reset
  /\ UNCHANGED <<request, recovering, outcome>>

OpenWithoutPending ==
  /\ phase = "down"
  /\ pending = NoRequest
  /\ phase' = "idle"
  /\ Reset
  /\ UNCHANGED <<request, recovering, outcome>>

\* Where recoverPendingAppend resumes an append the last process left.
ResumePhase(r) ==
  IF index[r.key] = r THEN "clear"
  ELSE IF Len(streams[r.stream]) = r.expectedVersion THEN "append"
  ELSE "record"

\* Mutant: a stream that already holds the events is taken for a conflict.
ResumableBeforeAppend(r) ==
  /\ Readable(r)
  /\ \/ index[r.key] = r
     \/ /\ index[r.key] = NoRequest
        /\ Len(streams[r.stream]) = r.expectedVersion

Resumable(r) ==
  /\ Readable(r)
  /\ \/ index[r.key] = r
     \/ /\ index[r.key] = NoRequest
        /\ \/ Len(streams[r.stream]) = r.expectedVersion
           \/ Holds(r)

OpenAndResume ==
  /\ phase = "down"
  /\ pending # NoRequest
  /\ Resumable(pending)
  /\ request' = pending
  /\ recovering' = TRUE
  /\ phase' = ResumePhase(pending)
  /\ Reset
  /\ UNCHANGED outcome

\* The constructor throws: the store cannot be opened.
OpenFails ==
  /\ phase = "down"
  /\ pending # NoRequest
  /\ ~Resumable(pending)
  /\ outcome' = IF Readable(pending) THEN "inconsistent" ELSE "unreadable"
  /\ Reset
  /\ UNCHANGED <<phase, request, recovering>>

-----------------------------------------------------------------------------
(* Faults.                                                                 *)

\* A write that is cut short leaves an incomplete frame behind.
MayTear ==
  \/ UNCHANGED <<tornStreams, indexTorn>>
  \/ /\ TornWrites
     /\ phase = "append"
     /\ tornStreams' = tornStreams \cup {request.stream}
     /\ UNCHANGED indexTorn
  \/ /\ TornWrites
     /\ phase = "record"
     /\ indexTorn' = TRUE
     /\ UNCHANGED tornStreams

Crash ==
  /\ phase # "down"
  /\ crashes < MaxCrashes
  /\ crashes' = crashes + 1
  /\ phase' = "down"
  /\ request' = NoRequest
  /\ recovering' = FALSE
  /\ MayTear
  /\ UNCHANGED <<streams, index, indexSize, staging, pending, compacting,
                 nextCompaction, outcome, acknowledged, ioErrors>>

\* A file operation throws (a full disk) and the call with it; a failed
\* compaction removes its staging file.
IoError ==
  /\ phase \notin {"down", "idle"}
  /\ ioErrors < MaxIoErrors
  /\ ioErrors' = ioErrors + 1
  /\ Finish("io-error")
  /\ MayTear
  /\ compacting' = (compacting /\ phase # "repack")
  /\ UNCHANGED <<streams, index, indexSize, staging, pending, acknowledged,
                 crashes>>

-----------------------------------------------------------------------------
Call(r) == ReplayAppend(r) \/ RefuseAppend(r) \/ StageAppend(r)

Step == RenamePending \/ AppendToStreamFile \/ AppendIdempotencyRecord
        \/ StartCompaction \/ CompactionRefused \/ RepackIndex \/ ClearPending

Open == OpenWithoutPending \/ OpenAndResume \/ OpenFails

Next == (\E r \in Request : Call(r)) \/ Step \/ Open \/ Crash \/ IoError

Spec == Init /\ [][Next]_vars

(***************************************************************************)
(* Fairness: an append is one synchronous call, so the process finishes    *)
(* it unless it dies, and the operator starts the server again.            *)
(***************************************************************************)
FairSpec == Spec /\ WF_vars(Step) /\ WF_vars(Open)

-----------------------------------------------------------------------------
(* Properties.                                                             *)

TypeOK ==
  /\ streams \in [Stream -> Seq(Event)]
  /\ tornStreams \subseteq Stream
  /\ index \in [Key -> Request \cup {NoRequest}]
  /\ indexSize \in Nat
  /\ indexTorn \in BOOLEAN
  /\ staging \in BOOLEAN
  /\ pending \in Request \cup {NoRequest}
  /\ compacting \in BOOLEAN
  /\ phase \in Phase
  /\ request \in Request \cup {NoRequest}
  /\ recovering \in BOOLEAN
  /\ nextCompaction \in Nat
  /\ outcome \in Outcome
  /\ acknowledged \subseteq Request
  /\ crashes \in 0..MaxCrashes
  /\ ioErrors \in 0..MaxIoErrors

(***************************************************************************)
(* Every idempotency record matches the stream it points into, so a        *)
(* replayed append can always be answered from it                          *)
(* (resolveCompactIdempotencyEvents never throws).                         *)
(***************************************************************************)
IndexMatchesStreams ==
  \A k \in Key : index[k] # NoRequest => index[k].key = k /\ Holds(index[k])

(***************************************************************************)
(* An append a caller was told about survives every crash: its events stay *)
(* in the stream and its key stays taken, by a record or by the pending    *)
(* file the next process will turn into one.                               *)
(***************************************************************************)
AcknowledgedIsDurable ==
  \A r \in acknowledged : Holds(r) /\ (index[r.key] = r \/ pending = r)

(***************************************************************************)
(* A pending append left behind by a crash or by a failed call is either   *)
(* wholly in its stream or not at all, and is the next thing to enter it:  *)
(* recovery never meets a stream that disagrees with it (the "does not     *)
(* match durable event stream" errors of recoverPendingAppend).            *)
(***************************************************************************)
PendingIsRecoverable ==
  pending # NoRequest =>
    /\ index[pending.key] \in {NoRequest, pending}
    /\ \/ Len(streams[pending.stream]) = pending.expectedVersion
       \/ /\ Len(streams[pending.stream]) = StreamVersion(pending)
          /\ Holds(pending)

(***************************************************************************)
(* The store is an idempotent log: an append happens, key and events       *)
(* together, at the rename of its pending file, whatever interrupts it     *)
(* afterwards.  The log is the streams with the pending append rolled      *)
(* forward.                                                                *)
(***************************************************************************)
RolledForward(s) ==
  IF /\ pending # NoRequest
     /\ pending.stream = s
     /\ Len(streams[s]) = pending.expectedVersion
  THEN streams[s] \o pending.events
  ELSE streams[s]

Committed(k) ==
  IF pending # NoRequest /\ pending.key = k THEN pending ELSE index[k]

Log == INSTANCE IdempotentLog WITH
  log <- [s \in Stream |-> RolledForward(s)],
  applied <- [k \in Key |-> Committed(k)]

ImplementsLog == Log!Spec

(***************************************************************************)
(* A store whose process died can be opened again, and its pending append  *)
(* is rolled forward, once crashes stop: unless the dead process left one  *)
(* of the files torn, nothing it left keeps the store closed.              *)
(***************************************************************************)
EventuallyOpen ==
  (phase = "down") ~>
    \/ phase = "idle" /\ pending = NoRequest
    \/ tornStreams # {} \/ indexTorn

(***************************************************************************)
(* A killed process blocks nobody with its pending append: an append is    *)
(* refused over files that another left only behind an I/O error, or when  *)
(* a process was killed while it repacked the index, whose staging file    *)
(* nothing removes (README.md: "rolls it forward on restart").             *)
(***************************************************************************)
BlockedByErrorOrRepack ==
  outcome = "blocked" => ioErrors > 0 \/ compacting
=============================================================================
