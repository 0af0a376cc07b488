---------------------------- MODULE CommandStore ----------------------------
(***************************************************************************)
(* The file command store (packages/sim-core/src/fileCommandStore.ts) and  *)
(* the API port that submits commands to it (apps/api/src/                 *)
(* commandStoreSubmission.ts).  A submission appends one line to the       *)
(* stream file and then one line to the idempotency file, with no pending  *)
(* file around the two; the process may die between them or, with          *)
(* TornWrites, inside a write.  A file's unfinished last line is not read  *)
(* (AppendOnlyJsonLinesFile), but the next append goes on in that line and *)
(* makes it one that no reader can parse.                                  *)
(***************************************************************************)
EXTENDS Naturals, Sequences, FiniteSets

CONSTANTS
  Stream,     \* command stream names
  Request,    \* what clients submit, and submit again until it is answered
  NoVersion,  \* undefined expectedVersion
  NoAnswer,   \* no idempotency record
  TornWrites, \* whether a write may be cut short
  MaxCrashes  \* bound

\* The key of the request's idempotency record, the command's fingerprint, its
\* stream and the version it expects.
ASSUME CommandStoreAssumption ==
  /\ Request # {}
  /\ \A r \in Request :
       /\ DOMAIN r = {"key", "command", "stream", "expectedVersion"}
       /\ r.stream \in Stream
       /\ r.expectedVersion \in Nat \cup {NoVersion}
  /\ NoAnswer \notin [request : Request, sequence : Nat]
  /\ NoVersion \notin Nat
  /\ TornWrites \in BOOLEAN /\ MaxCrashes \in Nat

VARIABLES
  commandStreams,  \* the complete lines of every stream file
  idempotency,     \* the records of the idempotency file
  unfinished,      \* the files that end in an unfinished line
  unreadable,      \* the files with a line that does not parse
  phase,           \* "idle", "index" between the appends, "answer", "down"
  request,         \* the request of the call in flight
  answers,         \* every answer a client was given
  crashes

vars == <<commandStreams, idempotency, unfinished, unreadable, phase, request,
          answers, crashes>>

IndexFile == "idempotency.jsonl"
File == Stream \cup {IndexFile}
Key == {r.key : r \in Request}
Answer == [request : Request, sequence : Nat]

Init ==
  /\ commandStreams = [s \in Stream |-> << >>]
  /\ idempotency = [k \in Key |-> NoAnswer]
  /\ unfinished = {} /\ unreadable = {}
  /\ phase = "idle" /\ request = CHOOSE r \in Request : TRUE
  /\ answers = {}
  /\ crashes = 0

\* Mutant: a known key is refused.
ReplayRefused(r) ==
  /\ phase = "idle" /\ IndexFile \notin unreadable
  /\ idempotency[r.key] # NoAnswer /\ idempotency[r.key].request = r
  /\ UNCHANGED vars

\* The key is known for the same request: the first answer again.  (Known for
\* another request, a submission throws and changes nothing.)
Replay(r) ==
  /\ phase = "idle" /\ IndexFile \notin unreadable
  /\ idempotency[r.key] # NoAnswer /\ idempotency[r.key].request = r
  /\ answers' = answers \cup {idempotency[r.key]}
  /\ UNCHANGED <<commandStreams, idempotency, unfinished, unreadable, phase,
                 request, crashes>>

\* The submission passes every check in front of the first append.
Accepts(r) ==
  /\ phase = "idle"
  /\ unreadable \cap {IndexFile, r.stream} = {}
  /\ idempotency[r.key] = NoAnswer
  /\ r.expectedVersion \in {NoVersion, Len(commandStreams[r.stream])}

\* A line is appended to a file that ends in a complete one.
AppendRecord(r) ==
  /\ Accepts(r) /\ r.stream \notin unfinished
  /\ commandStreams' = [commandStreams EXCEPT ![r.stream] = Append(@, r.command)]
  /\ phase' = "index" /\ request' = r
  /\ UNCHANGED <<idempotency, unfinished, unreadable, answers, crashes>>

\* The append completes an unfinished line, and reading the file back throws.
SpoilStream(r) ==
  /\ Accepts(r) /\ r.stream \in unfinished
  /\ unfinished' = unfinished \ {r.stream}
  /\ unreadable' = unreadable \cup {r.stream}
  /\ UNCHANGED <<commandStreams, idempotency, phase, request, answers, crashes>>

NewAnswer == [request |-> request, sequence |-> Len(commandStreams[request.stream])]

\* Mutant: the answer waits for no idempotency record.
IndexNothing ==
  /\ phase = "index" /\ IndexFile \notin unfinished
  /\ phase' = "answer"
  /\ UNCHANGED <<commandStreams, idempotency, unfinished, unreadable, request,
                 answers, crashes>>

AppendIdempotencyRecord ==
  /\ phase = "index" /\ IndexFile \notin unfinished
  /\ idempotency' = [idempotency EXCEPT ![request.key] = NewAnswer]
  /\ phase' = "answer"
  /\ UNCHANGED <<commandStreams, unfinished, unreadable, request, answers, crashes>>

\* The append completes an unfinished line, as above: the command is in its
\* stream and its client is told that the submission failed.
SpoilIndex ==
  /\ phase = "index" /\ IndexFile \in unfinished
  /\ unfinished' = unfinished \ {IndexFile}
  /\ unreadable' = unreadable \cup {IndexFile}
  /\ phase' = "idle"
  /\ UNCHANGED <<commandStreams, idempotency, request, answers, crashes>>

\* The response reaches the client.
Respond ==
  /\ phase = "answer"
  /\ answers' = answers \cup {NewAnswer}
  /\ phase' = "idle"
  /\ UNCHANGED <<commandStreams, idempotency, unfinished, unreadable, request,
                 crashes>>

\* The process dies in front of a write or inside it.
Dies ==
  /\ crashes < MaxCrashes
  /\ crashes' = crashes + 1
  /\ phase' = "down"
  /\ UNCHANGED <<commandStreams, idempotency, unreadable, request, answers>>

Crash == phase # "down" /\ Dies /\ UNCHANGED unfinished

CrashInWrite ==
  /\ TornWrites
  /\ \/ phase = "index" /\ unfinished' = unfinished \cup {IndexFile}
     \/ \E r \in Request :
          Accepts(r) /\ unfinished' = unfinished \cup {r.stream}
  /\ Dies

Restart ==
  /\ phase = "down"
  /\ phase' = "idle"
  /\ UNCHANGED <<commandStreams, idempotency, unfinished, unreadable, request,
                 answers, crashes>>

Finish == AppendIdempotencyRecord \/ SpoilIndex \/ Respond
Submit(r) == Replay(r) \/ AppendRecord(r) \/ SpoilStream(r)

Next ==
  \/ \E r \in Request : Submit(r)
  \/ Finish \/ Crash \/ CrashInWrite \/ Restart

Spec == Init /\ [][Next]_vars

\* A call runs to its end, a dead process is restarted, clients submit again.
FairSpec ==
  /\ Spec
  /\ WF_vars(Finish) /\ WF_vars(Restart)
  /\ \A r \in Request : WF_vars(Submit(r))

-----------------------------------------------------------------------------
\* Files, records and answers keep their types.
TypeOK ==
  /\ \A s \in Stream : \A n \in 1..Len(commandStreams[s]) :
       \E r \in Request : r.stream = s /\ r.command = commandStreams[s][n]
  /\ idempotency \in [Key -> Answer \cup {NoAnswer}]
  /\ unfinished \subseteq File /\ unreadable \subseteq File
  /\ phase \in {"idle", "index", "answer", "down"}
  /\ request \in Request
  /\ answers \subseteq Answer

Stands(answer) ==
  LET s == answer.request.stream
  IN  /\ answer.sequence \in 1..Len(commandStreams[s])
      /\ commandStreams[s][answer.sequence] = answer.request.command

\* An answered submission is in its stream, at the sequence of the answer.
AnsweredIsInStream == \A answer \in answers : Stands(answer)

\* What a later submission will be answered is in the stream, too.
RecordsStand ==
  \A k \in Key : idempotency[k] # NoAnswer => Stands(idempotency[k])

\* However often a client submits, crashes or not, every answer to one key
\* names the same record.
OneAnswerPerKey ==
  \A a, b \in answers : a.request.key = b.request.key => a = b

\* Every request that expects no version is answered at last, unless another
\* one has taken its key or a write that was cut short has spoiled a file it
\* needs: a kill alone never shuts a client out.
EventuallyAnswered ==
  \A r \in Request :
    r.expectedVersion = NoVersion =>
      <>(\/ \E answer \in answers : answer.request.key = r.key
         \/ unreadable \cap {IndexFile, r.stream} # {})
=============================================================================
