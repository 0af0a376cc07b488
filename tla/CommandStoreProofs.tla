------------------------- MODULE CommandStoreProofs -------------------------
(***************************************************************************)
(* Proofs about CommandStore, for every set of requests and streams and    *)
(* any number of crashes: what clients are answered is in the stream, and  *)
(* every answer to a key is the same.                                      *)
(***************************************************************************)
EXTENDS CommandStore, TLAPS

Command == {r.command : r \in Request}

(* The last record of the stream of the call in flight is its own.         *)
JustAppended ==
  LET s == request.stream
  IN  /\ Len(commandStreams[s]) > 0
      /\ commandStreams[s][Len(commandStreams[s])] = request.command

(* What the phase of the call in flight says about the two files.          *)
InFlight ==
  /\ phase \in {"index", "answer"} => JustAppended
  /\ phase = "index" => idempotency[request.key] = NoAnswer
  /\ phase = "answer" => idempotency[request.key] = NewAnswer

(* A record is kept under its own key, and every answer is a record.        *)
RecordsKeyed ==
  \A k \in Key : idempotency[k] # NoAnswer => idempotency[k].request.key = k

AnswersRecorded ==
  \A a \in answers : idempotency[a.request.key] = a

StreamsTyped ==
  /\ commandStreams \in [Stream -> Seq(Command)]
  /\ \A s \in Stream : \A n \in 1..Len(commandStreams[s]) :
       \E r \in Request : r.stream = s /\ r.command = commandStreams[s][n]

Typed ==
  /\ StreamsTyped
  /\ idempotency \in [Key -> Answer \cup {NoAnswer}]
  /\ unfinished \subseteq File /\ unreadable \subseteq File
  /\ phase \in {"idle", "index", "answer", "down"}
  /\ request \in Request
  /\ answers \subseteq Answer

CommandInv ==
  Typed /\ InFlight /\ RecordsStand /\ RecordsKeyed /\ AnswersRecorded

-----------------------------------------------------------------------------
LEMMA RequestTypes ==
  ASSUME NEW r \in Request
  PROVE  /\ r.key \in Key /\ r.stream \in Stream /\ r.command \in Command
         /\ r.stream \in File /\ IndexFile \in File
BY CommandStoreAssumption DEF Key, Command, File

LEMMA AnswerTypes ==
  ASSUME NEW a \in Answer
  PROVE  /\ a # NoAnswer /\ a.request \in Request /\ a.sequence \in Nat
         /\ a.request.key \in Key
BY RequestTypes, CommandStoreAssumption DEF Answer

LEMMA NewAnswerTypes ==
  ASSUME Typed
  PROVE  /\ NewAnswer \in Answer /\ NewAnswer # NoAnswer
         /\ NewAnswer.request = request
         /\ NewAnswer.sequence = Len(commandStreams[request.stream])
<1>1. request \in Request /\ request.stream \in Stream
  BY RequestTypes DEF Typed
<1>2. Len(commandStreams[request.stream]) \in Nat
  BY <1>1 DEF Typed, StreamsTyped
<1>3. NewAnswer \in Answer
  BY <1>1, <1>2 DEF NewAnswer, Answer
<1> QED
  BY <1>3, AnswerTypes DEF NewAnswer

LEMMA NewAnswerStands ==
  ASSUME Typed, JustAppended
  PROVE  Stands(NewAnswer)
<1>1. request.stream \in Stream
  BY RequestTypes DEF Typed
<1>2. Len(commandStreams[request.stream]) \in Nat
  BY <1>1 DEF Typed, StreamsTyped
<1> QED
  BY <1>2, NewAnswerTypes DEF Stands, JustAppended

LEMMA InitCommandInv == Init => CommandInv
<1> SUFFICES ASSUME Init PROVE CommandInv
  OBVIOUS
<1>1. request \in Request
  BY CommandStoreAssumption DEF Init
<1>2. StreamsTyped
  <2>1. \A s \in Stream : commandStreams[s] = << >>
    BY DEF Init
  <2>2. << >> \in Seq(Command) /\ Len(<< >>) = 0
    OBVIOUS
  <2>3. \A s \in Stream : 1..Len(commandStreams[s]) = {}
    BY <2>1, <2>2
  <2>4. commandStreams \in [Stream -> Seq(Command)]
    BY <2>2 DEF Init
  <2> QED
    BY <2>3, <2>4 DEF StreamsTyped
<1>3. Typed
  BY <1>1, <1>2 DEF Init, Typed
<1>4. InFlight /\ RecordsStand /\ RecordsKeyed /\ AnswersRecorded
  BY DEF Init, InFlight, RecordsStand, RecordsKeyed, AnswersRecorded
<1> QED
  BY <1>3, <1>4 DEF CommandInv

(* What the invariant says of files and answers holds while they stay.     *)
LEMMA FilesStay ==
  ASSUME CommandInv, UNCHANGED <<commandStreams, idempotency, answers, request>>,
         unfinished' \subseteq File, unreadable' \subseteq File,
         phase' \in {"idle", "down"}
  PROVE  CommandInv'
BY DEF CommandInv, Typed, StreamsTyped, InFlight, RecordsStand, Stands,
       RecordsKeyed, AnswersRecorded

(* A client is answered from the idempotency file.                         *)
LEMMA AnswerGiven ==
  ASSUME CommandInv, NEW k \in Key, idempotency[k] # NoAnswer,
         answers' = answers \cup {idempotency[k]},
         UNCHANGED <<commandStreams, idempotency, unfinished, unreadable, request>>,
         phase' = "idle"
  PROVE  CommandInv'
<1>1. idempotency[k] \in Answer /\ idempotency[k].request.key = k
  BY DEF CommandInv, Typed, RecordsKeyed
<1>2. Typed'
  BY <1>1 DEF CommandInv, Typed, StreamsTyped
<1>3. AnswersRecorded'
  BY <1>1 DEF CommandInv, AnswersRecorded
<1>4. RecordsStand' /\ RecordsKeyed' /\ InFlight'
  BY DEF CommandInv, RecordsStand, Stands, RecordsKeyed, InFlight
<1> QED
  BY <1>2, <1>3, <1>4 DEF CommandInv

LEMMA AppendRecordInv ==
  ASSUME CommandInv, NEW r \in Request, AppendRecord(r)
  PROVE  CommandInv'
<1> DEFINE s == commandStreams[r.stream]
           t == Append(s, r.command)
<1>1. /\ r.stream \in Stream /\ r.command \in Command /\ r.key \in Key
      /\ commandStreams \in [Stream -> Seq(Command)] /\ s \in Seq(Command)
  BY RequestTypes DEF CommandInv, Typed, StreamsTyped
<1>2. /\ commandStreams' = [commandStreams EXCEPT ![r.stream] = t]
      /\ phase' = "index" /\ request' = r /\ idempotency[r.key] = NoAnswer
      /\ UNCHANGED <<idempotency, unfinished, unreadable, answers>>
  BY DEF AppendRecord, Accepts
<1>3. /\ t \in Seq(Command) /\ Len(t) = Len(s) + 1 /\ Len(s) \in Nat
      /\ t[Len(s) + 1] = r.command
      /\ \A n \in 1..Len(s) : t[n] = s[n] /\ n \in 1..Len(t)
  BY <1>1
<1>4. \A n \in 1..Len(t) : n \in 1..Len(s) \/ n = Len(s) + 1
  BY <1>3
<1>5. /\ commandStreams'[r.stream] = t
      /\ \A u \in Stream : u # r.stream => commandStreams'[u] = commandStreams[u]
  BY <1>1, <1>2
<1> HIDE DEF s, t
<1>6. StreamsTyped'
  <2>1. commandStreams' \in [Stream -> Seq(Command)]
    BY <1>1, <1>2, <1>3
  <2>2. ASSUME NEW n \in 1..Len(t)
        PROVE  \E q \in Request : q.stream = r.stream /\ q.command = t[n]
    <3>1. CASE n = Len(s) + 1
      BY <1>3, <3>1
    <3>2. CASE n \in 1..Len(s)
      <4>1. \E q \in Request : q.stream = r.stream /\ q.command = s[n]
        BY <1>1, <3>2 DEF CommandInv, Typed, StreamsTyped, s
      <4> QED
        BY <1>3, <3>2, <4>1
    <3> QED
      BY <1>4, <3>1, <3>2
  <2>3. ASSUME NEW u \in Stream, NEW n \in 1..Len(commandStreams'[u])
        PROVE  \E q \in Request : q.stream = u /\ q.command = commandStreams'[u][n]
    BY <1>5, <2>2, <2>3 DEF CommandInv, Typed, StreamsTyped
  <2> QED
    BY <2>1, <2>3 DEF StreamsTyped
<1>7. Typed'
  BY <1>2, <1>6 DEF CommandInv, Typed
<1>8. ASSUME NEW a \in Answer, Stands(a) PROVE Stands(a)'
  <2>1. a.request.stream \in Stream
    BY RequestTypes, AnswerTypes
  <2>2. CASE a.request.stream = r.stream
    BY <1>3, <1>5, <1>8, <2>2 DEF Stands, s
  <2>3. CASE a.request.stream # r.stream
    BY <1>5, <1>8, <2>1, <2>3 DEF Stands
  <2> QED
    BY <2>2, <2>3
<1>9. RecordsStand'
  <2> SUFFICES ASSUME NEW k \in Key, idempotency[k] # NoAnswer
               PROVE  Stands(idempotency[k])'
    BY <1>2 DEF RecordsStand, Stands
  <2>1. idempotency[k] \in Answer /\ Stands(idempotency[k])
    BY DEF CommandInv, Typed, RecordsStand
  <2>2. Stands(idempotency[k])' <=> 
          /\ idempotency[k].sequence \in 1..Len(commandStreams'[idempotency[k].request.stream])
          /\ commandStreams'[idempotency[k].request.stream][idempotency[k].sequence]
               = idempotency[k].request.command
    BY <1>2 DEF Stands
  <2>3. PICK a \in Answer : a = idempotency[k]
    BY <2>1
  <2> QED
    BY <1>8, <2>1, <2>2, <2>3 DEF Stands
<1>10. InFlight'
  <2>1. JustAppended'
    BY <1>1, <1>2, <1>3, <1>5 DEF JustAppended
  <2> QED
    BY <1>2, <2>1 DEF InFlight
<1>11. RecordsKeyed' /\ AnswersRecorded'
  BY <1>2 DEF CommandInv, RecordsKeyed, AnswersRecorded
<1> QED
  BY <1>7, <1>9, <1>10, <1>11 DEF CommandInv

LEMMA AppendIdempotencyRecordInv ==
  ASSUME CommandInv, AppendIdempotencyRecord
  PROVE  CommandInv'
<1> DEFINE k == request.key
<1>1. /\ k \in Key /\ idempotency[k] = NoAnswer /\ JustAppended /\ Typed
      /\ idempotency \in [Key -> Answer \cup {NoAnswer}]
  BY RequestTypes DEF CommandInv, Typed, InFlight, AppendIdempotencyRecord
<1>2. /\ idempotency' = [idempotency EXCEPT ![k] = NewAnswer] /\ phase' = "answer"
      /\ UNCHANGED <<commandStreams, unfinished, unreadable, request, answers>>
  BY DEF AppendIdempotencyRecord
<1>3. /\ NewAnswer \in Answer /\ NewAnswer # NoAnswer
      /\ NewAnswer.request.key = k /\ Stands(NewAnswer)
  BY <1>1, NewAnswerTypes, NewAnswerStands
<1>4. /\ idempotency'[k] = NewAnswer
      /\ \A l \in Key : l # k => idempotency'[l] = idempotency[l]
  BY <1>1, <1>2
<1>5. NewAnswer' = NewAnswer
  BY <1>2 DEF NewAnswer
<1>6. Typed'
  BY <1>1, <1>2, <1>3 DEF Typed, StreamsTyped
<1>7. InFlight'
  BY <1>1, <1>2, <1>4, <1>5 DEF InFlight, JustAppended
<1>8. RecordsStand'
  <2>1. \A l \in Key : idempotency'[l] # NoAnswer => Stands(idempotency'[l])
    BY <1>3, <1>4 DEF CommandInv, RecordsStand
  <2> QED
    BY <1>2, <2>1 DEF RecordsStand, Stands
<1>9. RecordsKeyed'
  BY <1>3, <1>4 DEF CommandInv, RecordsKeyed
<1>10. AnswersRecorded'
  <2>1. \A a \in answers : a \in Answer /\ a # NoAnswer /\ a.request.key \in Key
    BY AnswerTypes DEF CommandInv, Typed
  <2>2. \A a \in answers : a.request.key # k
    BY <1>1, <2>1 DEF CommandInv, AnswersRecorded
  <2> QED
    BY <1>2, <1>4, <2>1, <2>2 DEF CommandInv, AnswersRecorded
<1> QED
  BY <1>6, <1>7, <1>8, <1>9, <1>10 DEF CommandInv

LEMMA NextKeepsCommandInv == CommandInv /\ [Next]_vars => CommandInv'
<1> SUFFICES ASSUME CommandInv, [Next]_vars PROVE CommandInv'
  OBVIOUS
<1>0. unfinished \subseteq File /\ unreadable \subseteq File /\ IndexFile \in File
      /\ request \in Request
  BY DEF CommandInv, Typed, File
<1>1. ASSUME NEW r \in Request, Replay(r) PROVE CommandInv'
  <2>1. r.key \in Key
    BY RequestTypes
  <2> QED
    BY <1>1, <2>1, AnswerGiven DEF Replay
<1>2. ASSUME NEW r \in Request, AppendRecord(r) PROVE CommandInv'
  BY <1>2, AppendRecordInv
<1>3. ASSUME NEW r \in Request, SpoilStream(r) PROVE CommandInv'
  <2>1. r.stream \in File
    BY RequestTypes
  <2>2. unfinished' \subseteq File /\ unreadable' \subseteq File /\ phase' = "idle"
    BY <1>0, <1>3, <2>1 DEF SpoilStream, Accepts
  <2> QED
    BY <1>3, <2>2, FilesStay DEF SpoilStream
<1>4. CASE AppendIdempotencyRecord
  BY <1>4, AppendIdempotencyRecordInv
<1>5. CASE SpoilIndex
  BY <1>0, <1>5, FilesStay DEF SpoilIndex
<1>6. CASE Respond
  <2>1. request.key \in Key
    BY <1>0, RequestTypes
  <2>2. idempotency[request.key] = NewAnswer /\ NewAnswer # NoAnswer
    BY <1>6, NewAnswerTypes DEF CommandInv, InFlight, Respond
  <2> QED
    BY <1>6, <2>1, <2>2, AnswerGiven DEF Respond
<1>7. CASE Crash
  BY <1>0, <1>7, FilesStay DEF Crash, Dies
<1>8. CASE CrashInWrite
  <2>1. unfinished' \subseteq File
    BY <1>0, <1>8, RequestTypes DEF CrashInWrite
  <2> QED
    BY <1>0, <1>8, <2>1, FilesStay DEF CrashInWrite, Dies
<1>9. CASE Restart
  BY <1>0, <1>9, FilesStay DEF Restart
<1>10. CASE UNCHANGED vars
  BY <1>10 DEF vars, CommandInv, Typed, StreamsTyped, InFlight, JustAppended,
               NewAnswer, RecordsStand, Stands, RecordsKeyed, AnswersRecorded
<1> QED
  BY <1>1, <1>2, <1>3, <1>4, <1>5, <1>6, <1>7, <1>8, <1>9, <1>10
  DEF Next, Submit, Finish

(* The inductive invariant of the command store.                           *)
THEOREM CommandInvariant == Spec => []CommandInv
  BY InitCommandInv, NextKeepsCommandInv, PTL DEF Spec

(* Files, records and answers keep their types.                            *)
THEOREM CommandTypesCorrect == Spec => []TypeOK
<1>1. CommandInv => TypeOK
  BY DEF CommandInv, Typed, StreamsTyped, TypeOK
<1> QED
  BY <1>1, CommandInvariant, PTL

(* What a later submission under a known key will be answered is in its    *)
(* stream, through crashes and files that end in the middle of a line.     *)
THEOREM RecordsKeepStanding == Spec => []RecordsStand
<1>1. CommandInv => RecordsStand
  BY DEF CommandInv
<1> QED
  BY <1>1, CommandInvariant, PTL

(* An answered submission is in its stream at the sequence it was told.    *)
THEOREM AnswersAreInStream == Spec => []AnsweredIsInStream
<1>1. CommandInv => AnsweredIsInStream
  <2> SUFFICES ASSUME CommandInv, NEW a \in answers PROVE Stands(a)
    BY DEF AnsweredIsInStream
  <2>1. a # NoAnswer /\ a.request.key \in Key
    BY AnswerTypes DEF CommandInv, Typed
  <2> QED
    BY <2>1 DEF CommandInv, RecordsStand, AnswersRecorded
<1> QED
  BY <1>1, CommandInvariant, PTL

(* However often a client submits, every answer to one key is the same.     *)
THEOREM KeysAnsweredAlike == Spec => []OneAnswerPerKey
<1>1. CommandInv => OneAnswerPerKey
  BY DEF CommandInv, AnswersRecorded, OneAnswerPerKey
<1> QED
  BY <1>1, CommandInvariant, PTL
=============================================================================
