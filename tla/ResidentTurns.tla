----------------------------- MODULE ResidentTurns -----------------------------
(***************************************************************************)
(* The opportunities of the residents of an open town                      *)
(* (apps/worker/src/openSociety/runtime.ts, scheduleTools.ts and           *)
(* informationTools.ts) and what drives them: the run loop of              *)
(* apps/residents/src/cli.ts, one turn after the other, or an operator at  *)
(* the admin endpoints of server.ts, with several turns open at a time.    *)
(*                                                                         *)
(* Every method of the runtime is one commit of a journal that is written  *)
(* before it is answered: a process that is killed loses the place in its  *)
(* loop and nothing else, and leaves a turn open.                          *)
(*                                                                         *)
(* Times are told by what is left until they come.  A resident's reminders *)
(* and the end of its activity do the same to it: an alarm stands for the  *)
(* next of them.                                                           *)
(***************************************************************************)
EXTENDS Integers

CONSTANTS
  ResidentCount,    \* manifest.residents.length
  Cadence,          \* policy.opportunityCadenceMs
  Intervals,        \* what freeActivityIntervalMs may be
  Horizon,          \* bound: the latest time to wait or set an alarm for
  MaxCalls,         \* policy.maxCallsPerTurn
  DirectWake,       \* the residents that private messages wake
  MaxInterruptions  \* bound: kills, drivers that throw, sessions of an operator

ASSUME ResidentTurnsAssumption ==
  /\ {ResidentCount, Cadence, Horizon, MaxCalls} \subseteq Nat \ {0}
  /\ Intervals # {} /\ Intervals \subseteq 1..Horizon
  /\ DirectWake \subseteq 1..ResidentCount
  /\ MaxInterruptions \in Nat

(* By their place in the order of ids. *)
Residents == 1..ResidentCount
NobodyThere == 0

VARIABLES
  delay,          \* [Residents -> until nextWakeAt]
  wakeReason,     \* [Residents -> "message" | "other"]: all finishTurn asks of it
  turn,           \* [Residents -> the turn of activeTurnId]
  rank,           \* [Residents -> the place in the order of lastTurnOrdinal]
  alarm,          \* [Residents -> until a reminder or an activity's end, 0: none]
  process,        \* "off" | "pick" | "turn" | "cadence" | "stopping" | "serve"
  current,        \* the resident in the run loop's turn
  interruptions,  \* how many of MaxInterruptions have happened
  owed,           \* the residents something has happened to that must wake them
  passed,         \* [Residents -> those that began a turn while it was due]
  overtaken       \* somebody was passed by the same resident twice

clock == <<delay, alarm>>
loop == <<process, current, interruptions>>
history == <<owed, passed, overtaken>>
vars == <<clock, wakeReason, turn, rank, loop, history>>

Open == {"running", "waiting", "budget-exhausted"}
Ended == {"completed", "waiting", "budget-exhausted", "provider-error"}

(* "finished" is the journal's record of `<turn id>-finished`. *)
Turn == [status : Open \cup Ended \cup {"none"}, calls : 0..MaxCalls,
         until : 0..Horizon, finished : BOOLEAN]
NoTurn == [status |-> "none", calls |-> 0, until |-> 0, finished |-> TRUE]

Due == {r \in Residents : delay[r] = 0}

\* Mutant: the first by id.
FirstResident(r) == r \in Due /\ \A s \in Due : r <= s

(* nextResident: the due resident whose last turn began longest ago. *)
NextResident(r) == r \in Due /\ \A s \in Due : rank[r] <= rank[s]

Init ==
  /\ delay = [r \in Residents |-> 0]
  /\ wakeReason = [r \in Residents |-> "other"]
  /\ turn = [r \in Residents |-> NoTurn]
  /\ rank = [r \in Residents |-> r]
  /\ alarm = [r \in Residents |-> 0]
  /\ process = "off" /\ current = NobodyThere
  /\ interruptions = 0
  /\ owed = {}
  /\ passed = [r \in Residents |-> {}]
  /\ overtaken = FALSE

-------------------------------------------------------------------------------
(* What the methods of the runtime do to its state. *)

(* beginTurn: a turn that a killed driver left running is taken up again.  *)
Begins(r) ==
  /\ owed' = owed \ {r}
  /\ IF turn[r].status = "running"
       THEN UNCHANGED <<wakeReason, turn, rank>>
       ELSE /\ turn' = [turn EXCEPT ![r] = [status |-> "running", calls |-> 0,
                                            until |-> 0, finished |-> FALSE]]
            /\ wakeReason' = [wakeReason EXCEPT ![r] = "other"]
            /\ rank' = [s \in Residents |-> IF s = r THEN ResidentCount
                                      ELSE IF rank[s] > rank[r] THEN rank[s] - 1
                                      ELSE rank[s]]
  /\ UNCHANGED clock

(* Of a turn that is over, its status is all that anything looks at. *)
EndedAs(t, status) ==
  [status |-> IF status # "provider-error" /\ t.status # "running"
                THEN t.status ELSE status,
   calls |-> 0, until |-> 0, finished |-> TRUE]

\* Mutant: the end of a turn looks at no message.
FinishesRegardless(r, status) ==
  /\ turn[r].status # "none"
  /\ IF turn[r].finished
       THEN UNCHANGED <<delay, turn>>
       ELSE /\ turn' = [turn EXCEPT ![r] = EndedAs(turn[r], status)]
            /\ \E interval \in Intervals :
                 delay' = [delay EXCEPT ![r] =
                   IF turn[r].status = "waiting" THEN turn[r].until ELSE interval]
  /\ UNCHANGED <<wakeReason, rank, alarm, owed>>

\* Mutant: a turn that is finished already is finished again.
FinishesAgain(r, status) ==
  /\ turn[r].status # "none"
  /\ turn' = [turn EXCEPT ![r] = EndedAs(turn[r], status)]
  /\ \E interval \in Intervals :
       delay' = [delay EXCEPT ![r] =
         IF wakeReason[r] = "message" THEN 0
         ELSE IF turn[r].status = "waiting" THEN turn[r].until
         ELSE interval]
  /\ UNCHANGED <<wakeReason, rank, alarm, owed>>

(* finishTurn; the journal answers a turn that is finished already. *)
Finishes(r, status) ==
  /\ turn[r].status # "none"
  /\ IF turn[r].finished
       THEN UNCHANGED <<delay, turn>>
       ELSE /\ turn' = [turn EXCEPT ![r] = EndedAs(turn[r], status)]
            /\ \E interval \in Intervals :
                 delay' = [delay EXCEPT ![r] =
                   IF wakeReason[r] = "message" THEN 0
                   ELSE IF turn[r].status = "waiting" THEN turn[r].until
                   ELSE interval]
  /\ UNCHANGED <<wakeReason, rank, alarm, owed>>

(* advanceTime: what comes due wakes its resident, in a turn or not; in a  *)
(* turn it takes the place of a message, and is gone when the turn ends.   *)
Advances(d) ==
  LET left(time) == IF time > d THEN time - d ELSE 0
      woken == {r \in Residents : alarm[r] \in 1..d} IN
  /\ delay' = [r \in Residents |-> IF r \in woken THEN 0 ELSE left(delay[r])]
  /\ alarm' = [r \in Residents |-> left(alarm[r])]
  /\ wakeReason' = [r \in Residents |-> IF r \in woken THEN "other" ELSE wakeReason[r]]
  /\ turn' = [r \in Residents |-> [turn[r] EXCEPT !.until = left(@)]]
  /\ owed' = (owed \ woken) \cup {r \in woken : turn[r].finished}
  /\ UNCHANGED rank

-------------------------------------------------------------------------------
(* The capabilities a resident invokes in its turn. *)

Call(r) == [turn EXCEPT ![r].calls = @ + 1]
MayCall(r) == turn[r].status = "running" /\ turn[r].calls < MaxCalls

(* Anything that is no business of the scheduler. *)
InvokeOther(r) ==
  /\ MayCall(r)
  /\ turn' = Call(r)
  /\ UNCHANGED <<clock, wakeReason, rank, loop, history>>

RefuseCall(r) ==
  /\ turn[r].status = "running" /\ turn[r].calls = MaxCalls
  /\ turn' = [turn EXCEPT ![r].status = "budget-exhausted"]
  /\ UNCHANGED <<clock, wakeReason, rank, loop, history>>

SendMessage(r, receiver) ==
  /\ MayCall(r)
  /\ turn' = Call(r)
  /\ IF receiver \in DirectWake
       THEN /\ delay' = [delay EXCEPT ![receiver] = 0]
            /\ wakeReason' = [wakeReason EXCEPT ![receiver] = "message"]
            /\ owed' = owed \cup {receiver}
       ELSE UNCHANGED <<delay, wakeReason, owed>>
  /\ UNCHANGED <<alarm, rank, loop, passed, overtaken>>

ScheduleWait(r, until) ==
  /\ MayCall(r)
  /\ delay' = [delay EXCEPT ![r] = until]
  /\ wakeReason' = [wakeReason EXCEPT ![r] = "other"]
  /\ turn' = [turn EXCEPT ![r] = [turn[r] EXCEPT !.status = "waiting",
                                                 !.calls = @ + 1, !.until = until]]
  /\ owed' = owed \ {r}
  /\ UNCHANGED <<alarm, rank, loop, passed, overtaken>>

(* schedule.remind, schedule.cancel, and actions that take their time. *)
SetAlarm(r, time) ==
  /\ MayCall(r)
  /\ turn' = Call(r)
  /\ alarm' = [alarm EXCEPT ![r] = IF @ \in 1..time THEN @ ELSE time]
  /\ UNCHANGED <<delay, wakeReason, rank, loop, history>>

Invokes(r) ==
  \/ InvokeOther(r) \/ RefuseCall(r)
  \/ \E receiver \in Residents : SendMessage(r, receiver)
  \/ \E time \in 1..Horizon : ScheduleWait(r, time)
  \/ \E time \in 0..Horizon : SetAlarm(r, time)

-------------------------------------------------------------------------------
(* The run loop. *)

(* Who is due while another begins a turn of its own has been passed by it. *)
Passes(r) ==
  LET waiting == Due \ {r}
      anew == turn[r].status # "running" IN
  /\ passed' = [s \in Residents |->
       IF s \notin waiting THEN {}
       ELSE IF anew THEN passed[s] \cup {r} ELSE passed[s]]
  /\ overtaken' = (overtaken \/ (anew /\ \E s \in waiting : r \in passed[s]))

BeginNext(r) ==
  /\ process = "pick" /\ NextResident(r)
  /\ Begins(r) /\ Passes(r)
  /\ process' = "turn" /\ current' = r
  /\ UNCHANGED interruptions

(* Nobody is due: on to the next that will be. *)
NextWake(d) ==
  LET wakes == {delay[r] : r \in Residents} \cup {alarm[r] : r \in Residents} IN
  d \in wakes /\ \A wake \in wakes \ {0} : d <= wake

JumpAhead(d) ==
  /\ process = "pick" /\ Due = {} /\ NextWake(d)
  /\ Advances(d)
  /\ UNCHANGED <<loop, passed, overtaken>>

(* The model ends its turn, runs into the timeout, or fails. *)
EndTurn(status) ==
  /\ process = "turn"
  /\ Finishes(current, status)
  /\ process' = IF status = "provider-error" THEN "stopping" ELSE "cadence"
  /\ current' = NobodyThere
  /\ UNCHANGED <<interruptions, passed, overtaken>>

\* Mutant: the clock moves only when nobody is due.
SkipCadence ==
  /\ process \in {"cadence", "stopping"}
  /\ process' \in IF process = "stopping" THEN {"off"} ELSE {"pick", "off"}
  /\ UNCHANGED <<clock, wakeReason, turn, rank, current, interruptions, history>>

(* On to the next, unless that was the last of the turns asked for. *)
AdvanceCadence ==
  /\ process \in {"cadence", "stopping"}
  /\ Advances(Cadence)
  /\ process' \in IF process = "stopping" THEN {"off"} ELSE {"pick", "off"}
  /\ UNCHANGED <<current, interruptions, passed, overtaken>>

Interrupted == interruptions < MaxInterruptions /\ interruptions' = interruptions + 1

(* The driver throws: its turn is finished as failed, and time stands still. *)
DriverThrows ==
  /\ process = "turn" /\ Interrupted
  /\ Finishes(current, "provider-error")
  /\ process' = "off" /\ current' = NobodyThere
  /\ UNCHANGED <<passed, overtaken>>

Kill ==
  /\ process # "off" /\ Interrupted
  /\ process' = "off" /\ current' = NobodyThere
  /\ UNCHANGED <<clock, wakeReason, turn, rank, history>>

StartRun ==
  /\ process = "off"
  /\ process' = "pick"
  /\ UNCHANGED <<clock, wakeReason, turn, rank, current, interruptions, history>>

-------------------------------------------------------------------------------
(* The server alone: an operator begins and finishes turns and moves the   *)
(* clock, in any order.  `call` and `advance` are short sessions of it.    *)

StartServe ==
  /\ process = "off" /\ Interrupted
  /\ process' = "serve"
  /\ UNCHANGED <<clock, wakeReason, turn, rank, current, history>>

AdminStart(r) ==
  /\ process = "serve"
  /\ Begins(r)
  /\ passed' = [passed EXCEPT ![r] = {}]
  /\ UNCHANGED <<loop, overtaken>>

AdminFinish(r) ==
  /\ process = "serve"
  /\ Finishes(r, "completed")
  /\ UNCHANGED <<loop, passed, overtaken>>

AdminAdvance(d) ==
  /\ process = "serve"
  /\ Advances(d)
  /\ UNCHANGED <<loop, passed, overtaken>>

StopServe ==
  /\ process = "serve"
  /\ process' = "off"
  /\ UNCHANGED <<clock, wakeReason, turn, rank, current, interruptions, history>>

Acts(r) == (process = "turn" /\ current = r) \/ process = "serve"

Next ==
  \/ StartRun \/ AdvanceCadence
  \/ \E status \in {"completed", "provider-error"} : EndTurn(status)
  \/ DriverThrows \/ Kill
  \/ StartServe \/ StopServe
  \/ \E r \in Residents :
       BeginNext(r) \/ (Acts(r) /\ Invokes(r)) \/ AdminStart(r) \/ AdminFinish(r)
  \/ \E d \in 1..Horizon : JumpAhead(d) \/ AdminAdvance(d)

Spec == Init /\ [][Next]_vars

(***************************************************************************)
(* A turn ends, by its timeout if not before; the loop goes on, and an     *)
(* operator runs it again.                                                 *)
(***************************************************************************)
FairSpec ==
  /\ Spec
  /\ WF_vars(StartRun) /\ WF_vars(AdvanceCadence)
  /\ WF_vars((\E r \in Residents : BeginNext(r)) \/ \E d \in 1..Horizon : JumpAhead(d))
  /\ WF_vars(\E status \in {"completed", "provider-error"} : EndTurn(status))
  /\ WF_vars(StopServe)

-------------------------------------------------------------------------------
TypeOK ==
  /\ delay \in [Residents -> 0..Horizon]
  /\ wakeReason \in [Residents -> {"message", "other"}]
  /\ turn \in [Residents -> Turn]
  /\ rank \in [Residents -> Residents]
  /\ \A r, s \in Residents : rank[r] = rank[s] => r = s
  /\ alarm \in [Residents -> 0..Horizon]
  /\ process \in {"off", "pick", "turn", "cadence", "stopping", "serve"}
  /\ current \in Residents \cup {NobodyThere}
  /\ interruptions \in 0..MaxInterruptions
  /\ owed \subseteq Residents
  /\ passed \in [Residents -> SUBSET Residents]
  /\ overtaken \in BOOLEAN

(* A message makes its receiver due, and so does a reminder or the end of  *)
(* an activity between two turns, and due it stays until its next turn     *)
(* begins: the end of a turn that was open when the message came, a turn   *)
(* finished twice, the turns of others and kills leave it the opportunity  *)
(* (specs/OPEN_AGENT_SOCIETY_V1.md, section 3, item 5).  Only its own wait *)
(* gives it up, and a reminder that goes off in the open turn.             *)
WokenIsDue == \A r \in owed : delay[r] = 0

(* The run loop is fair (item 1): while a resident is due, no other begins *)
(* two turns, interruptions and operators' sessions in between included.   *)
(* A turn taken up again after a kill counts as the one it goes on with.   *)
ServedInTurn == ~overtaken

(* A turn that is finished stays as it is, and finishing it once more does *)
(* not put off the resident's next.                                        *)
SettledTurnsStand ==
  [][\A r \in Residents :
       turn[r].finished =>
         \/ turn'[r] = turn[r] /\ delay'[r] <= delay[r]
         \/ turn'[r].status = "running" /\ ~turn'[r].finished]_vars

(* Every resident has its next opportunity some time, however the others   *)
(* keep each other awake with messages: the time that each opportunity     *)
(* takes brings the end of every wait.                                     *)
NobodyStarves == \A r \in Residents : []<>(current = r)
===============================================================================
