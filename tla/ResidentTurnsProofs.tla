------------------------- MODULE ResidentTurnsProofs -------------------------
(***************************************************************************)
(* The safety properties of ResidentTurns, for any number of residents,    *)
(* any policy and any number of interruptions.                             *)
(***************************************************************************)
EXTENDS ResidentTurns, TLAPS

(* A wake-up that comes while a turn is open is kept by its reason, which  *)
(* is what finishTurn looks at.                                            *)
WakesAreKept ==
  \A r \in owed : delay[r] = 0 /\ (turn[r].finished \/ wakeReason[r] = "message")

FinishedTurnsAreOver ==
  \A r \in Residents :
    turn[r].finished => turn[r].status # "running" /\ turn[r].until = 0

(* Who passed a resident that was due stands behind it in the rotation.    *)
PassedStandAhead ==
  \A s \in Residents : \A r \in passed[s] : rank[s] < rank[r]

LoopHasResident == process = "turn" => current \in Residents

Inv ==
  /\ TypeOK /\ WakesAreKept /\ FinishedTurnsAreOver
  /\ PassedStandAhead /\ ~overtaken /\ LoopHasResident

-------------------------------------------------------------------------------
LEMMA Constants ==
  /\ ResidentCount \in Nat \ {0} /\ Cadence \in Nat \ {0}
  /\ Horizon \in Nat \ {0} /\ MaxCalls \in Nat \ {0}
  /\ Intervals \subseteq 1..Horizon /\ MaxInterruptions \in Nat
  /\ 1 \in Residents /\ NobodyThere \notin Residents
BY ResidentTurnsAssumption DEF ResidentTurnsAssumption, Residents, NobodyThere

LEMMA InitInv == Init => Inv
<1> SUFFICES ASSUME Init PROVE Inv
  OBVIOUS
<1>1. NoTurn \in Turn
  BY Constants DEF NoTurn, Turn
<1>2. TypeOK
  <2>1. turn \in [Residents -> Turn]
    BY <1>1 DEF Init
  <2>2. \A r, s \in Residents : rank[r] = rank[s] => r = s
    BY DEF Init
  <2>3. rank \in [Residents -> Residents] /\ passed \in [Residents -> SUBSET Residents]
    BY DEF Init
  <2>4. /\ delay \in [Residents -> 0..Horizon] /\ alarm \in [Residents -> 0..Horizon]
        /\ interruptions \in 0..MaxInterruptions
    BY Constants DEF Init
  <2> QED
    BY <2>1, <2>2, <2>3, <2>4 DEF Init, TypeOK
<1>3. WakesAreKept /\ FinishedTurnsAreOver /\ PassedStandAhead /\ ~overtaken
      /\ LoopHasResident
  BY <1>1, Constants
  DEF Init, WakesAreKept, FinishedTurnsAreOver, PassedStandAhead, LoopHasResident, NoTurn
<1> QED
  BY <1>2, <1>3 DEF Inv

(***************************************************************************)
(* A resident that begins a turn goes to the end of the rotation, and the  *)
(* order of the others stays.                                              *)
(***************************************************************************)
LEMMA BeginsMovesToEnd ==
  ASSUME Inv, NEW r \in Residents, Begins(r)
  PROVE  /\ rank' \in [Residents -> Residents]
         /\ \A s, q \in Residents : rank'[s] = rank'[q] => s = q
         /\ \A s, q \in Residents : s # r /\ rank[s] < rank[q] => rank'[s] < rank'[q]
         /\ turn[r].status # "running" =>
              \A s \in Residents \ {r} : rank'[s] < rank'[r]
<1> USE Constants
<1>1. /\ rank \in [Residents -> Residents]
      /\ \A s, q \in Residents : rank[s] = rank[q] => s = q
  BY DEF Inv, TypeOK
<1>2. CASE turn[r].status = "running"
  BY <1>1, <1>2 DEF Begins
<1>3. CASE turn[r].status # "running"
  <2>1. rank' = [s \in Residents |-> IF s = r THEN ResidentCount
                                     ELSE IF rank[s] > rank[r] THEN rank[s] - 1
                                     ELSE rank[s]]
    BY <1>3 DEF Begins
  <2>2. \A s \in Residents : rank[s] \in 1..ResidentCount
    BY <1>1 DEF Residents
  <2>3. \A s \in Residents : rank'[s] \in Residents
    BY <2>1, <2>2 DEF Residents
  <2>4. \A s \in Residents \ {r} : rank'[s] < rank'[r]
    BY <1>1, <2>1, <2>2
  <2>5. \A s, q \in Residents : s # r /\ rank[s] < rank[q] => rank'[s] < rank'[q]
    BY <1>1, <2>1, <2>2, <2>4
  <2>6. \A s, q \in Residents : rank'[s] = rank'[q] => s = q
    <3> SUFFICES ASSUME NEW s \in Residents, NEW q \in Residents, s # q
                 PROVE  rank'[s] # rank'[q]
      OBVIOUS
    <3>1. CASE s = r \/ q = r
      BY <3>1, <2>3, <2>4 DEF Residents
    <3>2. CASE s # r /\ q # r
      <4>1. rank[s] < rank[q] \/ rank[q] < rank[s]
        BY <1>1, <2>2
      <4> QED
        BY <3>2, <4>1, <2>3, <2>5 DEF Residents
    <3> QED
      BY <3>1, <3>2
  <2> QED
    BY <2>1, <2>3, <2>4, <2>5, <2>6
<1> QED
  BY <1>2, <1>3

LEMMA BeginsTypes ==
  ASSUME Inv, NEW r \in Residents, Begins(r)
  PROVE  /\ turn' \in [Residents -> Turn]
         /\ wakeReason' \in [Residents -> {"message", "other"}]
         /\ WakesAreKept' /\ FinishedTurnsAreOver'
<1> DEFINE begun == [status |-> "running", calls |-> 0, until |-> 0, finished |-> FALSE]
<1>1. begun \in Turn
  BY Constants DEF Turn, Open
<1>2. begun.finished = FALSE
  OBVIOUS
<1>3. /\ turn \in [Residents -> Turn]
      /\ wakeReason \in [Residents -> {"message", "other"}]
      /\ owed \subseteq Residents
  BY DEF Inv, TypeOK
<1>4. \/ UNCHANGED <<wakeReason, turn>>
      \/ /\ turn' = [turn EXCEPT ![r] = begun]
         /\ wakeReason' = [wakeReason EXCEPT ![r] = "other"]
  BY DEF Begins
<1>5. owed' = owed \ {r} /\ delay' = delay
  BY DEF Begins, clock
<1> HIDE DEF begun
<1>6. turn' \in [Residents -> Turn]
      /\ wakeReason' \in [Residents -> {"message", "other"}]
  BY <1>1, <1>3, <1>4
<1>7. \A s \in Residents \ {r} : turn'[s] = turn[s] /\ wakeReason'[s] = wakeReason[s]
  BY <1>3, <1>4
<1>8. turn'[r] = turn[r] \/ turn'[r] = begun
  BY <1>3, <1>4
<1>9. WakesAreKept'
  BY <1>3, <1>5, <1>7 DEF Inv, WakesAreKept
<1>10. FinishedTurnsAreOver'
  BY <1>2, <1>7, <1>8 DEF Inv, FinishedTurnsAreOver
<1> QED
  BY <1>6, <1>9, <1>10

LEMMA BeginNextInv ==
  ASSUME Inv, NEW r \in Residents, BeginNext(r)
  PROVE  Inv'
<1>1. Begins(r) /\ Passes(r) /\ NextResident(r)
  BY DEF BeginNext
<1> DEFINE waiting == Due \ {r}
           anew == turn[r].status # "running"
<1>2. passed' = [s \in Residents |->
        IF s \notin waiting THEN {} ELSE IF anew THEN passed[s] \cup {r} ELSE passed[s]]
  BY <1>1 DEF Passes
<1>3. overtaken' = (overtaken \/ (anew /\ \E s \in waiting : r \in passed[s]))
  BY <1>1 DEF Passes
<1>4. passed \in [Residents -> SUBSET Residents]
  BY DEF Inv, TypeOK
<1>5. rank \in [Residents -> Residents]
  BY DEF Inv, TypeOK
<1>6. ~overtaken'
  <2>1. \A s \in waiting : s \in Residents /\ rank[r] <= rank[s]
    BY <1>1 DEF NextResident, Due
  <2>2. ASSUME NEW s \in waiting, r \in passed[s] PROVE FALSE
    <3>1. rank[s] < rank[r] /\ rank[r] <= rank[s]
      BY <2>1, <2>2 DEF Inv, PassedStandAhead
    <3>2. rank[s] \in Nat /\ rank[r] \in Nat
      BY <2>1, <1>5, Constants DEF Residents
    <3> QED
      BY <3>1, <3>2
  <2>3. ~(overtaken \/ (anew /\ \E s \in waiting : r \in passed[s]))
    BY <2>2 DEF Inv
  <2> HIDE DEF waiting, anew
  <2> QED
    BY <1>3, <2>3
<1>7. PassedStandAhead'
  <2> SUFFICES ASSUME NEW s \in Residents, NEW q \in passed'[s]
               PROVE  rank'[s] < rank'[q]
    BY DEF PassedStandAhead
  <2>1. s # r /\ (q \in passed[s] \/ (q = r /\ anew))
    BY <1>2
  <2>2. CASE q \in passed[s]
    <3>1. q \in Residents /\ rank[s] < rank[q]
      BY <2>2, <1>4 DEF Inv, PassedStandAhead
    <3>2. rank'[s] < rank'[q]
      BY <2>1, <3>1, <1>1, BeginsMovesToEnd
    <3> QED
      BY <3>2
  <2>3. CASE q = r /\ anew
    BY <2>1, <2>3, <1>1, BeginsMovesToEnd
  <2> QED
    BY <2>1, <2>2, <2>3
<1>8. passed' \in [Residents -> SUBSET Residents]
  BY <1>2, <1>4
<1>9. /\ process' = "turn" /\ current' = r /\ interruptions' = interruptions
      /\ delay' = delay /\ alarm' = alarm /\ owed' = owed \ {r}
  BY DEF BeginNext, Begins, clock
<1>10. TypeOK'
  <2>1. /\ turn' \in [Residents -> Turn]
        /\ wakeReason' \in [Residents -> {"message", "other"}]
    BY <1>1, BeginsTypes
  <2>2. /\ rank' \in [Residents -> Residents]
        /\ \A s, q \in Residents : rank'[s] = rank'[q] => s = q
    BY <1>1, BeginsMovesToEnd
  <2>3. overtaken' \in BOOLEAN
    BY <1>3 DEF Inv, TypeOK
  <2> QED
    BY <1>8, <1>9, <2>1, <2>2, <2>3 DEF Inv, TypeOK
<1> QED
  BY <1>1, <1>6, <1>7, <1>9, <1>10, BeginsTypes DEF Inv, LoopHasResident

LEMMA AdminStartInv ==
  ASSUME Inv, NEW r \in Residents, AdminStart(r)
  PROVE  Inv'
<1>1. Begins(r)
  BY DEF AdminStart
<1>2. /\ passed' = [passed EXCEPT ![r] = {}]
      /\ overtaken' = overtaken /\ UNCHANGED <<process, current, interruptions>>
  BY DEF AdminStart, loop
<1>3. passed \in [Residents -> SUBSET Residents]
  BY DEF Inv, TypeOK
<1>4. PassedStandAhead'
  <2> SUFFICES ASSUME NEW s \in Residents, NEW q \in passed'[s]
               PROVE  rank'[s] < rank'[q]
    BY DEF PassedStandAhead
  <2>1. s # r /\ q \in passed[s]
    BY <1>2, <1>3
  <2>2. q \in Residents /\ rank[s] < rank[q]
    BY <2>1, <1>3 DEF Inv, PassedStandAhead
  <2> QED
    BY <2>1, <2>2, <1>1, BeginsMovesToEnd
<1>5. passed' \in [Residents -> SUBSET Residents]
  BY <1>2, <1>3
<1>6. delay' = delay /\ alarm' = alarm /\ owed' = owed \ {r}
  BY <1>1 DEF Begins, clock
<1>7. TypeOK'
  BY <1>1, <1>2, <1>5, <1>6, BeginsTypes, BeginsMovesToEnd DEF Inv, TypeOK
<1> QED
  BY <1>1, <1>2, <1>4, <1>7, BeginsTypes DEF Inv, LoopHasResident

-------------------------------------------------------------------------------
(* The end of a turn. *)

LEMMA EndedTurn ==
  ASSUME Inv, NEW r \in Residents, NEW status \in {"completed", "provider-error"},
         turn[r].status # "none"
  PROVE  /\ EndedAs(turn[r], status) \in Turn
         /\ EndedAs(turn[r], status).status # "running"
         /\ EndedAs(turn[r], status).until = 0
         /\ EndedAs(turn[r], status).finished
<1>1. turn[r] \in Turn
  BY DEF Inv, TypeOK
<1> QED
  BY <1>1, Constants DEF EndedAs, Turn, Open, Ended

LEMMA FinishesInv ==
  ASSUME Inv, NEW r \in Residents, NEW status \in {"completed", "provider-error"},
         Finishes(r, status), UNCHANGED <<passed, overtaken>>,
         process' \in {"off", "cadence", "stopping", "serve"},
         current' \in Residents \cup {NobodyThere},
         interruptions' \in 0..MaxInterruptions
  PROVE  Inv'
<1> DEFINE ended == EndedAs(turn[r], status)
<1>1. /\ ended \in Turn /\ ended.finished
      /\ ended.status # "running" /\ ended.until = 0
  BY EndedTurn DEF Finishes
<1>2. UNCHANGED <<wakeReason, rank, alarm, owed>>
  BY DEF Finishes
<1>3. CASE turn[r].finished
  <2>1. UNCHANGED <<delay, turn>>
    BY <1>3 DEF Finishes
  <2> QED
    BY <1>2, <2>1
    DEF Inv, TypeOK, WakesAreKept, FinishedTurnsAreOver, PassedStandAhead, LoopHasResident
<1>4. CASE ~turn[r].finished
  <2>1. turn' = [turn EXCEPT ![r] = ended]
    BY <1>4 DEF Finishes, EndedAs
  <2>2. PICK interval \in Intervals :
          delay' = [delay EXCEPT ![r] =
            IF wakeReason[r] = "message" THEN 0
            ELSE IF turn[r].status = "waiting" THEN turn[r].until
            ELSE interval]
    BY <1>4 DEF Finishes
  <2> HIDE DEF ended
  <2>3. /\ turn \in [Residents -> Turn] /\ delay \in [Residents -> 0..Horizon]
        /\ owed \subseteq Residents
    BY DEF Inv, TypeOK
  <2>4. turn' \in [Residents -> Turn]
    BY <1>1, <2>1, <2>3
  <2>5. turn[r].until \in 0..Horizon
    BY <2>3 DEF Turn
  <2>6. delay' \in [Residents -> 0..Horizon]
    BY <2>2, <2>3, <2>5, Constants
  <2>7. /\ \A s \in Residents \ {r} : turn'[s] = turn[s] /\ delay'[s] = delay[s]
        /\ turn'[r] = ended
        /\ wakeReason[r] = "message" => delay'[r] = 0
    BY <2>1, <2>2, <2>3
  <2>8. WakesAreKept'
    <3> SUFFICES ASSUME NEW s \in owed
                 PROVE  delay'[s] = 0 /\ (turn'[s].finished \/ wakeReason[s] = "message")
      BY <1>2 DEF WakesAreKept
    <3>1. s \in Residents /\ delay[s] = 0 /\ (turn[s].finished \/ wakeReason[s] = "message")
      BY <2>3 DEF Inv, WakesAreKept
    <3> QED
      BY <1>1, <1>4, <2>7, <3>1
  <2>9. FinishedTurnsAreOver'
    BY <1>1, <2>7 DEF Inv, FinishedTurnsAreOver
  <2>10. TypeOK'
    BY <1>2, <2>4, <2>6 DEF Inv, TypeOK
  <2> QED
    BY <1>2, <2>8, <2>9, <2>10 DEF Inv, PassedStandAhead, LoopHasResident
<1> QED
  BY <1>3, <1>4

-------------------------------------------------------------------------------
(* Time. *)

LEMMA AdvancesInv ==
  ASSUME Inv, NEW d \in Nat, Advances(d), UNCHANGED <<passed, overtaken, interruptions>>,
         process' \in {"off", "pick", "turn", "cadence", "stopping", "serve"},
         process' = "turn" => process = "turn", UNCHANGED current
  PROVE  Inv'
<1> DEFINE left(time) == IF time > d THEN time - d ELSE 0
           woken == {r \in Residents : alarm[r] \in 1..d}
<1>1. /\ delay \in [Residents -> 0..Horizon] /\ alarm \in [Residents -> 0..Horizon]
      /\ turn \in [Residents -> Turn] /\ owed \subseteq Residents
      /\ wakeReason \in [Residents -> {"message", "other"}]
  BY DEF Inv, TypeOK
<1>2. \A time \in 0..Horizon : left(time) \in 0..Horizon
  BY Constants
<1>3. left(0) = 0
  OBVIOUS
<1>4. /\ delay' = [r \in Residents |-> IF r \in woken THEN 0 ELSE left(delay[r])]
      /\ alarm' = [r \in Residents |-> left(alarm[r])]
      /\ wakeReason' = [r \in Residents |-> IF r \in woken THEN "other" ELSE wakeReason[r]]
      /\ turn' = [r \in Residents |-> [turn[r] EXCEPT !.until = left(@)]]
      /\ owed' = (owed \ woken) \cup {r \in woken : turn[r].finished}
      /\ rank' = rank
  BY DEF Advances
<1>5. woken \subseteq Residents
  OBVIOUS
<1> HIDE DEF left, woken
<1>6. \A r \in Residents :
        /\ turn'[r] \in Turn
        /\ turn'[r].finished = turn[r].finished /\ turn'[r].status = turn[r].status
        /\ turn[r].until = 0 => turn'[r].until = 0
  <2> SUFFICES ASSUME NEW r \in Residents
               PROVE  /\ turn'[r] \in Turn
                      /\ turn'[r].finished = turn[r].finished
                      /\ turn'[r].status = turn[r].status
                      /\ turn[r].until = 0 => turn'[r].until = 0
    OBVIOUS
  <2>1. turn[r] \in Turn /\ turn'[r] = [turn[r] EXCEPT !.until = left(@)]
    BY <1>1, <1>4
  <2>2. turn[r].until \in 0..Horizon
    BY <2>1 DEF Turn
  <2>3. left(turn[r].until) \in 0..Horizon
    BY <1>2, <2>2
  <2>4. turn'[r] \in Turn
    BY <2>1, <2>3 DEF Turn
  <2>5. /\ turn'[r].finished = turn[r].finished
        /\ turn'[r].status = turn[r].status
        /\ turn'[r].until = left(turn[r].until)
    BY <2>1 DEF Turn
  <2> QED
    BY <1>3, <2>4, <2>5
<1>7. turn' \in [Residents -> Turn]
  BY <1>4, <1>6
<1>8. /\ delay' \in [Residents -> 0..Horizon] /\ alarm' \in [Residents -> 0..Horizon]
      /\ wakeReason' \in [Residents -> {"message", "other"}]
  BY <1>1, <1>2, <1>4, Constants
<1>9. WakesAreKept'
  <2> SUFFICES ASSUME NEW r \in owed'
               PROVE  delay'[r] = 0 /\ (turn'[r].finished \/ wakeReason'[r] = "message")
    BY DEF WakesAreKept
  <2>1. CASE r \in woken
    BY <2>1, <1>4, <1>5, <1>6
  <2>2. CASE r \notin woken
    <3>1. r \in owed /\ r \in Residents
      BY <2>2, <1>1, <1>4
    <3>2. delay[r] = 0 /\ (turn[r].finished \/ wakeReason[r] = "message")
      BY <3>1 DEF Inv, WakesAreKept
    <3> QED
      BY <2>2, <3>1, <3>2, <1>3, <1>4, <1>6
  <2> QED
    BY <2>1, <2>2
<1>10. FinishedTurnsAreOver'
  BY <1>6 DEF Inv, FinishedTurnsAreOver
<1>11. owed' \subseteq Residents
  BY <1>1, <1>4, <1>5
<1>12. TypeOK'
  BY <1>4, <1>7, <1>8, <1>11 DEF Inv, TypeOK
<1> QED
  BY <1>4, <1>9, <1>10, <1>12 DEF Inv, PassedStandAhead, LoopHasResident

-------------------------------------------------------------------------------
(* The capabilities. *)

LEMMA CalledTurn ==
  ASSUME Inv, NEW r \in Residents, MayCall(r)
  PROVE  /\ Call(r) \in [Residents -> Turn]
         /\ \A s \in Residents \ {r} : Call(r)[s] = turn[s]
         /\ ~Call(r)[r].finished /\ ~turn[r].finished
<1>1. turn \in [Residents -> Turn] /\ turn[r].status = "running" /\ ~turn[r].finished
  BY DEF Inv, TypeOK, FinishedTurnsAreOver, MayCall
<1>2. turn[r] \in Turn /\ turn[r].calls < MaxCalls
  BY <1>1 DEF MayCall
<1>3. turn[r].calls + 1 \in 0..MaxCalls
  BY <1>2, Constants DEF Turn
<1> DEFINE called == [turn[r] EXCEPT !.calls = @ + 1]
<1>4. called \in Turn /\ called.finished = turn[r].finished
  BY <1>2, <1>3 DEF Turn
<1>5. Call(r) = [turn EXCEPT ![r] = called]
  BY DEF Call
<1> HIDE DEF called
<1> QED
  BY <1>1, <1>4, <1>5

(* What a change of one resident's open turn, of wake-ups by message and   *)
(* of alarms leaves of the invariant.                                      *)
LEMMA OpenTurnInv ==
  ASSUME Inv, NEW r \in Residents, NEW t \in Turn, ~t.finished, ~turn[r].finished,
         turn' = [turn EXCEPT ![r] = t],
         delay' \in [Residents -> 0..Horizon], alarm' \in [Residents -> 0..Horizon],
         wakeReason' \in [Residents -> {"message", "other"}],
         owed' \subseteq Residents,
         \A s \in owed' : delay'[s] = 0 /\ (turn[s].finished \/ wakeReason'[s] = "message"),
         UNCHANGED <<rank, loop, passed, overtaken>>
  PROVE  Inv'
<1>1. turn \in [Residents -> Turn]
  BY DEF Inv, TypeOK
<1>2. turn' \in [Residents -> Turn]
  BY <1>1
<1>3. turn'[r] = t /\ \A s \in Residents \ {r} : turn'[s] = turn[s]
  BY <1>1
<1>4. WakesAreKept'
  BY <1>3 DEF WakesAreKept
<1>5. FinishedTurnsAreOver'
  BY <1>3 DEF Inv, FinishedTurnsAreOver
<1>6. TypeOK'
  BY <1>2 DEF Inv, TypeOK, loop
<1> QED
  BY <1>4, <1>5, <1>6 DEF Inv, PassedStandAhead, LoopHasResident, loop

LEMMA CalledIsUpdate ==
  ASSUME Inv, NEW r \in Residents, MayCall(r)
  PROVE  \E t \in Turn : ~t.finished /\ Call(r) = [turn EXCEPT ![r] = t]
<1> DEFINE called == [turn[r] EXCEPT !.calls = @ + 1]
<1>1. Call(r) = [turn EXCEPT ![r] = called]
  BY DEF Call
<1>2. turn \in [Residents -> Turn]
  BY DEF Inv, TypeOK
<1> HIDE DEF called
<1>3. Call(r)[r] = called
  BY <1>1, <1>2
<1>4. called \in Turn /\ ~called.finished
  BY <1>3, CalledTurn
<1> QED
  BY <1>1, <1>4

LEMMA InvokesInv ==
  ASSUME Inv, NEW r \in Residents, Invokes(r)
  PROVE  Inv'
<1>1. /\ delay \in [Residents -> 0..Horizon] /\ alarm \in [Residents -> 0..Horizon]
      /\ turn \in [Residents -> Turn] /\ owed \subseteq Residents
      /\ wakeReason \in [Residents -> {"message", "other"}]
  BY DEF Inv, TypeOK
<1>2. \A s \in owed : delay[s] = 0 /\ (turn[s].finished \/ wakeReason[s] = "message")
  BY DEF Inv, WakesAreKept
<1>3. turn[r].status = "running" => ~turn[r].finished
  BY DEF Inv, FinishedTurnsAreOver
<1>4. MayCall(r) => ~turn[r].finished
  BY <1>3 DEF MayCall
<1>5. CASE InvokeOther(r)
  <2>1. PICK t \in Turn : ~t.finished /\ Call(r) = [turn EXCEPT ![r] = t]
    BY <1>5, CalledIsUpdate DEF InvokeOther
  <2> QED
    BY <1>1, <1>2, <1>4, <1>5, <2>1, OpenTurnInv DEF InvokeOther, clock, history
<1>6. CASE RefuseCall(r)
  <2> DEFINE t == [turn[r] EXCEPT !.status = "budget-exhausted"]
  <2>1. turn[r] \in Turn
    BY <1>1
  <2>2. t \in Turn /\ t.finished = turn[r].finished
    BY <2>1 DEF Turn, Open
  <2>3. turn' = [turn EXCEPT ![r] = t]
    BY <1>6 DEF RefuseCall
  <2>4. ~turn[r].finished /\ UNCHANGED <<clock, wakeReason, rank, loop, history>>
    BY <1>3, <1>6 DEF RefuseCall
  <2> HIDE DEF t
  <2> QED
    BY <1>1, <1>2, <2>2, <2>3, <2>4, OpenTurnInv DEF clock, history
<1>7. ASSUME NEW receiver \in Residents, SendMessage(r, receiver) PROVE Inv'
  <2>1. PICK t \in Turn : ~t.finished /\ Call(r) = [turn EXCEPT ![r] = t]
    BY <1>7, CalledIsUpdate DEF SendMessage
  <2>2. /\ turn' = [turn EXCEPT ![r] = t] /\ ~turn[r].finished
        /\ UNCHANGED <<alarm, rank, loop, passed, overtaken>>
    BY <1>4, <1>7, <2>1 DEF SendMessage
  <2>3. \/ UNCHANGED <<delay, wakeReason, owed>>
        \/ /\ delay' = [delay EXCEPT ![receiver] = 0]
           /\ wakeReason' = [wakeReason EXCEPT ![receiver] = "message"]
           /\ owed' = owed \cup {receiver}
    BY <1>7 DEF SendMessage
  <2>4. /\ delay' \in [Residents -> 0..Horizon]
        /\ wakeReason' \in [Residents -> {"message", "other"}]
        /\ owed' \subseteq Residents
    BY <1>1, <2>3, Constants
  <2>5. \A s \in owed' : delay'[s] = 0 /\ (turn[s].finished \/ wakeReason'[s] = "message")
    BY <1>1, <1>2, <2>3
  <2> QED
    BY <1>1, <2>1, <2>2, <2>4, <2>5, OpenTurnInv
<1>8. ASSUME NEW until \in 1..Horizon, ScheduleWait(r, until) PROVE Inv'
  <2> DEFINE t == [turn[r] EXCEPT !.status = "waiting", !.calls = @ + 1, !.until = until]
  <2>1. turn[r] \in Turn /\ turn[r].calls < MaxCalls /\ ~turn[r].finished
    BY <1>1, <1>4, <1>8 DEF ScheduleWait, MayCall
  <2>2. turn[r].calls + 1 \in 0..MaxCalls /\ until \in 0..Horizon
    BY <2>1, Constants DEF Turn
  <2>3. t \in Turn /\ t.finished = turn[r].finished
    BY <2>1, <2>2 DEF Turn, Open
  <2>4. turn' = [turn EXCEPT ![r] = t]
    BY <1>8 DEF ScheduleWait
  <2>5. /\ delay' = [delay EXCEPT ![r] = until]
        /\ wakeReason' = [wakeReason EXCEPT ![r] = "other"]
        /\ owed' = owed \ {r}
        /\ UNCHANGED <<alarm, rank, loop, passed, overtaken>>
    BY <1>8 DEF ScheduleWait
  <2> HIDE DEF t
  <2>6. /\ delay' \in [Residents -> 0..Horizon]
        /\ wakeReason' \in [Residents -> {"message", "other"}]
        /\ owed' \subseteq Residents
    BY <1>1, <2>2, <2>5
  <2>7. \A s \in owed' : delay'[s] = 0 /\ (turn[s].finished \/ wakeReason'[s] = "message")
    BY <1>1, <1>2, <2>5
  <2> QED
    BY <1>1, <2>1, <2>3, <2>4, <2>5, <2>6, <2>7, OpenTurnInv
<1>9. ASSUME NEW time \in 0..Horizon, SetAlarm(r, time) PROVE Inv'
  <2>1. PICK t \in Turn : ~t.finished /\ Call(r) = [turn EXCEPT ![r] = t]
    BY <1>9, CalledIsUpdate DEF SetAlarm
  <2>2. /\ turn' = [turn EXCEPT ![r] = t] /\ ~turn[r].finished
        /\ UNCHANGED <<delay, wakeReason, rank, loop, history>>
    BY <1>4, <1>9, <2>1 DEF SetAlarm
  <2>3. alarm' = [alarm EXCEPT ![r] = IF @ \in 1..time THEN @ ELSE time]
    BY <1>9 DEF SetAlarm
  <2>4. alarm' \in [Residents -> 0..Horizon]
    BY <1>1, <2>3
  <2> QED
    BY <1>1, <1>2, <2>1, <2>2, <2>4, OpenTurnInv DEF history
<1> QED
  BY <1>5, <1>6, <1>7, <1>8, <1>9 DEF Invokes

-------------------------------------------------------------------------------
(* The other steps of the loop and of the operator change no turn. *)

LEMMA LoopStepInv ==
  ASSUME Inv, UNCHANGED <<clock, wakeReason, turn, rank, history>>,
         process' \in {"off", "pick", "serve"},
         current' \in Residents \cup {NobodyThere},
         interruptions' \in 0..MaxInterruptions
  PROVE  Inv'
BY DEF Inv, TypeOK, WakesAreKept, FinishedTurnsAreOver, PassedStandAhead,
       LoopHasResident, clock, history

LEMMA InterruptionTypes ==
  ASSUME Inv
  PROVE  /\ interruptions \in 0..MaxInterruptions
         /\ Interrupted => interruptions' \in 0..MaxInterruptions
         /\ current \in Residents \cup {NobodyThere}
         /\ process = "turn" => current \in Residents
BY Constants DEF Inv, TypeOK, Interrupted, LoopHasResident

LEMMA NextInv == Inv /\ [Next]_vars => Inv'
<1> SUFFICES ASSUME Inv, [Next]_vars PROVE Inv'
  OBVIOUS
<1>1. CASE StartRun
  BY <1>1, LoopStepInv, InterruptionTypes DEF StartRun
<1>2. CASE AdvanceCadence
  BY <1>2, AdvancesInv, Constants DEF AdvanceCadence
<1>3. ASSUME NEW status \in {"completed", "provider-error"}, EndTurn(status) PROVE Inv'
  BY <1>3, FinishesInv, InterruptionTypes DEF EndTurn
<1>4. CASE DriverThrows
  BY <1>4, FinishesInv, InterruptionTypes DEF DriverThrows
<1>5. CASE Kill
  BY <1>5, LoopStepInv, InterruptionTypes DEF Kill
<1>6. CASE StartServe \/ StopServe
  BY <1>6, LoopStepInv, InterruptionTypes DEF StartServe, StopServe
<1>7. ASSUME NEW r \in Residents, BeginNext(r) PROVE Inv'
  BY <1>7, BeginNextInv
<1>8. ASSUME NEW r \in Residents, Invokes(r) PROVE Inv'
  BY <1>8, InvokesInv
<1>9. ASSUME NEW r \in Residents, AdminStart(r) PROVE Inv'
  BY <1>9, AdminStartInv
<1>10. ASSUME NEW r \in Residents, AdminFinish(r) PROVE Inv'
  BY <1>10, FinishesInv, InterruptionTypes DEF AdminFinish, loop
<1>11. ASSUME NEW d \in 1..Horizon, JumpAhead(d) PROVE Inv'
  BY <1>11, AdvancesInv, Constants DEF JumpAhead, loop
<1>12. ASSUME NEW d \in 1..Horizon, AdminAdvance(d) PROVE Inv'
  BY <1>12, AdvancesInv, Constants DEF AdminAdvance, loop
<1>13. CASE UNCHANGED vars
  BY <1>13
  DEF vars, clock, loop, history, Inv, TypeOK, WakesAreKept, FinishedTurnsAreOver,
      PassedStandAhead, LoopHasResident
<1> QED
  BY <1>1, <1>2, <1>3, <1>4, <1>5, <1>6, <1>7, <1>8, <1>9, <1>10, <1>11, <1>12, <1>13
  DEF Next

(* The inductive invariant. *)
THEOREM Invariance == Spec => []Inv
BY InitInv, NextInv, PTL DEF Spec

-------------------------------------------------------------------------------
(* Residents, turns and the loop keep their types (runtime.ts). *)
THEOREM ResidentTypesCorrect == Spec => []TypeOK
<1>1. Inv => TypeOK
  BY DEF Inv
<1> QED
  BY <1>1, Invariance, PTL

(* Whoever was woken stays due until its next turn begins (beginTurn,      *)
(* finishTurn, advanceTime and the capabilities of runtime.ts).            *)
THEOREM WokenStayDue == Spec => []WokenIsDue
<1>1. Inv => WokenIsDue
  BY DEF Inv, WakesAreKept, WokenIsDue
<1> QED
  BY <1>1, Invariance, PTL

(* While a resident is due, no other begins two turns of the run loop      *)
(* (nextResident of runtime.ts).                                           *)
THEOREM RotationIsFair == Spec => []ServedInTurn
<1>1. Inv => ServedInTurn
  BY DEF Inv, ServedInTurn
<1> QED
  BY <1>1, Invariance, PTL

(* A finished turn stands, and finishing it again does not put off the     *)
(* resident's next (finishTurn of runtime.ts and commit of journal.ts).    *)
Stands(r) ==
  turn[r].finished =>
    \/ turn'[r] = turn[r] /\ delay'[r] <= delay[r]
    \/ turn'[r].status = "running" /\ ~turn'[r].finished

LEMMA DelayIsANumber ==
  ASSUME Inv, NEW s \in Residents
  PROVE  delay[s] \in Nat
<1>1. delay[s] \in 0..Horizon
  BY DEF Inv, TypeOK
<1> QED
  BY <1>1, Constants

LEMMA BeginsStands ==
  ASSUME Inv, NEW r \in Residents, Begins(r), NEW s \in Residents
  PROVE  Stands(s)
<1>1. turn \in [Residents -> Turn] /\ delay' = delay
  BY DEF Inv, TypeOK, Begins, clock
<1>2. CASE turn[r].status = "running"
  BY <1>1, <1>2, DelayIsANumber DEF Begins, Stands
<1>3. CASE turn[r].status # "running"
  BY <1>1, <1>3, DelayIsANumber DEF Begins, Stands
<1> QED
  BY <1>2, <1>3

LEMMA FinishesStands ==
  ASSUME Inv, NEW r \in Residents, NEW status, Finishes(r, status), NEW s \in Residents
  PROVE  Stands(s)
<1>1. turn \in [Residents -> Turn] /\ delay \in [Residents -> 0..Horizon]
  BY DEF Inv, TypeOK
<1>2. CASE turn[r].finished
  BY <1>1, <1>2, DelayIsANumber DEF Finishes, Stands
<1>3. CASE ~turn[r].finished /\ s # r
  <2>1. turn'[s] = turn[s] /\ delay'[s] = delay[s]
    BY <1>1, <1>3 DEF Finishes
  <2> QED
    BY <2>1, DelayIsANumber DEF Stands
<1>4. CASE ~turn[r].finished /\ s = r
  BY <1>4 DEF Stands
<1> QED
  BY <1>2, <1>3, <1>4

LEMMA AdvancesStands ==
  ASSUME Inv, NEW d \in Nat, Advances(d), NEW s \in Residents
  PROVE  Stands(s)
<1> SUFFICES ASSUME turn[s].finished
             PROVE  turn'[s] = turn[s] /\ delay'[s] <= delay[s]
  BY DEF Stands
<1> DEFINE left(time) == IF time > d THEN time - d ELSE 0
           woken == {r \in Residents : alarm[r] \in 1..d}
<1>1. /\ turn'[s] = [turn[s] EXCEPT !.until = left(@)]
      /\ delay'[s] = IF s \in woken THEN 0 ELSE left(delay[s])
  BY DEF Advances
<1>2. turn[s] \in Turn /\ turn[s].until = 0
  BY DEF Inv, TypeOK, FinishedTurnsAreOver
<1>3. delay'[s] <= delay[s]
  BY <1>1, DelayIsANumber
<1>4. left(turn[s].until) = turn[s].until
  BY <1>2
<1> HIDE DEF left
<1>5. turn'[s] = turn[s]
  BY <1>1, <1>2, <1>4 DEF Turn
<1> QED
  BY <1>3, <1>5

LEMMA InvokesStands ==
  ASSUME Inv, NEW r \in Residents, Invokes(r), NEW s \in Residents
  PROVE  Stands(s)
<1>1. turn[r].status = "running" /\ ~turn[r].finished
  BY DEF Invokes, InvokeOther, RefuseCall, SendMessage, ScheduleWait, SetAlarm, MayCall,
         Inv, FinishedTurnsAreOver
<1>2. turn \in [Residents -> Turn] /\ delay \in [Residents -> 0..Horizon]
  BY DEF Inv, TypeOK
<1>3. s # r => turn'[s] = turn[s]
  BY <1>2 DEF Invokes, InvokeOther, RefuseCall, SendMessage, ScheduleWait, SetAlarm, Call
<1>4. s # r => delay'[s] = delay[s] \/ delay'[s] = 0
  BY <1>2 DEF Invokes, InvokeOther, RefuseCall, SendMessage, ScheduleWait, SetAlarm, clock
<1> QED
  BY <1>1, <1>3, <1>4, DelayIsANumber DEF Stands

LEMMA NextStands ==
  ASSUME Inv, [Next]_vars, NEW s \in Residents
  PROVE  Stands(s)
<1>1. CASE UNCHANGED <<clock, turn>>
  BY <1>1, DelayIsANumber DEF clock, Stands
<1>2. StartRun \/ Kill \/ StartServe \/ StopServe \/ UNCHANGED vars => UNCHANGED <<clock, turn>>
  BY DEF StartRun, Kill, StartServe, StopServe, vars
<1>3. CASE AdvanceCadence
  BY <1>3, AdvancesStands, Constants DEF AdvanceCadence
<1>4. ASSUME NEW status \in {"completed", "provider-error"}, EndTurn(status) PROVE Stands(s)
  BY <1>4, FinishesStands, InterruptionTypes DEF EndTurn
<1>5. CASE DriverThrows
  BY <1>5, FinishesStands, InterruptionTypes DEF DriverThrows
<1>6. ASSUME NEW r \in Residents, BeginNext(r) \/ AdminStart(r) PROVE Stands(s)
  BY <1>6, BeginsStands DEF BeginNext, AdminStart
<1>7. ASSUME NEW r \in Residents, Invokes(r) PROVE Stands(s)
  BY <1>7, InvokesStands
<1>8. ASSUME NEW r \in Residents, AdminFinish(r) PROVE Stands(s)
  BY <1>8, FinishesStands DEF AdminFinish
<1>9. ASSUME NEW d \in 1..Horizon, JumpAhead(d) \/ AdminAdvance(d) PROVE Stands(s)
  BY <1>9, AdvancesStands, Constants DEF JumpAhead, AdminAdvance
<1> QED
  BY <1>1, <1>2, <1>3, <1>4, <1>5, <1>6, <1>7, <1>8, <1>9 DEF Next

(* A finished turn is never changed, and finishing it again puts off       *)
(* nothing of its resident's wake-ups (finishTurn).                        *)
THEOREM FinishedTurnsStand == Spec => SettledTurnsStand
<1>1. Inv /\ [Next]_vars => [\A r \in Residents : Stands(r)]_vars
  BY NextStands
<1>2. [\A r \in Residents : Stands(r)]_vars
      <=> [\A r \in Residents :
             turn[r].finished =>
               \/ turn'[r] = turn[r] /\ delay'[r] <= delay[r]
               \/ turn'[r].status = "running" /\ ~turn'[r].finished]_vars
  BY DEF Stands
<1> QED
  BY <1>1, <1>2, Invariance, PTL DEF Spec, SettledTurnsStand

===============================================================================
