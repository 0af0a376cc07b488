----------------------------- MODULE JobLedger -----------------------------
(***************************************************************************)
(* What the run queue promises its clients, without workers, leases,       *)
(* timers or retries: a submitted job is pending until one of its          *)
(* attempts, the one begun last, is accepted as its completion, or until   *)
(* it is given up after the allowed attempts; only a given-up job can be   *)
(* revived, and a done job stays done with its one accepted attempt.       *)
(***************************************************************************)
EXTENDS Naturals

CONSTANTS JobId, MaxAttempts

VARIABLES
  phase,    \* where each job stands
  begun,    \* how many attempts of each job have begun
  accepted  \* the attempts accepted as the completion of each job

ledgerVars == <<phase, begun, accepted>>

Init ==
  /\ phase = [j \in JobId |-> "absent"]
  /\ begun = [j \in JobId |-> 0]
  /\ accepted = [j \in JobId |-> {}]

Submit(j) ==
  /\ phase[j] = "absent"
  /\ phase' = [phase EXCEPT ![j] = "pending"]
  /\ UNCHANGED <<begun, accepted>>

Begin(j) ==
  /\ phase[j] = "pending"
  /\ begun' = [begun EXCEPT ![j] = @ + 1]
  /\ UNCHANGED <<phase, accepted>>

Finish(j) ==
  /\ phase[j] = "pending"
  /\ begun[j] > 0
  /\ phase' = [phase EXCEPT ![j] = "done"]
  /\ accepted' = [accepted EXCEPT ![j] = {begun[j]}]
  /\ UNCHANGED begun

GiveUp(j) ==
  /\ phase[j] = "pending"
  /\ begun[j] >= MaxAttempts
  /\ phase' = [phase EXCEPT ![j] = "dead"]
  /\ UNCHANGED <<begun, accepted>>

Revive(j) ==
  /\ phase[j] = "dead"
  /\ phase' = [phase EXCEPT ![j] = "pending"]
  /\ UNCHANGED <<begun, accepted>>

Next ==
  \E j \in JobId : Submit(j) \/ Begin(j) \/ Finish(j) \/ GiveUp(j) \/ Revive(j)

Spec == Init /\ [][Next]_ledgerVars
=============================================================================
