------------------------ MODULE MarketCollectionProofs ------------------------
(***************************************************************************)
(* The safety properties of MarketCollection, for any number of shards,    *)
(* epochs, cycles, attempts and faults.                                    *)
(***************************************************************************)
EXTENDS MarketCollection, TLAPS

(* At the end of epoch e a shard's world has gone through this many cycles. *)
CyclesBefore(e) == e * EpochCycleCount

Completed(s, e) == ledger[s][e].status = "completed"

(* The epochs of a shard come one after the other, and in a single society *)
(* no shard's comes before the last of all the others is complete.         *)
EpochsInTurn ==
  \A s \in Shards, e \in Epochs :
    ledger[s][e].attempt > 0 =>
      \A f \in Epochs : f < e =>
        /\ Completed(s, f)
        /\ SingleSociety => \A t \in Shards : Completed(t, f)

StatusOfAttempts ==
  \A s \in Shards, e \in Epochs :
    ledger[s][e].status = "pending" <=> ledger[s][e].attempt = 0

OneOfAttempt(set) ==
  \A c, d \in set :
    c.shard = d.shard /\ c.epoch = d.epoch /\ c.attempt = d.attempt => c = d

(* A child was started by an attempt of its epoch's, an attempt starts one *)
(* child, and until it has ended the ledger waits for it, unless another   *)
(* child has come to work in its runtime root.                             *)
ChildrenOfAttempts ==
  /\ \A c \in children :
       /\ c.attempt > 0 /\ c.attempt <= ledger[c.shard][c.epoch].attempt
       /\ c.phase = "running" /\ c.shard \notin shared =>
            /\ c.attempt = ledger[c.shard][c.epoch].attempt
            /\ ledger[c.shard][c.epoch].status = "started"
  /\ OneOfAttempt(children)

(* The cycles of a shard are those of its completed epochs and of the      *)
(* session of the next.                                                    *)
CyclesCounted ==
  \A s \in Shards \ shared, e \in Epochs :
    /\ session[s][e].done <= EpochCycleCount
    /\ session[s][e].status = "completed" => session[s][e].done = EpochCycleCount
    /\ ledger[s][e].attempt = 0 =>
         /\ session[s][e] = [status |-> "open", done |-> 0]
         /\ cycles[s] <= CyclesBefore(e)
    /\ Completed(s, e) => cycles[s] >= CyclesBefore(e) + EpochCycleCount
    /\ (\A f \in Epochs : f < e => Completed(s, f)) /\ ~Completed(s, e) =>
         cycles[s] = CyclesBefore(e) + session[s][e].done

WindowsRight ==
  /\ \A s \in Shards \ shared, e \in Epochs :
       Completed(s, e) =>
         ledger[s][e].window = [from |-> CyclesBefore(e),
                                to |-> CyclesBefore(e) + EpochCycleCount]
  /\ \A c \in children :
       c.phase = "succeeded" /\ c.shard \notin shared =>
         /\ session[c.shard][c.epoch] = [status |-> "completed", done |-> EpochCycleCount]
         /\ c.window = [from |-> CyclesBefore(c.epoch),
                        to |-> CyclesBefore(c.epoch) + EpochCycleCount]

AbandonedChildren ==
  /\ \A c \in children : c.waiter # "run" => abandoned
  /\ shared # {} => abandoned

Inv ==
  /\ TypeOK /\ EpochsInTurn /\ StatusOfAttempts /\ ChildrenOfAttempts
  /\ CyclesCounted /\ WindowsRight /\ AbandonedChildren

-------------------------------------------------------------------------------
LEMMA Constants ==
  /\ ShardCount \in Nat \ {0} /\ EpochCount \in Nat \ {0}
  /\ EpochCycleCount \in Nat \ {0} /\ LeaseDuration \in Nat \ {0}
  /\ MaxAttempts \in Nat \ {0} /\ MaxParallelShards \in Nat \ {0}
  /\ SingleSociety \in BOOLEAN /\ MaxFaults \in Nat
  /\ Epochs \subseteq Nat
BY MarketCollectionAssumption DEF MarketCollectionAssumption, Epochs

LEMMA CyclesBeforeNext ==
  /\ CyclesBefore(0) = 0
  /\ \A e \in Nat : /\ CyclesBefore(e) \in Nat
                   /\ CyclesBefore(e + 1) = CyclesBefore(e) + EpochCycleCount
BY Constants DEF CyclesBefore

LEMMA CyclesBeforeLater ==
  ASSUME NEW e \in Nat, NEW f \in Nat, e < f
  PROVE  CyclesBefore(e) + EpochCycleCount <= CyclesBefore(f)
<1>1. PICK d \in Nat : f = (e + 1) + d
  <2>1. f - (e + 1) \in Nat /\ f = (e + 1) + (f - (e + 1))
    OBVIOUS
  <2> QED
    BY <2>1
<1>2. f * EpochCycleCount = (e + 1) * EpochCycleCount + d * EpochCycleCount
  BY <1>1, Constants
<1>3. d * EpochCycleCount \in Nat /\ (e + 1) * EpochCycleCount \in Nat
  BY Constants
<1>4. CyclesBefore(e + 1) = CyclesBefore(e) + EpochCycleCount
  BY CyclesBeforeNext
<1> QED
  BY <1>2, <1>3, <1>4 DEF CyclesBefore

LEMMA InitInv == Init => Inv
<1> SUFFICES ASSUME Init PROVE Inv
  OBVIOUS
<1>1. /\ ledger = [s \in Shards |-> [e \in Epochs |->
                     [status |-> "pending", attempt |-> 0, lease |-> 0, window |-> NoWindow]]]
      /\ session = [s \in Shards |-> [e \in Epochs |-> [status |-> "open", done |-> 0]]]
      /\ cycles = [s \in Shards |-> 0]
      /\ children = {} /\ shared = {} /\ coordinator = "off"
      /\ frozen = FALSE /\ abandoned = FALSE /\ faults = 0
  BY DEF Init
<1>2. [status |-> "pending", attempt |-> 0, lease |-> 0, window |-> NoWindow] \in Entry
  BY Constants DEF Entry, Window, NoWindow
<1>3. TypeOK
  BY <1>1, <1>2 DEF TypeOK
<1>4. \A s \in Shards, e \in Epochs :
        /\ ledger[s][e].status = "pending" /\ ledger[s][e].attempt = 0
        /\ session[s][e] = [status |-> "open", done |-> 0]
        /\ cycles[s] = 0
  BY <1>1
<1>5. EpochsInTurn /\ StatusOfAttempts /\ ChildrenOfAttempts /\ WindowsRight /\ AbandonedChildren
  BY <1>1, <1>4
  DEF EpochsInTurn, StatusOfAttempts, ChildrenOfAttempts, OneOfAttempt, WindowsRight,
      AbandonedChildren, Completed
<1>6. CyclesCounted
  <2> SUFFICES ASSUME NEW s \in Shards, NEW e \in Epochs
               PROVE /\ session[s][e].done <= EpochCycleCount
                     /\ session[s][e].status # "completed"
                     /\ cycles[s] <= CyclesBefore(e)
                     /\ ~Completed(s, e)
                     /\ (\A f \in Epochs : f < e => Completed(s, f)) =>
                          cycles[s] = CyclesBefore(e) + session[s][e].done
    BY <1>4 DEF CyclesCounted
  <2>1. CyclesBefore(e) \in Nat /\ CyclesBefore(0) = 0
    BY CyclesBeforeNext, Constants
  <2>2. session[s][e].done = 0 /\ session[s][e].status = "open" /\ ~Completed(s, e)
    BY <1>4 DEF Completed
  <2>3. e # 0 => 0 \in Epochs /\ 0 < e /\ ~Completed(s, 0)
    BY <1>4, Constants DEF Completed, Epochs
  <2> QED
    BY <1>4, <2>1, <2>2, <2>3, Constants
<1> QED
  BY <1>3, <1>5, <1>6 DEF Inv

(***************************************************************************)
(* What a shard has come to: all before an epoch that was started are      *)
(* complete, so one that was started and is not complete is the next.      *)
(***************************************************************************)
LEMMA TypesOf ==
  ASSUME TypeOK, NEW s \in Shards, NEW e \in Epochs
  PROVE  /\ ledger[s][e] \in Entry /\ ledger[s][e].attempt \in Nat
         /\ session[s][e] \in [status : {"open", "completed", "stopped"}, done : Nat]
         /\ cycles[s] \in Nat /\ e \in Nat
BY Constants DEF TypeOK, Entry

LEMMA CompletedWasStarted ==
  ASSUME Inv, NEW s \in Shards, NEW e \in Epochs, ledger[s][e].status # "pending"
  PROVE  ledger[s][e].attempt > 0
BY TypesOf DEF Inv, StatusOfAttempts

LEMMA StartedIsNext ==
  ASSUME Inv, NEW s \in Shards \ shared, NEW e \in Epochs,
         ledger[s][e].attempt > 0, ~Completed(s, e)
  PROVE  /\ cycles[s] = CyclesBefore(e) + session[s][e].done
         /\ session[s][e].done <= EpochCycleCount
         /\ \A f \in Epochs : f < e => Completed(s, f)
         /\ \A f \in Epochs : f > e => ledger[s][f].attempt = 0 /\ ~Completed(s, f)
<1>1. \A f \in Epochs : f < e => Completed(s, f)
  BY DEF Inv, EpochsInTurn
<1>2. \A f \in Epochs : f > e => ledger[s][f].attempt = 0 /\ ~Completed(s, f)
  <2> SUFFICES ASSUME NEW f \in Epochs, f > e
               PROVE  ledger[s][f].attempt = 0 /\ ~Completed(s, f)
    OBVIOUS
  <2>1. ~(ledger[s][f].attempt > 0)
    BY Constants DEF Inv, EpochsInTurn
  <2>2. ledger[s][f].attempt = 0
    BY <2>1, TypesOf DEF Inv
  <2> QED
    BY <2>2 DEF Inv, StatusOfAttempts, Completed
<1> QED
  BY <1>1, <1>2 DEF Inv, CyclesCounted

LEMMA LiveChild ==
  ASSUME Inv, NEW c \in children, c.phase = "running", c.shard \notin shared
  PROVE  /\ c.shard \in Shards \ shared /\ c.epoch \in Epochs
         /\ ledger[c.shard][c.epoch].attempt > 0 /\ ~Completed(c.shard, c.epoch)
<1>1. c.shard \in Shards /\ c.epoch \in Epochs /\ c.attempt \in Nat
  BY DEF Inv, TypeOK, Child
<1> QED
  BY <1>1 DEF Inv, ChildrenOfAttempts, Completed

-------------------------------------------------------------------------------
(* Steps of the run that leave shards, epochs and children as they are. *)

LEMMA FrameInv ==
  ASSUME Inv, UNCHANGED <<ledger, children, session, cycles, shared, abandoned>>,
         coordinator' \in {"off", "running"}, frozen' \in BOOLEAN, faults' \in Nat
  PROVE  Inv'
BY DEF Inv, TypeOK, EpochsInTurn, StatusOfAttempts, ChildrenOfAttempts, CyclesCounted,
       WindowsRight, AbandonedChildren, Completed, CyclesBefore

LEMMA FaultTypes ==
  ASSUME Inv
  PROVE  /\ faults \in Nat /\ (Fault => faults' \in Nat)
         /\ frozen \in BOOLEAN /\ abandoned \in BOOLEAN
         /\ coordinator \in {"off", "running"}
BY DEF Inv, TypeOK, Fault

LEMMA RunStepsInv ==
  ASSUME Inv, StartRun \/ GiveUp \/ Freeze
  PROVE  Inv'
<1>1. UNCHANGED <<ledger, children, session, cycles, shared, abandoned, faults>>
  BY DEF StartRun, GiveUp, Freeze
<1>2. coordinator' \in {"off", "running"}
  BY DEF StartRun, GiveUp, Freeze
<1>3. frozen' \in BOOLEAN
  <2>1. CASE StartRun \/ GiveUp
    BY <2>1, FaultTypes DEF StartRun, GiveUp
  <2>2. CASE Freeze
    BY <2>2 DEF Freeze
  <2> QED
    BY <2>1, <2>2
<1> QED
  BY <1>1, <1>2, <1>3, FrameInv, FaultTypes

(***************************************************************************)
(* The children lose one another's company: some are gone, the others      *)
(* change who waits for them.                                              *)
(***************************************************************************)
Same(c, d) ==
  /\ c.shard = d.shard /\ c.epoch = d.epoch /\ c.attempt = d.attempt
  /\ c.phase = d.phase /\ c.window = d.window

LEMMA WaitersInv ==
  ASSUME Inv,
         children' \subseteq Child, OneOfAttempt(children'),
         \A c \in children' : \E d \in children : Same(c, d),
         \A c \in children' : c.waiter # "run" => abandoned',
         abandoned' \in BOOLEAN, abandoned => abandoned',
         coordinator' \in {"off", "running"}, faults' \in Nat,
         UNCHANGED <<ledger, session, cycles, frozen, shared>>
  PROVE  Inv'
<1>1. /\ EpochsInTurn' /\ StatusOfAttempts' /\ CyclesCounted'
  BY DEF Inv, EpochsInTurn, StatusOfAttempts, CyclesCounted, Completed, CyclesBefore
<1>2. TypeOK'
  BY DEF Inv, TypeOK
<1>3. ChildrenOfAttempts'
  BY DEF Inv, ChildrenOfAttempts, Same, OneOfAttempt
<1>4. WindowsRight'
  BY DEF Inv, WindowsRight, Same, Completed, CyclesBefore
<1>5. AbandonedChildren'
  BY DEF Inv, AbandonedChildren
<1> QED
  BY <1>1, <1>2, <1>3, <1>4, <1>5 DEF Inv

LEMMA RejectInv ==
  ASSUME Inv, NEW c \in children, Reject(c), UNCHANGED <<session, cycles, frozen, shared, faults>>
  PROVE  Inv'
<1> DEFINE S == children \ {c}
           f == [d \in S |-> IF d \in Awaited /\ c \in Awaited
                               THEN [d EXCEPT !.waiter = "rejected"] ELSE d]
<1>1. children' = {f[d] : d \in S}
  BY DEF Reject
<1>2. /\ coordinator' = IF c \in Awaited THEN "off" ELSE coordinator
      /\ abandoned' = (abandoned \/ (c \in Awaited /\ Awaited # {c}))
      /\ UNCHANGED ledger
  BY DEF Reject
<1>3. abandoned' \in BOOLEAN /\ (abandoned => abandoned')
  BY <1>2, FaultTypes
<1>4. \A d \in S : d \in Awaited /\ c \in Awaited => abandoned'
  BY <1>2
<1>5. \A d \in S :
          /\ f[d] \in Child
          /\ f[d].shard = d.shard /\ f[d].epoch = d.epoch
          /\ f[d].attempt = d.attempt /\ f[d].phase = d.phase
          /\ f[d].window = d.window
          /\ f[d].waiter # "run" => abandoned'
  <2> SUFFICES ASSUME NEW d \in S
               PROVE  /\ f[d] \in Child
                      /\ f[d].shard = d.shard /\ f[d].epoch = d.epoch
                      /\ f[d].attempt = d.attempt /\ f[d].phase = d.phase
                      /\ f[d].window = d.window
                      /\ f[d].waiter # "run" => abandoned'
    OBVIOUS
  <2>1. d \in Child /\ (d.waiter # "run" => abandoned')
    BY <1>3 DEF Inv, TypeOK, AbandonedChildren
  <2>2. CASE d \in Awaited /\ c \in Awaited
    <3>1. f[d] = [d EXCEPT !.waiter = "rejected"] /\ abandoned'
      BY <1>4, <2>2
    <3> QED
      BY <2>1, <3>1 DEF Child
  <2>3. CASE ~(d \in Awaited /\ c \in Awaited)
    <3>1. f[d] = d
      BY <2>3
    <3> QED
      BY <2>1, <3>1
  <2> QED
    BY <2>2, <2>3
<1>6. coordinator' \in {"off", "running"} /\ faults' \in Nat
  BY <1>2, FaultTypes
<1>7. S \subseteq children
  OBVIOUS
<1> HIDE DEF S, f
<1>8. /\ children' \subseteq Child
      /\ \A d \in children' : d.waiter # "run" => abandoned'
  BY <1>1, <1>5
<1>9. \A d \in children' : \E e \in children : Same(d, e)
  BY <1>1, <1>5, <1>7 DEF Same
<1>10. \A d, e \in S :
        f[d].shard = f[e].shard /\ f[d].epoch = f[e].epoch
          /\ f[d].attempt = f[e].attempt => d = e
  BY <1>5, <1>7 DEF Inv, ChildrenOfAttempts, OneOfAttempt
<1>11. OneOfAttempt(children')
  BY <1>1, <1>10 DEF OneOfAttempt
<1> QED
  BY <1>2, <1>3, <1>6, <1>8, <1>9, <1>11, WaitersInv

LEMMA KillsInv ==
  ASSUME Inv, Restart \/ \E waiter \in {"run", "rejected"} : KillCoordinator(waiter)
  PROVE  Inv'
<1>1. CASE Restart
  <2>1. children' = {} /\ OneOfAttempt(children')
    BY <1>1 DEF Restart, OneOfAttempt
  <2>2. /\ coordinator' \in {"off", "running"} /\ faults' \in Nat
        /\ UNCHANGED <<ledger, session, cycles, frozen, shared, abandoned>>
        /\ abandoned \in BOOLEAN
    BY <1>1, FaultTypes DEF Restart
  <2> QED
    BY <2>1, <2>2, WaitersInv
<1>2. ASSUME NEW waiter \in {"run", "rejected"}, KillCoordinator(waiter) PROVE Inv'
  <2> DEFINE S == {c \in children : c.waiter = waiter => c \in Live}
             f == [c \in S |-> IF c.waiter = waiter THEN [c EXCEPT !.waiter = "none"] ELSE c]
  <2>1. children' = {f[c] : c \in S}
    BY <1>2 DEF KillCoordinator, Orphaned
  <2>2. /\ abandoned' = (abandoned \/ \E c \in Live : c.waiter = waiter)
        /\ coordinator' = IF waiter = "run" THEN "off" ELSE coordinator
        /\ UNCHANGED <<ledger, session, cycles, frozen, shared>> /\ Fault
    BY <1>2 DEF KillCoordinator
  <2>3. abandoned' \in BOOLEAN /\ (abandoned => abandoned')
    BY <2>2, FaultTypes
  <2>4. \A c \in S :
            /\ f[c] \in Child
            /\ f[c].shard = c.shard /\ f[c].epoch = c.epoch
            /\ f[c].attempt = c.attempt /\ f[c].phase = c.phase
            /\ f[c].window = c.window
            /\ f[c].waiter # "run" => abandoned'
    <3> SUFFICES ASSUME NEW c \in S
                 PROVE  /\ f[c] \in Child
                        /\ f[c].shard = c.shard /\ f[c].epoch = c.epoch
                        /\ f[c].attempt = c.attempt /\ f[c].phase = c.phase
                        /\ f[c].window = c.window
                        /\ f[c].waiter # "run" => abandoned'
      OBVIOUS
    <3>1. c \in Child /\ (c.waiter # "run" => abandoned')
      BY <2>3 DEF Inv, TypeOK, AbandonedChildren
    <3>2. CASE c.waiter = waiter
      <4>1. f[c] = [c EXCEPT !.waiter = "none"] /\ c \in Live
        BY <3>2
      <4>2. abandoned'
        BY <2>2, <3>2, <4>1
      <4> QED
        BY <3>1, <4>1, <4>2 DEF Child
    <3>3. CASE c.waiter # waiter
      <4>1. f[c] = c
        BY <3>3
      <4> QED
        BY <3>1, <4>1
    <3> QED
      BY <3>2, <3>3
  <2>5. coordinator' \in {"off", "running"} /\ faults' \in Nat
    BY <2>2, FaultTypes
  <2>6. S \subseteq children
    OBVIOUS
  <2> HIDE DEF S, f
  <2>7. /\ children' \subseteq Child
        /\ \A c \in children' : c.waiter # "run" => abandoned'
    BY <2>1, <2>4
  <2>8. \A c \in children' : \E d \in children : Same(c, d)
    BY <2>1, <2>4, <2>6 DEF Same
  <2>9. \A c, d \in S :
          f[c].shard = f[d].shard /\ f[c].epoch = f[d].epoch
            /\ f[c].attempt = f[d].attempt => c = d
    BY <2>4, <2>6 DEF Inv, ChildrenOfAttempts, OneOfAttempt
  <2>10. OneOfAttempt(children')
    BY <2>1, <2>9 DEF OneOfAttempt
  <2> QED
    BY <2>2, <2>3, <2>5, <2>7, <2>8, <2>10, WaitersInv
<1> QED
  BY <1>1, <1>2

-------------------------------------------------------------------------------
(* Time takes from the leases, and the ledger stays what it is otherwise.  *)

LEMMA TickInv ==
  ASSUME Inv, Tick
  PROVE  Inv'
<1>1. /\ ledger' = [s \in Shards |-> [e \in Epochs |->
                     IF Leased(s, e) THEN [ledger[s][e] EXCEPT !.lease = @ - 1]
                                     ELSE ledger[s][e]]]
      /\ UNCHANGED <<coordinator, children, session, cycles, frozen, shared, abandoned>>
  BY DEF Tick
<1>2. faults' \in Nat
  BY FaultTypes DEF Tick
<1>3. \A s \in Shards, e \in Epochs :
        /\ ledger'[s][e] \in Entry
        /\ ledger'[s][e].status = ledger[s][e].status
        /\ ledger'[s][e].attempt = ledger[s][e].attempt
        /\ ledger'[s][e].window = ledger[s][e].window
  <2> SUFFICES ASSUME NEW s \in Shards, NEW e \in Epochs
               PROVE  /\ ledger'[s][e] \in Entry
                      /\ ledger'[s][e].status = ledger[s][e].status
                      /\ ledger'[s][e].attempt = ledger[s][e].attempt
                      /\ ledger'[s][e].window = ledger[s][e].window
    OBVIOUS
  <2>1. ledger[s][e] \in Entry
    BY TypesOf DEF Inv
  <2>2. ledger'[s][e] = IF Leased(s, e) THEN [ledger[s][e] EXCEPT !.lease = @ - 1]
                                       ELSE ledger[s][e]
    BY <1>1
  <2>3. CASE Leased(s, e)
    <3>1. ledger[s][e].lease # 0
      BY <2>1, <2>3 DEF Leased, StatusOf, Entry
    <3>2. ledger[s][e].lease - 1 \in 0..LeaseDuration
      BY <2>1, <3>1, Constants DEF Entry
    <3> QED
      BY <2>1, <2>2, <2>3, <3>2 DEF Entry
  <2>4. CASE ~Leased(s, e)
    BY <2>1, <2>2, <2>4
  <2> QED
    BY <2>3, <2>4
<1>4. ledger' \in [Shards -> [Epochs -> Entry]]
  BY <1>1, <1>3
<1>5. TypeOK'
  BY <1>1, <1>2, <1>4 DEF Inv, TypeOK
<1>6. EpochsInTurn' /\ StatusOfAttempts' /\ CyclesCounted'
  BY <1>1, <1>3
  DEF Inv, EpochsInTurn, StatusOfAttempts, CyclesCounted, Completed, CyclesBefore
<1>7. ChildrenOfAttempts'
  <2>1. \A c \in children : c.shard \in Shards /\ c.epoch \in Epochs
    BY DEF Inv, TypeOK, Child
  <2> QED
    BY <1>1, <1>3, <2>1 DEF Inv, ChildrenOfAttempts, OneOfAttempt
<1>8. WindowsRight' /\ AbandonedChildren'
  BY <1>1, <1>3 DEF Inv, WindowsRight, AbandonedChildren, Completed, CyclesBefore
<1> QED
  BY <1>5, <1>6, <1>7, <1>8 DEF Inv

-------------------------------------------------------------------------------
(* A batch starts epochs that were not complete, behind the barrier. *)

LEMMA BatchRuns ==
  ASSUME Inv, NEW s \in Shards, NEW e \in Epochs, <<s, e>> \in Batch
  PROVE  /\ ~Completed(s, e)
         /\ \A f \in Epochs : f < e =>
              /\ Completed(s, f)
              /\ SingleSociety => \A t \in Shards : Completed(t, f)
<1>1. StatusOf(s, e) \in {"pending", "failed"} /\ PreviousEpochComplete(s, e)
  BY DEF Batch, Runnable
<1>2. ~Completed(s, e)
  BY <1>1 DEF StatusOf, Completed
<1>3. ASSUME NEW f \in Epochs, f < e
      PROVE  /\ Completed(s, f)
             /\ SingleSociety => \A t \in Shards : Completed(t, f)
  <2>1. e \in Nat /\ f \in Nat /\ e - 1 \in Epochs
    BY <1>3, Constants DEF Epochs
  <2>2. \A t \in IF SingleSociety THEN Shards ELSE {s} : StatusOf(t, e - 1) = "completed"
    BY <1>1, <1>3, <2>1 DEF PreviousEpochComplete
  <2>3. \A t \in IF SingleSociety THEN Shards ELSE {s} : Completed(t, e - 1)
    BY <2>2 DEF StatusOf, Completed
  <2>4. ASSUME NEW t \in Shards, Completed(t, e - 1) PROVE Completed(t, f)
    <3>1. ledger[t][e - 1].attempt > 0
      BY <2>1, <2>4, CompletedWasStarted DEF Completed
    <3>2. CASE f = e - 1
      BY <2>4, <3>2
    <3>3. CASE f < e - 1
      BY <2>1, <3>1, <3>3 DEF Inv, EpochsInTurn
    <3> QED
      BY <1>3, <2>1, <3>2, <3>3
  <2> QED
    BY <2>3, <2>4
<1> QED
  BY <1>2, <1>3

LEMMA LeaseBatchInv ==
  ASSUME Inv, LeaseBatch
  PROVE  Inv'
<1>1. /\ ledger' = [s \in Shards |-> [e \in Epochs |->
                     IF <<s, e>> \in Batch THEN Start(ledger[s][e]) ELSE ledger[s][e]]]
      /\ children' = children \cup {NewChild(se[1], se[2]) : se \in Batch}
      /\ shared' = shared \cup {s \in Shards :
                                  LiveIn(s) # {} /\ \E e \in Epochs : <<s, e>> \in Batch}
      /\ UNCHANGED <<coordinator, session, cycles, frozen, abandoned, faults>>
      /\ Awaited = {}
  BY DEF LeaseBatch, AtLoopTop
<1>2. \A s \in Shards, e \in Epochs : ledger[s][e] \in Entry /\ ledger[s][e].attempt \in Nat
  BY TypesOf DEF Inv
<1>3. \A entry \in Entry :
        /\ Start(entry) \in Entry /\ Start(entry).status = "started"
        /\ Start(entry).attempt = entry.attempt + 1
  <2> SUFFICES ASSUME NEW entry \in Entry
               PROVE  /\ Start(entry) \in Entry /\ Start(entry).status = "started"
                      /\ Start(entry).attempt = entry.attempt + 1
    OBVIOUS
  <2>1. Start(entry) = [status |-> "started", attempt |-> entry.attempt + 1,
                        lease |-> LeaseDuration, window |-> NoWindow]
    BY DEF Start
  <2>2. entry.attempt + 1 \in Nat /\ NoWindow \in Window
    BY DEF Entry, NoWindow, Window
  <2>3. LeaseDuration \in 0..LeaseDuration
    BY Constants
  <2> QED
    BY <2>1, <2>2, <2>3 DEF Entry
<1>4. \A s \in Shards, e \in Epochs :
        /\ <<s, e>> \notin Batch => ledger'[s][e] = ledger[s][e]
        /\ <<s, e>> \in Batch => /\ ledger'[s][e].status = "started"
                                 /\ ledger'[s][e].attempt = ledger[s][e].attempt + 1
                                 /\ ~Completed(s, e)
        /\ ledger'[s][e] \in Entry
  BY <1>1, <1>2, <1>3, BatchRuns
<1>5. ledger' \in [Shards -> [Epochs -> Entry]]
  BY <1>1, <1>4
<1>6. \A s \in Shards, e \in Epochs :
        /\ Completed(s, e)' <=> Completed(s, e)
        /\ ledger'[s][e].attempt = 0 => ledger[s][e].attempt = 0
        /\ ledger[s][e].attempt <= ledger'[s][e].attempt
  <2> SUFFICES ASSUME NEW s \in Shards, NEW e \in Epochs
               PROVE  /\ Completed(s, e)' <=> Completed(s, e)
                      /\ ledger'[s][e].attempt = 0 => ledger[s][e].attempt = 0
                      /\ ledger[s][e].attempt <= ledger'[s][e].attempt
    OBVIOUS
  <2>1. ledger[s][e].attempt \in Nat
    BY <1>2
  <2>2. CASE <<s, e>> \in Batch
    <3>1. /\ ledger'[s][e].status = "started" /\ ~Completed(s, e)
          /\ ledger'[s][e].attempt = ledger[s][e].attempt + 1
      BY <1>4, <2>2
    <3> QED
      BY <2>1, <3>1 DEF Completed
  <2>3. CASE <<s, e>> \notin Batch
    <3>1. ledger'[s][e] = ledger[s][e]
      BY <1>4, <2>3
    <3> QED
      BY <2>1, <3>1 DEF Completed
  <2> QED
    BY <2>2, <2>3
<1>7. \A se \in Batch : se[1] \in Shards /\ se[2] \in Epochs /\ se = <<se[1], se[2]>>
  BY DEF Batch, Runnable
<1>8. \A se \in Batch :
        /\ NewChild(se[1], se[2]) \in Child
        /\ NewChild(se[1], se[2]).shard = se[1] /\ NewChild(se[1], se[2]).epoch = se[2]
        /\ NewChild(se[1], se[2]).attempt = ledger[se[1]][se[2]].attempt + 1
        /\ NewChild(se[1], se[2]).phase = "running" /\ NewChild(se[1], se[2]).waiter = "run"
  <2>1. NoWindow \in Window
    BY DEF NoWindow, Window
  <2> QED
    BY <1>2, <1>7, <2>1 DEF NewChild, Child
<1>9. TypeOK'
  <2>1. children' \subseteq Child
    BY <1>1, <1>8 DEF Inv, TypeOK
  <2>2. shared' \subseteq Shards
    BY <1>1 DEF Inv, TypeOK
  <2> QED
    BY <1>1, <1>5, <2>1, <2>2 DEF Inv, TypeOK
<1>10. EpochsInTurn'
  <2> SUFFICES ASSUME NEW s \in Shards, NEW e \in Epochs, ledger'[s][e].attempt > 0,
                      NEW f \in Epochs, f < e
               PROVE  /\ Completed(s, f)
                      /\ SingleSociety => \A t \in Shards : Completed(t, f)
    BY <1>6 DEF EpochsInTurn
  <2>1. CASE <<s, e>> \in Batch
    BY <2>1, BatchRuns
  <2>2. CASE <<s, e>> \notin Batch
    <3>1. ledger[s][e].attempt > 0
      BY <1>4, <2>2
    <3> QED
      BY <3>1 DEF Inv, EpochsInTurn
  <2> QED
    BY <2>1, <2>2
<1>11. StatusOfAttempts'
  <2> SUFFICES ASSUME NEW s \in Shards, NEW e \in Epochs
               PROVE  ledger'[s][e].status = "pending" <=> ledger'[s][e].attempt = 0
    BY DEF StatusOfAttempts
  <2>1. ledger[s][e].attempt \in Nat
    BY <1>2
  <2>2. CASE <<s, e>> \in Batch
    <3>1. /\ ledger'[s][e].status = "started"
          /\ ledger'[s][e].attempt = ledger[s][e].attempt + 1
      BY <1>4, <2>2
    <3> QED
      BY <2>1, <3>1
  <2>3. CASE <<s, e>> \notin Batch
    <3>1. ledger'[s][e] = ledger[s][e]
      BY <1>4, <2>3
    <3> QED
      BY <3>1 DEF Inv, StatusOfAttempts
  <2> QED
    BY <2>2, <2>3
<1>12. CyclesCounted'
  <2>1. \A s \in Shards : s \notin shared' => s \notin shared
    BY <1>1
  <2> QED
    BY <1>1, <1>6, <2>1 DEF Inv, CyclesCounted, CyclesBefore
<1>13. ChildrenOfAttempts'
  <2>1. ASSUME NEW c \in children
        PROVE  /\ c.attempt > 0 /\ c.attempt <= ledger[c.shard][c.epoch].attempt
               /\ c.attempt <= ledger'[c.shard][c.epoch].attempt
               /\ c.shard \in Shards /\ c.epoch \in Epochs /\ c.attempt \in Nat
               /\ c.phase = "running" /\ c.shard \notin shared' =>
                    /\ c.attempt = ledger'[c.shard][c.epoch].attempt
                    /\ ledger'[c.shard][c.epoch].status = "started"
    <3>1. c.shard \in Shards /\ c.epoch \in Epochs /\ c.attempt \in Nat
      BY DEF Inv, TypeOK, Child
    <3>2. c.attempt > 0 /\ c.attempt <= ledger[c.shard][c.epoch].attempt
      BY DEF Inv, ChildrenOfAttempts
    <3>3. c.attempt <= ledger'[c.shard][c.epoch].attempt
      <4>1. ledger'[c.shard][c.epoch].attempt \in Nat
        BY <1>4, <3>1 DEF Entry
      <4> QED
        BY <1>2, <1>6, <3>1, <3>2, <4>1
    <3>4. ASSUME c.phase = "running", c.shard \notin shared'
          PROVE  /\ c.attempt = ledger'[c.shard][c.epoch].attempt
                 /\ ledger'[c.shard][c.epoch].status = "started"
      <4>1. c \in LiveIn(c.shard)
        BY <3>4 DEF LiveIn, Live
      <4>2. <<c.shard, c.epoch>> \notin Batch /\ c.shard \notin shared
        BY <1>1, <3>1, <3>4, <4>1
      <4> QED
        BY <1>4, <3>1, <3>4, <4>2 DEF Inv, ChildrenOfAttempts
    <3> QED
      BY <3>1, <3>2, <3>3, <3>4
  <2>2. \A se \in Batch :
          /\ NewChild(se[1], se[2]).attempt > 0
          /\ NewChild(se[1], se[2]).attempt = ledger'[se[1]][se[2]].attempt
          /\ ledger'[se[1]][se[2]].status = "started"
    BY <1>2, <1>4, <1>7, <1>8
  <2>3. \A se \in Batch : ledger'[se[1]][se[2]].attempt \in Nat
    BY <1>4, <1>7 DEF Entry
  <2>4. \A c \in children' :
          /\ c.attempt > 0 /\ c.attempt <= ledger'[c.shard][c.epoch].attempt
          /\ c.phase = "running" /\ c.shard \notin shared' =>
               /\ c.attempt = ledger'[c.shard][c.epoch].attempt
               /\ ledger'[c.shard][c.epoch].status = "started"
    <3> SUFFICES ASSUME NEW c \in children'
                 PROVE  /\ c.attempt > 0 /\ c.attempt <= ledger'[c.shard][c.epoch].attempt
                        /\ c.phase = "running" /\ c.shard \notin shared' =>
                             /\ c.attempt = ledger'[c.shard][c.epoch].attempt
                             /\ ledger'[c.shard][c.epoch].status = "started"
      OBVIOUS
    <3>1. CASE c \in children
      BY <2>1, <3>1
    <3>2. CASE c \notin children
      <4>1. PICK se \in Batch : c = NewChild(se[1], se[2])
        BY <1>1, <3>2
      <4>2. c.shard = se[1] /\ c.epoch = se[2]
        BY <1>8, <4>1
      <4>3. /\ c.attempt > 0 /\ c.attempt = ledger'[c.shard][c.epoch].attempt
            /\ ledger'[c.shard][c.epoch].status = "started"
            /\ ledger'[c.shard][c.epoch].attempt \in Nat
        BY <2>2, <2>3, <4>1, <4>2
      <4> QED
        BY <4>3
    <3> QED
      BY <3>1, <3>2
  <2>5. ASSUME NEW c \in children, NEW se \in Batch,
               c.shard = se[1], c.epoch = se[2]
        PROVE  c.attempt # NewChild(se[1], se[2]).attempt
    BY <1>2, <1>7, <1>8, <2>1, <2>5
  <2>6. OneOfAttempt(children')
    <3> SUFFICES ASSUME NEW c \in children', NEW d \in children',
                        c.shard = d.shard, c.epoch = d.epoch, c.attempt = d.attempt
                 PROVE  c = d
      BY DEF OneOfAttempt
    <3>1. CASE c \in children /\ d \in children
      BY <3>1 DEF Inv, ChildrenOfAttempts, OneOfAttempt
    <3>2. CASE c \in children /\ d \notin children
      <4>1. PICK se \in Batch : d = NewChild(se[1], se[2])
        BY <1>1, <3>2
      <4> QED
        BY <1>8, <2>5, <3>2, <4>1
    <3>3. CASE c \notin children /\ d \in children
      <4>1. PICK se \in Batch : c = NewChild(se[1], se[2])
        BY <1>1, <3>3
      <4> QED
        BY <1>8, <2>5, <3>3, <4>1
    <3>4. CASE c \notin children /\ d \notin children
      <4>1. PICK se \in Batch : c = NewChild(se[1], se[2])
        BY <1>1, <3>4
      <4>2. PICK tf \in Batch : d = NewChild(tf[1], tf[2])
        BY <1>1, <3>4
      <4>3. se[1] = tf[1] /\ se[2] = tf[2]
        BY <1>8, <4>1, <4>2
      <4> QED
        BY <4>1, <4>2, <4>3
    <3> QED
      BY <3>1, <3>2, <3>3, <3>4
  <2> QED
    BY <2>4, <2>6 DEF ChildrenOfAttempts
<1>14. WindowsRight'
  <2>1. \A s \in Shards, e \in Epochs : Completed(s, e) => ledger'[s][e] = ledger[s][e]
    BY <1>4
  <2>2. \A s \in Shards : s \notin shared' => s \notin shared
    BY <1>1
  <2>3. \A c \in children' : c.phase = "succeeded" => c \in children
    BY <1>1, <1>8
  <2> QED
    BY <1>1, <1>6, <2>1, <2>2, <2>3 DEF Inv, WindowsRight, CyclesBefore
<1>15. AbandonedChildren'
  <2>1. \A c \in children' : c.waiter # "run" => abandoned
    BY <1>1, <1>8 DEF Inv, AbandonedChildren
  <2>2. ASSUME NEW s \in Shards, LiveIn(s) # {} PROVE abandoned
    <3>1. PICK c \in children : c.waiter # "run"
      BY <1>1, <2>2 DEF LiveIn, Live, Awaited
    <3> QED
      BY <3>1 DEF Inv, AbandonedChildren
  <2> QED
    BY <1>1, <2>1, <2>2 DEF Inv, AbandonedChildren
<1> QED
  BY <1>9, <1>10, <1>11, <1>12, <1>13, <1>14, <1>15 DEF Inv
-------------------------------------------------------------------------------
(* The result of an attempt that holds its lease is the ledger's. *)

LEMMA RecordInv ==
  ASSUME Inv, NEW c \in children, Record(c)
  PROVE  Inv'
<1> DEFINE s == c.shard
           e == c.epoch
           entry == [ledger[s][e] EXCEPT !.status = IF c.phase = "succeeded" THEN "completed"
                                                                             ELSE "failed",
                                         !.lease = 0, !.window = c.window]
<1>1. /\ c.phase # "running" /\ HoldsLease(c)
      /\ ledger' = [ledger EXCEPT ![s][e] = entry]
      /\ children' = children \ {c}
      /\ UNCHANGED <<coordinator, session, cycles, frozen, shared, abandoned, faults>>
  BY DEF Record, Live
<1>2. s \in Shards /\ e \in Epochs /\ c.window \in Window /\ c \in Child
  BY DEF Inv, TypeOK, Child
<1>3. ledger[s][e] \in Entry /\ ledger[s][e].attempt \in Nat
  BY <1>2, TypesOf DEF Inv
<1>4. ledger[s][e].status = "started" /\ ledger[s][e].attempt = c.attempt
  BY <1>1, <1>3 DEF HoldsLease, StatusOf, Entry
<1>5. /\ entry \in Entry /\ entry.attempt = ledger[s][e].attempt /\ entry.window = c.window
      /\ entry.status = IF c.phase = "succeeded" THEN "completed" ELSE "failed"
  <2>1. 0 \in 0..LeaseDuration
    BY Constants
  <2> QED
    BY <1>2, <1>3, <2>1 DEF Entry
<1>6. ledger \in [Shards -> [Epochs -> Entry]]
  BY DEF Inv, TypeOK
<1> HIDE DEF entry
<1>7. /\ ledger' \in [Shards -> [Epochs -> Entry]]
      /\ ledger'[s][e] = entry
      /\ \A t \in Shards, f \in Epochs : t # s \/ f # e => ledger'[t][f] = ledger[t][f]
  BY <1>1, <1>2, <1>5, <1>6
<1> HIDE DEF s, e
<1>8. ~Completed(s, e) /\ ledger[s][e].attempt > 0
  <2>1. ledger[s][e].status # "pending"
    BY <1>4
  <2> QED
    BY <1>2, <1>4, <2>1, CompletedWasStarted DEF Completed
<1>9. \A t \in Shards, f \in Epochs :
        /\ ledger'[t][f].attempt = ledger[t][f].attempt
        /\ ledger'[t][f].status = "pending" <=> ledger[t][f].status = "pending"
        /\ Completed(t, f) => Completed(t, f)' /\ ledger'[t][f] = ledger[t][f]
        /\ Completed(t, f)' /\ ~Completed(t, f) =>
             t = s /\ f = e /\ c.phase = "succeeded" /\ ledger'[t][f].window = c.window
  <2> SUFFICES ASSUME NEW t \in Shards, NEW f \in Epochs
               PROVE  /\ ledger'[t][f].attempt = ledger[t][f].attempt
                      /\ ledger'[t][f].status = "pending" <=> ledger[t][f].status = "pending"
                      /\ Completed(t, f) => Completed(t, f)' /\ ledger'[t][f] = ledger[t][f]
                      /\ Completed(t, f)' /\ ~Completed(t, f) =>
                           /\ t = s /\ f = e /\ c.phase = "succeeded"
                           /\ ledger'[t][f].window = c.window
    OBVIOUS
  <2>1. CASE t = s /\ f = e
    BY <1>4, <1>5, <1>7, <1>8, <2>1 DEF Completed
  <2>2. CASE t # s \/ f # e
    BY <1>7, <2>2 DEF Completed
  <2> QED
    BY <2>1, <2>2
<1>10. TypeOK'
  BY <1>1, <1>7 DEF Inv, TypeOK
<1>11. EpochsInTurn' /\ StatusOfAttempts'
  BY <1>9 DEF Inv, EpochsInTurn, StatusOfAttempts
<1>12. ChildrenOfAttempts'
  <2>1. ASSUME NEW d \in children, d # c, d.phase = "running", d.shard \notin shared
        PROVE  ledger'[d.shard][d.epoch] = ledger[d.shard][d.epoch]
    <3>1. d.shard \in Shards /\ d.epoch \in Epochs
      BY DEF Inv, TypeOK, Child
    <3>2. d.attempt = ledger[d.shard][d.epoch].attempt
      BY <2>1 DEF Inv, ChildrenOfAttempts
    <3>3. ~(d.shard = s /\ d.epoch = e)
      BY <1>4, <2>1, <3>2 DEF Inv, ChildrenOfAttempts, OneOfAttempt, s, e
    <3> QED
      BY <1>7, <3>1, <3>3
  <2>2. \A d \in children : d.shard \in Shards /\ d.epoch \in Epochs
    BY DEF Inv, TypeOK, Child
  <2> QED
    BY <1>1, <1>9, <2>1, <2>2 DEF Inv, ChildrenOfAttempts, OneOfAttempt
<1>13. ASSUME c.phase = "succeeded", s \notin shared
       PROVE  /\ session[s][e] = [status |-> "completed", done |-> EpochCycleCount]
              /\ c.window = [from |-> CyclesBefore(e), to |-> CyclesBefore(e) + EpochCycleCount]
  BY <1>13 DEF Inv, WindowsRight, s, e
<1>14. WindowsRight'
  <2>1. ASSUME NEW t \in Shards, t \notin shared, NEW f \in Epochs, Completed(t, f)'
        PROVE  ledger'[t][f].window = [from |-> CyclesBefore(f),
                                       to |-> CyclesBefore(f) + EpochCycleCount]
    <3>1. CASE Completed(t, f)
      BY <1>9, <2>1, <3>1 DEF Inv, WindowsRight
    <3>2. CASE ~Completed(t, f)
      BY <1>9, <1>13, <2>1, <3>2
    <3> QED
      BY <3>1, <3>2
  <2> QED
    BY <1>1, <2>1 DEF Inv, WindowsRight, CyclesBefore
<1>15. AbandonedChildren'
  BY <1>1 DEF Inv, AbandonedChildren
<1>16. CyclesCounted'
  <2> SUFFICES ASSUME NEW t \in Shards, t \notin shared, NEW f \in Epochs
               PROVE  /\ Completed(t, f)' => cycles[t] >= CyclesBefore(f) + EpochCycleCount
                      /\ (\A g \in Epochs : g < f => Completed(t, g)') /\ ~Completed(t, f)' =>
                           cycles[t] = CyclesBefore(f) + session[t][f].done
    BY <1>1, <1>9 DEF Inv, CyclesCounted, CyclesBefore
  <2>0. ASSUME t = s
        PROVE  /\ cycles[s] = CyclesBefore(e) + session[s][e].done
               /\ \A g \in Epochs : g < e => Completed(s, g)
               /\ \A g \in Epochs : g > e => ledger[s][g].attempt = 0 /\ ~Completed(s, g)
    BY <1>2, <1>8, <2>0, StartedIsNext DEF s, e
  <2>1. Completed(t, f)' => cycles[t] >= CyclesBefore(f) + EpochCycleCount
    <3>1. CASE Completed(t, f)
      BY <3>1 DEF Inv, CyclesCounted
    <3>2. CASE Completed(t, f)' /\ ~Completed(t, f)
      <4>1. t = s /\ f = e /\ c.phase = "succeeded"
        BY <1>9, <3>2
      <4>2. session[s][e].done = EpochCycleCount
        BY <1>13, <4>1
      <4>3. CyclesBefore(e) \in Nat
        BY <1>2, CyclesBeforeNext, Constants
      <4> QED
        BY <2>0, <4>1, <4>2, <4>3, Constants
    <3> QED
      BY <3>1, <3>2
  <2>2. ASSUME \A g \in Epochs : g < f => Completed(t, g)', ~Completed(t, f)'
        PROVE  cycles[t] = CyclesBefore(f) + session[t][f].done
    <3>1. ~Completed(t, f)
      BY <1>9, <2>2
    <3>2. CASE \A g \in Epochs : g < f => Completed(t, g)
      BY <3>1, <3>2 DEF Inv, CyclesCounted
    <3>3. CASE ~ \A g \in Epochs : g < f => Completed(t, g)
      <4>1. PICK g \in Epochs : g < f /\ Completed(t, g)' /\ ~Completed(t, g)
        BY <2>2, <3>3
      <4>2. t = s /\ e < f /\ c.phase = "succeeded"
        BY <1>9, <4>1
      <4>3. e \in Nat /\ f \in Nat /\ e + 1 \in Epochs
        BY <1>2, <4>2, Constants DEF Epochs
      <4>4. ~Completed(s, e + 1)
        BY <2>0, <4>2, <4>3
      <4>5. ~(e + 1 < f)
        <5>1. Completed(t, e + 1)' => e + 1 = e
          BY <1>9, <4>2, <4>3, <4>4
        <5> QED
          BY <2>2, <4>3, <5>1
      <4>6. f = e + 1
        BY <4>2, <4>3, <4>5
      <4>7. session[s][f].done = 0
        BY <2>0, <4>2 DEF Inv, CyclesCounted
      <4>8. session[s][e].done = EpochCycleCount
        BY <1>13, <4>2
      <4>9. CyclesBefore(f) = CyclesBefore(e) + EpochCycleCount /\ CyclesBefore(e) \in Nat
        BY <4>3, <4>6, CyclesBeforeNext
      <4> QED
        BY <2>0, <4>2, <4>7, <4>8, <4>9, Constants
    <3> QED
      BY <3>2, <3>3
  <2> QED
    BY <2>1, <2>2
<1> QED
  BY <1>10, <1>11, <1>12, <1>14, <1>15, <1>16 DEF Inv
-------------------------------------------------------------------------------
(***************************************************************************)
(* A child alone in its runtime root takes the session of its epoch on,    *)
(* and ends or not.                                                        *)
(***************************************************************************)
Sessions == [status : {"open", "completed", "stopped"}, done : Nat]

Ended(d, c, now) ==
  /\ d.shard = c.shard /\ d.epoch = c.epoch /\ d.attempt = c.attempt
  /\ d.waiter = c.waiter /\ d.phase # "running"
  /\ d.phase = "succeeded" =>
       /\ now = [status |-> "completed", done |-> EpochCycleCount]
       /\ d.window = [from |-> CyclesBefore(c.epoch),
                      to |-> CyclesBefore(c.epoch) + EpochCycleCount]

LEMMA WorkInv ==
  ASSUME Inv, NEW c \in children, c.phase = "running", c.shard \notin shared,
         NEW now \in Sessions,
         now.done <= EpochCycleCount,
         now.status = "completed" => now.done = EpochCycleCount,
         session[c.shard][c.epoch].done <= now.done,
         session[c.shard][c.epoch].status = "completed" =>
           now = session[c.shard][c.epoch],
         session' = [session EXCEPT ![c.shard][c.epoch] = now],
         cycles' = [cycles EXCEPT ![c.shard] = CyclesBefore(c.epoch) + now.done],
         children' \subseteq Child, OneOfAttempt(children'),
         \A d \in children' : d \in children \/ Ended(d, c, now),
         faults' \in Nat,
         UNCHANGED <<ledger, coordinator, frozen, shared, abandoned>>
  PROVE  Inv'
<1> DEFINE s == c.shard
           e == c.epoch
<1>1. /\ s \in Shards /\ s \notin shared /\ e \in Epochs /\ e \in Nat
      /\ ledger[s][e].attempt > 0 /\ ~Completed(s, e)
  BY LiveChild, Constants DEF Completed
<1>2. /\ cycles[s] = CyclesBefore(e) + session[s][e].done
      /\ \A f \in Epochs : f < e => Completed(s, f)
      /\ \A f \in Epochs : f > e => ledger[s][f].attempt = 0 /\ ~Completed(s, f)
  BY <1>1, StartedIsNext
<1>3. /\ session \in [Shards -> [Epochs -> Sessions]] /\ cycles \in [Shards -> Nat]
  BY DEF Inv, TypeOK, Sessions
<1>4. CyclesBefore(e) \in Nat /\ now.done \in Nat /\ session[s][e].done \in Nat
  BY <1>1, <1>3, CyclesBeforeNext DEF Sessions
<1>5. /\ session'[s][e] = now
      /\ \A t \in Shards, f \in Epochs : t # s \/ f # e => session'[t][f] = session[t][f]
      /\ session' \in [Shards -> [Epochs -> Sessions]]
  BY <1>1, <1>3
<1>6. /\ cycles'[s] = CyclesBefore(e) + now.done
      /\ \A t \in Shards : t # s => cycles'[t] = cycles[t]
      /\ cycles' \in [Shards -> Nat]
  BY <1>1, <1>3, <1>4
<1> HIDE DEF s, e
<1>7. cycles[s] <= cycles'[s]
  BY <1>2, <1>4, <1>6 DEF s, e
<1>8. TypeOK'
  BY <1>5, <1>6 DEF Inv, TypeOK, Sessions
<1>9. EpochsInTurn' /\ StatusOfAttempts'
  BY DEF Inv, EpochsInTurn, StatusOfAttempts, Completed
<1>10. ChildrenOfAttempts'
  BY DEF Inv, ChildrenOfAttempts, Ended
<1>11. AbandonedChildren'
  BY DEF Inv, AbandonedChildren, Ended
<1>12. WindowsRight'
  <2>1. ASSUME NEW d \in children', d.phase = "succeeded", d.shard \notin shared
        PROVE  /\ session'[d.shard][d.epoch] =
                    [status |-> "completed", done |-> EpochCycleCount]
               /\ d.window = [from |-> CyclesBefore(d.epoch),
                              to |-> CyclesBefore(d.epoch) + EpochCycleCount]
    <3>1. CASE Ended(d, c, now)
      BY <1>5, <2>1, <3>1 DEF Ended, s, e
    <3>2. CASE d \in children
      <4>1. d.shard \in Shards /\ d.epoch \in Epochs
        BY <3>2 DEF Inv, TypeOK, Child
      <4>2. /\ session[d.shard][d.epoch] =
                 [status |-> "completed", done |-> EpochCycleCount]
            /\ d.window = [from |-> CyclesBefore(d.epoch),
                           to |-> CyclesBefore(d.epoch) + EpochCycleCount]
        BY <2>1, <3>2 DEF Inv, WindowsRight
      <4>3. session'[d.shard][d.epoch] = session[d.shard][d.epoch]
        <5>1. CASE d.shard = s /\ d.epoch = e
          BY <1>5, <4>2, <5>1 DEF s, e
        <5>2. CASE d.shard # s \/ d.epoch # e
          BY <1>5, <4>1, <5>2
        <5> QED
          BY <5>1, <5>2
      <4> QED
        BY <4>2, <4>3
    <3> QED
      BY <3>1, <3>2
  <2> QED
    BY <2>1 DEF Inv, WindowsRight, Completed, CyclesBefore
<1>13. CyclesCounted'
  <2> SUFFICES ASSUME NEW t \in Shards, t \notin shared, NEW f \in Epochs
               PROVE  /\ session'[t][f].done <= EpochCycleCount
                      /\ session'[t][f].status = "completed" =>
                           session'[t][f].done = EpochCycleCount
                      /\ ledger[t][f].attempt = 0 =>
                           /\ session'[t][f] = [status |-> "open", done |-> 0]
                           /\ cycles'[t] <= CyclesBefore(f)
                      /\ Completed(t, f) => cycles'[t] >= CyclesBefore(f) + EpochCycleCount
                      /\ (\A g \in Epochs : g < f => Completed(t, g)) /\ ~Completed(t, f) =>
                           cycles'[t] = CyclesBefore(f) + session'[t][f].done
    BY DEF CyclesCounted, Completed, CyclesBefore
  <2>1. CASE t # s
    BY <1>5, <1>6, <2>1 DEF Inv, CyclesCounted
  <2>2. CASE t = s /\ f = e
    BY <1>1, <1>5, <1>6, <2>2
  <2>3. CASE t = s /\ f # e
    <3>1. session'[t][f] = session[t][f] /\ f \in Nat /\ CyclesBefore(f) \in Nat
      BY <1>5, <2>3, Constants, CyclesBeforeNext
    <3>2. CASE f < e
      <4>1. Completed(s, f)
        BY <1>2, <3>2 DEF s, e
      <4>2. ledger[s][f].attempt > 0
        BY <1>1, <4>1, CompletedWasStarted DEF Completed
      <4>3. cycles[s] >= CyclesBefore(f) + EpochCycleCount
        BY <1>1, <4>1 DEF Inv, CyclesCounted
      <4>4. cycles'[s] >= CyclesBefore(f) + EpochCycleCount
        BY <1>1, <1>3, <1>6, <1>7, <3>1, <4>3, Constants
      <4>5. ~(ledger[s][f].attempt = 0)
        BY <4>2
      <4> QED
        BY <1>1, <2>3, <3>1, <4>1, <4>4, <4>5 DEF Inv, CyclesCounted
    <3>3. CASE f > e
      <4>1. ledger[s][f].attempt = 0 /\ ~Completed(s, f)
        BY <1>2, <3>3 DEF s, e
      <4>2. CyclesBefore(e) + EpochCycleCount <= CyclesBefore(f)
        BY <1>1, <3>1, <3>3, CyclesBeforeLater
      <4>3. cycles'[s] <= CyclesBefore(f)
        BY <1>4, <1>6, <3>1, <4>2, Constants DEF e
      <4> QED
        BY <1>1, <2>3, <3>1, <3>3, <4>1, <4>3 DEF Inv, CyclesCounted
    <3> QED
      BY <1>1, <2>3, <3>1, <3>2, <3>3
  <2> QED
    BY <2>1, <2>2, <2>3
<1> QED
  BY <1>8, <1>9, <1>10, <1>11, <1>12, <1>13 DEF Inv
LEMMA ExitChildren ==
  ASSUME Inv, NEW c \in children, NEW phase \in {"succeeded", "failed"}, NEW window \in Window,
         Exit(c, phase, window)
  PROVE  /\ children' \subseteq Child /\ OneOfAttempt(children')
         /\ \A d \in children' :
              \/ d \in children
              \/ /\ d.shard = c.shard /\ d.epoch = c.epoch /\ d.attempt = c.attempt
                 /\ d.waiter = c.waiter /\ d.phase = phase /\ d.window = window
<1> DEFINE ended == [c EXCEPT !.phase = phase, !.window = window]
<1>1. c \in Child /\ children \subseteq Child /\ OneOfAttempt(children)
  BY DEF Inv, TypeOK, ChildrenOfAttempts
<1>2. /\ ended \in Child
      /\ ended.shard = c.shard /\ ended.epoch = c.epoch /\ ended.attempt = c.attempt
      /\ ended.waiter = c.waiter /\ ended.phase = phase /\ ended.window = window
  BY <1>1 DEF Child
<1>3. \A d \in children' : (d \in children /\ d # c) \/ d = ended
  BY DEF Exit
<1> HIDE DEF ended
<1>4. children' \subseteq Child
  BY <1>1, <1>2, <1>3
<1>5. OneOfAttempt(children')
  BY <1>1, <1>2, <1>3 DEF OneOfAttempt
<1> QED
  BY <1>2, <1>3, <1>4, <1>5

(* The child of a shard's next epoch, and what its session has come to. *)
LEMMA WorkingChild ==
  ASSUME Inv, NEW c \in children, Works(c)
  PROVE  /\ c.phase = "running" /\ c.shard \notin shared
         /\ c.shard \in Shards /\ c.epoch \in Epochs
         /\ SessionOf(c) \in Sessions /\ SessionOf(c).done <= EpochCycleCount
         /\ SessionOf(c).status = "completed" => SessionOf(c).done = EpochCycleCount
         /\ cycles[c.shard] = CyclesBefore(c.epoch) + SessionOf(c).done
         /\ WindowEnd(c.shard, c.epoch) = CyclesBefore(c.epoch)
         /\ CyclesBefore(c.epoch) \in Nat
<1>1. c.phase = "running" /\ c.shard \notin shared
  BY DEF Works, Live
<1>2. /\ c.shard \in Shards /\ c.epoch \in Epochs /\ c.epoch \in Nat
      /\ ledger[c.shard][c.epoch].attempt > 0 /\ ~Completed(c.shard, c.epoch)
  BY <1>1, LiveChild, Constants
<1>3. SessionOf(c) \in Sessions
  BY <1>2 DEF SessionOf, Sessions, Inv, TypeOK
<1>4. /\ SessionOf(c).done <= EpochCycleCount
      /\ SessionOf(c).status = "completed" => SessionOf(c).done = EpochCycleCount
      /\ cycles[c.shard] = CyclesBefore(c.epoch) + SessionOf(c).done
  <2>1. /\ session[c.shard][c.epoch].done <= EpochCycleCount
        /\ session[c.shard][c.epoch].status = "completed" =>
             session[c.shard][c.epoch].done = EpochCycleCount
    BY <1>1, <1>2 DEF Inv, CyclesCounted
  <2>2. cycles[c.shard] = CyclesBefore(c.epoch) + session[c.shard][c.epoch].done
    BY <1>1, <1>2, StartedIsNext
  <2> QED
    BY <2>1, <2>2 DEF SessionOf
<1>5. WindowEnd(c.shard, c.epoch) = CyclesBefore(c.epoch)
  <2>1. CASE c.epoch = 0
    BY <2>1, CyclesBeforeNext DEF WindowEnd
  <2>2. CASE c.epoch # 0
    <3>1. c.epoch - 1 \in Epochs /\ c.epoch - 1 \in Nat /\ c.epoch - 1 < c.epoch
      BY <1>2, <2>2, Constants DEF Epochs
    <3>2. Completed(c.shard, c.epoch - 1)
      BY <1>2, <3>1 DEF Inv, EpochsInTurn
    <3>3. ledger[c.shard][c.epoch - 1].window =
            [from |-> CyclesBefore(c.epoch - 1),
             to |-> CyclesBefore(c.epoch - 1) + EpochCycleCount]
      BY <1>1, <1>2, <3>1, <3>2 DEF Inv, WindowsRight
    <3>4. CyclesBefore(c.epoch) = CyclesBefore(c.epoch - 1) + EpochCycleCount
      <4>1. (c.epoch - 1) + 1 = c.epoch
        BY <1>2
      <4> QED
        BY <3>1, <4>1, CyclesBeforeNext
    <3> QED
      BY <2>2, <3>3, <3>4 DEF WindowEnd
  <2> QED
    BY <2>1, <2>2
<1> QED
  BY <1>1, <1>2, <1>3, <1>4, <1>5, CyclesBeforeNext

LEMMA ChildStepsInv ==
  ASSUME Inv, NEW c \in children, RunCycle(c) \/ StopSession(c) \/ ChildDies(c) \/ Report(c)
  PROVE  Inv'
<1>1. Works(c)
  BY DEF RunCycle, StopSession, ChildDies, Report
<1>2. /\ c.phase = "running" /\ c.shard \notin shared
      /\ c.shard \in Shards /\ c.epoch \in Epochs
      /\ SessionOf(c) \in Sessions /\ SessionOf(c).done <= EpochCycleCount
      /\ SessionOf(c).status = "completed" => SessionOf(c).done = EpochCycleCount
      /\ cycles[c.shard] = CyclesBefore(c.epoch) + SessionOf(c).done
      /\ WindowEnd(c.shard, c.epoch) = CyclesBefore(c.epoch)
      /\ CyclesBefore(c.epoch) \in Nat
  BY <1>1, WorkingChild
<1>3. /\ session \in [Shards -> [Epochs -> Sessions]] /\ cycles \in [Shards -> Nat]
      /\ children \subseteq Child /\ OneOfAttempt(children)
  BY DEF Inv, TypeOK, Sessions, ChildrenOfAttempts
<1>4. faults' \in Nat
  <2>1. Fault \/ UNCHANGED faults
    BY DEF RunCycle, StopSession, ChildDies, Report
  <2> QED
    BY <2>1, FaultTypes
<1>5. NoWindow \in Window
  BY DEF NoWindow, Window
<1>6. CASE RunCycle(c)
  <2> DEFINE now == [session[c.shard][c.epoch] EXCEPT !.done = session[c.shard][c.epoch].done + 1]
  <2>1. /\ SessionOf(c).status = "open" /\ SessionOf(c).done < EpochCycleCount
        /\ session' = [session EXCEPT ![c.shard][c.epoch] = now]
        /\ cycles' = [cycles EXCEPT ![c.shard] = cycles[c.shard] + 1]
        /\ UNCHANGED <<ledger, coordinator, children, frozen, shared, abandoned>>
    <3>1. session' = [session EXCEPT ![c.shard][c.epoch].done = session[c.shard][c.epoch].done + 1]
      BY <1>6 DEF RunCycle
    <3>2. session' = [session EXCEPT ![c.shard][c.epoch] = now]
      BY <3>1
    <3> QED
      BY <1>6, <3>2 DEF RunCycle
  <2>2. /\ now \in Sessions /\ now.done = SessionOf(c).done + 1
        /\ now.status = "open" /\ SessionOf(c).done \in Nat
    BY <1>2, <2>1 DEF Sessions, SessionOf
  <2>3. cycles[c.shard] + 1 = CyclesBefore(c.epoch) + now.done
    BY <1>2, <2>2
  <2> HIDE DEF now
  <2>4. now.done <= EpochCycleCount /\ session[c.shard][c.epoch].done <= now.done
    BY <2>1, <2>2, Constants DEF SessionOf
  <2>5. session[c.shard][c.epoch].status # "completed"
    BY <2>1 DEF SessionOf
  <2> QED
    BY <1>2, <1>3, <1>4, <2>1, <2>2, <2>3, <2>4, <2>5, WorkInv
<1>7. CASE StopSession(c)
  <2> DEFINE now == [session[c.shard][c.epoch] EXCEPT !.status = "stopped"]
  <2>1. /\ SessionOf(c).status = "open"
        /\ session' = [session EXCEPT ![c.shard][c.epoch] = now]
        /\ UNCHANGED <<ledger, coordinator, children, cycles, frozen, shared, abandoned>>
    BY <1>7 DEF StopSession
  <2>2. now \in Sessions /\ now.done = SessionOf(c).done /\ now.status = "stopped"
    BY <1>2 DEF Sessions, SessionOf
  <2>3. cycles' = [cycles EXCEPT ![c.shard] = CyclesBefore(c.epoch) + now.done]
    BY <1>2, <1>3, <2>1, <2>2
  <2> HIDE DEF now
  <2>4. now.done <= EpochCycleCount /\ session[c.shard][c.epoch].done <= now.done
    BY <1>2, <2>2, Constants DEF SessionOf, Sessions
  <2>5. session[c.shard][c.epoch].status # "completed"
    BY <2>1 DEF SessionOf
  <2> QED
    BY <1>2, <1>3, <1>4, <2>1, <2>2, <2>3, <2>4, <2>5, WorkInv
<1>8. CASE ChildDies(c)
  <2> DEFINE now == session[c.shard][c.epoch]
  <2>1. /\ Exit(c, "failed", NoWindow)
        /\ UNCHANGED <<ledger, coordinator, session, cycles, frozen, shared, abandoned>>
    BY <1>8 DEF ChildDies
  <2>2. /\ children' \subseteq Child /\ OneOfAttempt(children')
        /\ \A d \in children' : d \in children \/ Ended(d, c, now)
    BY <1>5, <2>1, ExitChildren DEF Ended
  <2>3. now \in Sessions /\ now = SessionOf(c)
    BY <1>2 DEF SessionOf
  <2>4. /\ session' = [session EXCEPT ![c.shard][c.epoch] = now]
        /\ cycles' = [cycles EXCEPT ![c.shard] = CyclesBefore(c.epoch) + now.done]
    BY <1>2, <1>3, <2>1, <2>3
  <2>5. session[c.shard][c.epoch].done <= now.done
    BY <2>3 DEF Sessions
  <2>6. session[c.shard][c.epoch].status = "completed" => now = session[c.shard][c.epoch]
    OBVIOUS
  <2> HIDE DEF now
  <2> QED
    BY <1>2, <1>4, <2>1, <2>2, <2>3, <2>4, <2>5, <2>6, WorkInv
<1>9. CASE Report(c)
  <2> DEFINE status == session[c.shard][c.epoch].status
             now == [session[c.shard][c.epoch] EXCEPT
                       !.status = IF status = "open" THEN "completed" ELSE status]
             window == [from |-> WindowEnd(c.shard, c.epoch), to |-> cycles[c.shard]]
  <2>1. /\ SessionOf(c).status = "open" => SessionOf(c).done = EpochCycleCount
        /\ session' = [session EXCEPT ![c.shard][c.epoch] = now]
        /\ UNCHANGED <<ledger, coordinator, cycles, frozen, shared, abandoned>>
        /\ IF SessionOf(c).status # "stopped" /\ window.to > window.from
             THEN Exit(c, "succeeded", window) ELSE Exit(c, "failed", NoWindow)
    BY <1>9 DEF Report
  <2>2. /\ now \in Sessions /\ now.done = SessionOf(c).done /\ SessionOf(c).done \in Nat
        /\ now.status = "completed" => SessionOf(c).status # "stopped"
        /\ SessionOf(c).status # "stopped" => now.status = "completed"
        /\ SessionOf(c).status = "completed" => now = SessionOf(c)
    BY <1>2 DEF Sessions, SessionOf
  <2>3. SessionOf(c).status # "stopped" => SessionOf(c).done = EpochCycleCount
    BY <1>2, <2>1 DEF Sessions
  <2>4. now.status = "completed" => now.done = EpochCycleCount
    BY <2>2, <2>3
  <2>5. cycles' = [cycles EXCEPT ![c.shard] = CyclesBefore(c.epoch) + now.done]
    BY <1>2, <1>3, <2>1, <2>2
  <2>6. /\ children' \subseteq Child /\ OneOfAttempt(children')
        /\ \A d \in children' : d \in children \/ Ended(d, c, now)
    <3>1. CASE SessionOf(c).status # "stopped" /\ window.to > window.from
      <4>1. /\ Exit(c, "succeeded", window) /\ window \in Window
            /\ window = [from |-> CyclesBefore(c.epoch),
                         to |-> CyclesBefore(c.epoch) + EpochCycleCount]
        <5>1. /\ window.from = CyclesBefore(c.epoch)
              /\ window.to = CyclesBefore(c.epoch) + EpochCycleCount
              /\ window.to \in Nat
          BY <1>2, <2>3, <3>1, Constants
        <5> QED
          BY <1>2, <2>1, <3>1, <5>1 DEF Window
      <4>2. now = [status |-> "completed", done |-> EpochCycleCount]
        BY <2>2, <2>3, <3>1 DEF Sessions
      <4> HIDE DEF now, window, status
      <4> QED
        BY <4>1, <4>2, ExitChildren DEF Ended
    <3>2. CASE ~(SessionOf(c).status # "stopped" /\ window.to > window.from)
      <4>1. Exit(c, "failed", NoWindow)
        BY <2>1, <3>2
      <4> HIDE DEF now, window, status
      <4> QED
        BY <1>5, <4>1, ExitChildren DEF Ended
    <3> QED
      BY <3>1, <3>2
  <2>7. session[c.shard][c.epoch].done <= now.done /\ now.done <= EpochCycleCount
    BY <1>2, <2>2 DEF SessionOf
  <2>8. session[c.shard][c.epoch].status = "completed" => now = session[c.shard][c.epoch]
    BY <2>2 DEF SessionOf
  <2> HIDE DEF now, window, status
  <2> QED
    BY <1>2, <1>4, <2>1, <2>2, <2>4, <2>5, <2>6, <2>7, <2>8, WorkInv
<1> QED
  BY <1>6, <1>7, <1>8, <1>9

-------------------------------------------------------------------------------
LEMMA NextInv ==
  ASSUME Inv, [Next]_vars
  PROVE  Inv'
<1>1. CASE UNCHANGED vars
  BY <1>1, FaultTypes, FrameInv DEF vars
<1>2. CASE StartRun \/ GiveUp \/ Freeze
  BY <1>2, RunStepsInv
<1>3. CASE LeaseBatch
  BY <1>3, LeaseBatchInv
<1>4. CASE Tick
  BY <1>4, TickInv
<1>5. CASE Restart \/ \E waiter \in {"run", "rejected"} : KillCoordinator(waiter)
  BY <1>5, KillsInv
<1>6. ASSUME NEW c \in children, Proceed(c) \/ StopSession(c) \/ ChildDies(c)
      PROVE  Inv'
  <2>1. CASE RunCycle(c) \/ StopSession(c) \/ ChildDies(c) \/ Report(c)
    BY <2>1, ChildStepsInv
  <2>2. CASE Record(c)
    BY <2>2, RecordInv
  <2>3. CASE RefuseLate(c) \/ KillLateChild(c)
    BY <2>3, RejectInv DEF RefuseLate, KillLateChild
  <2> QED
    BY <1>6, <2>1, <2>2, <2>3 DEF Proceed
<1> QED
  BY <1>1, <1>2, <1>3, <1>4, <1>5, <1>6 DEF Next

(***************************************************************************)
(* The inductive invariant of the collection: epochs are started in turn,  *)
(* a live child is its epoch's last attempt, and the cycles of a shard's   *)
(* world are those of its completed epochs and of the next one's session.  *)
(***************************************************************************)
THEOREM Invariance == Spec => []Inv
<1>1. Inv /\ [Next]_vars => Inv'
  BY NextInv
<1> QED
  BY InitInv, <1>1, PTL DEF Spec

(* The ledger, the children and the sessions keep their types. *)
THEOREM CollectionTypesCorrect == Spec => []TypeOK
<1>1. Inv => TypeOK
  BY DEF Inv
<1> QED
  BY Invariance, <1>1, PTL

(* No world of a single society goes into an epoch before every shard has  *)
(* completed the last: the barrier of previousEpochComplete, and the       *)
(* durable session that keeps an attempt from going on past its epoch.     *)
THEOREM SocietyStaysInStep == Spec => []SocietyInStep
<1>1. ASSUME Inv, SingleSociety, shared = {}, NEW s \in Shards, NEW t \in Shards,
             NEW e \in Epochs, cycles[s] > e * EpochCycleCount
      PROVE  cycles[t] >= e * EpochCycleCount
  <2>1. /\ e \in Nat /\ CyclesBefore(e) = e * EpochCycleCount /\ CyclesBefore(e) \in Nat
        /\ cycles[s] \in Nat /\ cycles[t] \in Nat
    BY <1>1, TypesOf, CyclesBeforeNext DEF CyclesBefore, Inv
  <2>2. CASE e = 0
    BY <2>1, <2>2, CyclesBeforeNext
  <2>3. CASE e # 0
    <3>1. e - 1 \in Epochs /\ e - 1 \in Nat /\ e - 1 < e /\ (e - 1) + 1 = e
      BY <2>1, <2>3, Constants DEF Epochs
    <3>2. ledger[s][e].attempt > 0
      <4>1. ledger[s][e].attempt \in Nat
        BY <1>1, TypesOf DEF Inv
      <4>2. ledger[s][e].attempt # 0
        BY <1>1, <2>1 DEF Inv, CyclesCounted
      <4> QED
        BY <4>1, <4>2
    <3>3. Completed(t, e - 1)
      BY <1>1, <3>1, <3>2 DEF Inv, EpochsInTurn
    <3>4. cycles[t] >= CyclesBefore(e - 1) + EpochCycleCount
      BY <1>1, <3>1, <3>3 DEF Inv, CyclesCounted
    <3>5. CyclesBefore(e) = CyclesBefore(e - 1) + EpochCycleCount
      BY <3>1, CyclesBeforeNext
    <3> QED
      BY <2>1, <3>4, <3>5
  <2> QED
    BY <2>2, <2>3
<1>2. Inv => SocietyInStep
  BY <1>1 DEF SocietyInStep
<1> QED
  BY Invariance, <1>2, PTL

(* A completed epoch went through its cycles once, whatever was killed or  *)
(* late: the retry goes on with the session of the epoch.                  *)
THEOREM EpochsAreRunOnce == Spec => []EpochsRunOnce
<1>1. ASSUME Inv, NEW s \in Shards \ shared, NEW e \in Epochs,
             ledger[s][e].status = "completed"
      PROVE  ledger[s][e].window = [from |-> e * EpochCycleCount,
                                    to |-> (e + 1) * EpochCycleCount]
  <2>1. ledger[s][e].window = [from |-> CyclesBefore(e), to |-> CyclesBefore(e) + EpochCycleCount]
    BY <1>1 DEF Inv, WindowsRight, Completed
  <2>2. CyclesBefore(e + 1) = CyclesBefore(e) + EpochCycleCount
    BY Constants, CyclesBeforeNext
  <2> QED
    BY <2>1, <2>2 DEF CyclesBefore
<1>2. Inv => EpochsRunOnce
  BY <1>1 DEF EpochsRunOnce
<1> QED
  BY Invariance, <1>2, PTL

(* Two children meet in a runtime root only after a coordinator or a run   *)
(* left some of its children behind.                                       *)
THEOREM RootsAreSharedWhenAbandoned == Spec => []SharedOnlyWhenAbandoned
<1>1. Inv => SharedOnlyWhenAbandoned
  BY DEF Inv, AbandonedChildren, SharedOnlyWhenAbandoned
<1> QED
  BY Invariance, <1>1, PTL

===============================================================================
