------------------------- MODULE RuntimeLoopProofs -------------------------
(***************************************************************************)
(* Proofs about the runtime of one partition (RuntimeLoop): for every      *)
(* number of agents, ticks, operations, commands, kills, pauses and        *)
(* resets.                                                                 *)
(*                                                                         *)
(* The invariant is made of parts.  Types, the drain, the order of the     *)
(* stream, the ticks an operation has left, and the cycles a kill costs    *)
(* are invariant whatever happens; the parts below them say what holds as  *)
(* long as no process dies and no reset is requested, and what holds in a  *)
(* recovery of ticks whose commands append nothing.                        *)
(***************************************************************************)
EXTENDS RuntimeLoop, FiniteSetTheorems, TLAPS

Key == Promise!Key
SlotKeys == Promise!SlotKey
CommandKeys == Promise!CommandKey
Finished(t) == Promise!Finished(t)

Handling == {"remember", "trace", "checkpoint"}
Stepping == {"step", "drain", "remember", "trace", "checkpoint", "tick",
             "cycle", "boundary"}
InBatch == Stepping \cup {"finish", "return", "settled"}
Ticking == {"tick", "cycle", "boundary"}

Status == {"none", "running", "paused", "completed", "command-drain-failed",
           "reset-requested"}
Outcomes == {"none", "completed", "paused", "command-drain-failed", "threw",
             "reset-pending"}

DerivedTypes ==
  /\ snapshot \in [sequence : Nat, projection : Seq(Key)]
  /\ snapshot.sequence <= Len(stream)
  /\ projection \in Seq(Key) /\ expectedVersion \in 0..Len(stream)
  /\ recovering \in BOOLEAN /\ hydratedTo \in 0..Len(stream)
  /\ recoveryTo \in 0..Len(stream) \cup {NoSequence}
  /\ recoveryThrough \in 0..Len(stream)

CommandTypes ==
  /\ commandStream \in Seq(CommandKinds) /\ Len(commandStream) <= Commands
  /\ consumed \in 0..Len(commandStream) /\ drainTo \in 0..Len(commandStream)
  /\ memories \in [1..Commands -> Nat] /\ traced \subseteq 1..Commands

LifecycleTypes ==
  /\ lifecycle \in [status : Status, nextTick : 1..(Ticks + 1),
                    lastApplied : Nat, operation : Nat,
                    completedTicks : 0..BatchSize]
  /\ lifecycle.lastApplied <= Len(stream)

BatchTypes ==
  /\ operation \in Nat /\ tick \in 1..(Ticks + 1)
  /\ previousTicks \in Nat /\ completedTicks \in Nat
  /\ previousTicks + completedTicks <= BatchSize

SlotTypes ==
  /\ phase \in Phase /\ slot \in 0..(LastSlot + 1)
  /\ phase \in {"tick", "cycle"} => tick <= Ticks
  /\ phase = "cycle" => IsAgentSlot
  /\ cycleEffects \subseteq AgentSlots /\ intent \subseteq AgentSlots

EnvironmentTypes ==
  /\ acknowledged \in 0..Operations /\ outcome \in Outcomes
  /\ crashes \in Nat /\ pauses \in 0..MaxPauses /\ resets \in Nat

LoopTypes ==
  /\ stream \in Seq(Key) /\ DerivedTypes /\ CommandTypes /\ LifecycleTypes
  /\ BatchTypes /\ SlotTypes /\ EnvironmentTypes

\* What a command's handling leaves, in the order it leaves it.
Blocked == Written(CommandKey(Record))
DrainInv ==
  /\ phase \in {"drain"} \cup Handling => consumed <= drainTo
  /\ phase \in Handling => consumed < drainTo
  /\ phase \in {"remember", "trace"} => commandStream[Record] # "register"
  /\ CheckpointFollowsEffects
  /\ phase \in Handling /\ commandStream[Record] # "note" => Blocked
  /\ phase \in {"trace", "checkpoint"} /\ commandStream[Record] # "register" =>
       memories[Record] > 0
  /\ phase = "checkpoint" /\ commandStream[Record] # "register" =>
       Record \in traced
  /\ \A n \in 1..Len(stream) : stream[n] \in CommandKeys =>
       /\ stream[n].command <= consumed + 1
       /\ stream[n].command <= Len(commandStream)
       /\ commandStream[stream[n].command] # "note"
  /\ phase = "drain" /\ Blocked => consumed < drainTo
  /\ phase \in Ticking => ~Blocked

MemoryInv ==
  \A n \in 1..Commands :
    /\ n <= consumed => memories[n] <= 1 + crashes
    /\ n = Record => memories[n] <= IF phase \in {"trace", "checkpoint"}
                                    THEN 1 + crashes ELSE crashes
    /\ n > Record => memories[n] = 0

\* A tick is entered behind a finished one, and goes on behind its last append.
OrderInv ==
  /\ Finished(lifecycle.nextTick - 1) /\ Finished(tick - 1)
  /\ \A n \in 1..Len(stream) : stream[n] \in SlotKeys =>
       \A t \in 1..stream[n].tick : Written(SlotKey(t, 0))
  /\ phase \in {"tick", "boundary"} /\ slot > 0 =>
       /\ expectedVersion > 0
       /\ stream[expectedVersion] \in SlotKeys
       /\ stream[expectedVersion].tick = tick
       /\ stream[expectedVersion].slot < slot
       /\ (stream[expectedVersion].slot + 1)..(slot - 1) \subseteq 1..Agents
  /\ phase = "boundary" => slot = LastSlot + 1
  /\ phase = "cycle" =>
       expectedVersion > 0 /\ stream[expectedVersion] = CurrentKey

\* A drain that has failed fails again: the partition does not tick any more.
Stuck == Blocked /\ phase \notin Handling
Base == BatchSize * (acknowledged + pauses)

TicksInv ==
  /\ phase \in InBatch => acknowledged < Operations
                          /\ operation = acknowledged + 1
  /\ phase \in Stepping => previousTicks + completedTicks < BatchSize
  /\ lifecycle.status = "command-drain-failed" => Stuck
  /\ lifecycle.status \in {"none", "reset-requested"} => lifecycle.nextTick = 1
  /\ ~Stuck =>
       /\ lifecycle.status \in {"running", "paused"} =>
            lifecycle.nextTick - 1 <= Base + lifecycle.completedTicks
       /\ lifecycle.status = "completed" =>
            lifecycle.nextTick - 1
              <= Base + IF lifecycle.operation = acknowledged + 1
                        THEN BatchSize ELSE 0
       /\ phase \in InBatch =>
            tick - 1 <= Base + previousTicks + completedTicks

\* The cycles that have appended and whose memory and progress no step saves.
Lost == LostCycles \ IF phase = "cycle" THEN {expectedVersion} ELSE {}
CyclesInv == Cardinality(Lost) <= crashes

LoopInv ==
  LoopTypes /\ DrainInv /\ MemoryInv /\ OrderInv /\ TicksInv /\ CyclesInv

-----------------------------------------------------------------------------

\* An operation has exactly its ticks if nobody pauses or resets it.
ExactBatch ==
  /\ lifecycle.status \notin {"paused", "reset-requested"}
  /\ lifecycle.status = "none" => acknowledged = 0
  /\ phase \in InBatch \ {"return", "settled"} => lifecycle.status = "running"
  /\ phase \in Stepping =>
       lifecycle.completedTicks = previousTicks + completedTicks
  /\ phase = "finish" => previousTicks + completedTicks = BatchSize
  /\ phase \in {"return", "settled"} =>
       /\ lifecycle.status = outcome
       /\ lifecycle.operation = operation /\ lifecycle.nextTick = tick
       /\ outcome = "completed" => previousTicks + completedTicks = BatchSize
  /\ ~Stuck /\ lifecycle.status \in {"none", "running"} =>
       lifecycle.nextTick - 1 = BatchSize * acknowledged + lifecycle.completedTicks
  /\ lifecycle.status = "completed" =>
       /\ lifecycle.operation \in {acknowledged, acknowledged + 1}
       /\ lifecycle.nextTick - 1 = BatchSize * lifecycle.operation
  /\ ~Stuck /\ phase \in InBatch =>
       tick - 1 = BatchSize * acknowledged + previousTicks + completedTicks
  /\ Stuck =>
       /\ lifecycle.status \in {"running", "command-drain-failed"}
       /\ lifecycle.status = "running" => lifecycle.completedTicks < BatchSize
       /\ phase \in {"down", "idle", "step", "drain", "return"}
  /\ acknowledged > 0 => Written(SlotKey(BatchSize * acknowledged, 0))
BatchInv == pauses = 0 /\ resets = 0 => ExactBatch

\* The slots in front of the one the tick has come to.
Before(key) ==
  \/ key.tick < tick
  \/ /\ phase \in Ticking /\ key.tick = tick
     /\ IF phase = "cycle" THEN key.slot <= slot ELSE key.slot < slot
AllBefore ==
  \A n \in 1..Len(stream) : stream[n] \in SlotKeys => Before(stream[n])

\* Without a kill and a reset nothing is ever replayed.
SnapshotInv == snapshot.projection = Prefix(stream, snapshot.sequence)
Undisturbed ==
  /\ RecoveryIsExact
  /\ recoveryTo = NoSequence /\ ~recovering
  /\ phase # "down"
  /\ phase \in {"idle", "return", "settled"} => lifecycle.status # "running"
  /\ lifecycle.status \notin {"command-drain-failed", "reset-requested"}
  /\ lifecycle.nextTick = tick
  /\ ~Stuck
  /\ AllBefore
  /\ phase \in Ticking => expectedVersion = Len(stream)
  /\ phase \in {"drain"} \cup Handling \cup Ticking => projection = stream
  /\ SnapshotInv
HarmlessInv == crashes = 0 /\ resets = 0 => Undisturbed

\* Commands that append nothing leave replayed ticks their versions.
NotesInv ==
  /\ phase \in {"drain"} \cup Handling =>
       /\ projection = Prefix(stream, hydratedTo)
       /\ ~recovering => hydratedTo = Len(stream)
  /\ phase \in Ticking => projection = Prefix(stream, expectedVersion)
  /\ SnapshotInv

\* A replayed tick meets its appends in the order it made them, all of them.
Precedes(key, other) ==
  \/ key.tick < other.tick
  \/ key.tick = other.tick /\ key.slot < other.slot
Due == {key \in SlotKeys : key.slot \in 1..Agents => key \in intent}

\* The stream has every append that is due, in the order of the ticks.
InOrder ==
  /\ \A n \in 1..Len(stream) : stream[n] \in Due
  /\ \A m, n \in 1..Len(stream) : m < n => Precedes(stream[m], stream[n])
  /\ \A n \in 1..Len(stream) :
       \A key \in Due : Precedes(key, stream[n]) => Written(key)

\* The lifecycle state says where the next tick begins.
AtBoundary ==
  /\ \A n \in 1..lifecycle.lastApplied : stream[n].tick < lifecycle.nextTick
  /\ \A n \in (lifecycle.lastApplied + 1)..Len(stream) :
       stream[n].tick = lifecycle.nextTick
  /\ \A key \in Due : key.tick < lifecycle.nextTick => Written(key)
  /\ lifecycle.lastApplied < Len(stream) =>
       lifecycle.status = "running" /\ lifecycle.completedTicks < BatchSize

\* The process replays from there, or goes on from the end of the stream.
Replays == recoveryTo # NoSequence /\ recoveryTo < recoveryThrough
FromBoundary ==
  /\ phase \in Stepping \cup {"finish"} => lifecycle.nextTick = tick
  /\ phase = "step" => lifecycle.lastApplied = IF Replays THEN recoveryTo
                                               ELSE Len(stream)
  /\ phase \in {"drain"} \cup Handling =>
       lifecycle.lastApplied = IF recovering THEN hydratedTo ELSE Len(stream)
  /\ phase \in {"drain"} \cup Handling \cup Ticking /\ Replays => recovering
  /\ phase = "finish" => lifecycle.lastApplied = Len(stream)

\* The tick has met the appends in front of its next slot, and no other.
InStep ==
  /\ \A n \in 1..expectedVersion : Before(stream[n])
  /\ \A n \in (expectedVersion + 1)..Len(stream) : ~Before(stream[n])
  /\ \A key \in Due : Before(key) => Written(key)
  /\ ~recovering => expectedVersion = Len(stream)
  /\ phase = "boundary" => expectedVersion = Len(stream)

ExactReplay ==
  /\ RecoveryIsExact /\ InOrder /\ AtBoundary /\ FromBoundary
  /\ phase \in Ticking => InStep
ReplayInv == pauses = 0 /\ resets = 0 => ExactReplay

-----------------------------------------------------------------------------
(* Numbers and keys.                                                       *)

(* The slots of a tick, and the ticks the bounds allow, are numbers.       *)
LEMMA Numbers ==
  /\ Agents \in Nat /\ BatchSize \in Nat \ {0} /\ DrainLimit \in Nat \ {0}
  /\ Operations \in Nat /\ Commands \in Nat /\ MaxPauses \in Nat
  /\ LastSlot \in Nat /\ Agents <= LastSlot /\ LastSlot <= Agents + 1
  /\ Ticks \in Nat
<1>1. Agents \in Nat /\ BatchSize \in Nat \ {0} /\ DrainLimit \in Nat \ {0}
      /\ Operations \in Nat /\ Commands \in Nat /\ MaxPauses \in Nat
  BY RuntimeLoopAssumption DEF RuntimeLoopAssumption
<1>2. LastSlot \in Nat /\ Agents <= LastSlot /\ LastSlot <= Agents + 1
  BY <1>1 DEF LastSlot, Promise!LastSlot
<1>3. Ticks \in Nat
  BY <1>1 DEF Ticks
<1> QED
  BY <1>1, <1>2, <1>3

(* A key is a slot's or a command's, and says which.                       *)
LEMMA Keys ==
  /\ Key = SlotKeys \cup CommandKeys
  /\ SlotKeys \cap CommandKeys = {}
  /\ \A key \in SlotKeys :
       /\ key.tick \in 1..Ticks /\ key.slot \in 0..LastSlot
       /\ key = SlotKey(key.tick, key.slot)
  /\ \A key \in CommandKeys :
       key.command \in 1..Commands /\ key = CommandKey(key.command)
  /\ \A t \in 1..Ticks, s \in 0..LastSlot :
       /\ SlotKey(t, s) \in SlotKeys
       /\ SlotKey(t, s).tick = t /\ SlotKey(t, s).slot = s
  /\ \A n \in 1..Commands :
       CommandKey(n) \in CommandKeys /\ CommandKey(n).command = n
  /\ AgentSlots \subseteq SlotKeys
  /\ \A key \in SlotKeys : key \in AgentSlots <=> key.slot \in 1..Agents
<1>1. Key = SlotKeys \cup CommandKeys
  BY DEF Key, SlotKeys, CommandKeys, Promise!Key
<1>2. SlotKeys = [tick : 1..Ticks, slot : 0..LastSlot]
  BY DEF SlotKeys, Promise!SlotKey, LastSlot
<1>3. CommandKeys = [command : 1..Commands]
  BY DEF CommandKeys, Promise!CommandKey
<1>4. SlotKeys \cap CommandKeys = {}
  BY <1>2, <1>3
<1>5. AgentSlots \subseteq SlotKeys
  BY <1>2, Numbers DEF AgentSlots
<1>6. \A key \in SlotKeys : key \in AgentSlots <=> key.slot \in 1..Agents
  BY <1>2 DEF AgentSlots
<1> QED
  BY <1>1, <1>2, <1>3, <1>4, <1>5, <1>6, Numbers DEF SlotKey, CommandKey

-----------------------------------------------------------------------------
(* Sequences.                                                              *)

(* A key appended to a sequence of keys is its last element.               *)
LEMMA Appended ==
  ASSUME NEW s \in Seq(Key), NEW key \in Key
  PROVE  /\ Append(s, key) \in Seq(Key) /\ Len(s) \in Nat
         /\ Len(Append(s, key)) = Len(s) + 1
         /\ \A n \in 1..Len(s) : Append(s, key)[n] = s[n]
         /\ Append(s, key)[Len(s) + 1] = key
  OBVIOUS

(* A prefix is a sequence of the length asked for, with the same elements. *)
LEMMA PrefixElements ==
  ASSUME NEW s \in Seq(Key), NEW n \in 0..Len(s)
  PROVE  /\ Prefix(s, n) \in Seq(Key) /\ Len(Prefix(s, n)) = n
         /\ \A m \in 1..n : Prefix(s, n)[m] = s[m]
  BY DEF Prefix

(* Sequences of keys of the same length and elements are equal.            *)
LEMMA SameSequence ==
  ASSUME NEW s \in Seq(Key), NEW t \in Seq(Key), Len(s) = Len(t),
         \A n \in 1..Len(s) : s[n] = t[n]
  PROVE  s = t
  OBVIOUS

(* A sequence is its longest prefix.                                       *)
LEMMA WholePrefix ==
  ASSUME NEW s \in Seq(Key)
  PROVE  Prefix(s, Len(s)) = s
<1>1. Len(s) \in 0..Len(s)
  OBVIOUS
<1> QED
  BY <1>1, PrefixElements, SameSequence

(* A prefix with the element behind it is the next prefix.                 *)
LEMMA NextPrefix ==
  ASSUME NEW s \in Seq(Key), NEW n \in 0..Len(s), n < Len(s)
  PROVE  Append(Prefix(s, n), s[n + 1]) = Prefix(s, n + 1)
<1> DEFINE one == Append(Prefix(s, n), s[n + 1])
           two == Prefix(s, n + 1)
<1>1. s[n + 1] \in Key /\ n + 1 \in 0..Len(s) /\ n \in Nat
  OBVIOUS
<1>2. /\ Prefix(s, n) \in Seq(Key) /\ Len(Prefix(s, n)) = n
      /\ \A m \in 1..n : Prefix(s, n)[m] = s[m]
  BY PrefixElements
<1>3. /\ two \in Seq(Key) /\ Len(two) = n + 1
      /\ \A m \in 1..(n + 1) : two[m] = s[m]
  BY <1>1, PrefixElements
<1>4. /\ one \in Seq(Key) /\ Len(one) = n + 1
      /\ \A m \in 1..n : one[m] = Prefix(s, n)[m]
      /\ one[n + 1] = s[n + 1]
  BY <1>1, <1>2, Appended
<1>5. \A m \in 1..(n + 1) : one[m] = two[m]
  BY <1>1, <1>2, <1>3, <1>4
<1> HIDE DEF one, two
<1>6. one = two
  BY <1>3, <1>4, <1>5, SameSequence
<1> QED
  BY <1>6 DEF one, two

(* A sequence that grows keeps its prefixes.                               *)
LEMMA PrefixOfAppended ==
  ASSUME NEW s \in Seq(Key), NEW key \in Key, NEW n \in 0..Len(s)
  PROVE  Prefix(Append(s, key), n) = Prefix(s, n)
<1> DEFINE longer == Append(s, key)
<1>1. /\ longer \in Seq(Key) /\ n \in 0..Len(longer) /\ n \in Nat
      /\ \A m \in 1..n : longer[m] = s[m]
  BY Appended
<1> HIDE DEF longer
<1>2. /\ Prefix(longer, n) \in Seq(Key) /\ Len(Prefix(longer, n)) = n
      /\ \A m \in 1..n : Prefix(longer, n)[m] = longer[m]
  BY <1>1, PrefixElements
<1>3. /\ Prefix(s, n) \in Seq(Key) /\ Len(Prefix(s, n)) = n
      /\ \A m \in 1..n : Prefix(s, n)[m] = s[m]
  BY PrefixElements
<1>4. Prefix(longer, n) = Prefix(s, n)
  BY <1>1, <1>2, <1>3, SameSequence
<1> QED
  BY <1>4 DEF longer

(* Two sequences of keys, one behind the other.                            *)
LEMMA Joined ==
  ASSUME NEW s \in Seq(Key), NEW t \in Seq(Key)
  PROVE  /\ s \o t \in Seq(Key) /\ Len(s \o t) = Len(s) + Len(t)
         /\ \A k \in 1..Len(s) : (s \o t)[k] = s[k]
         /\ \A k \in 1..Len(t) : (s \o t)[Len(s) + k] = t[k]
  OBVIOUS

(* Hydration from a prefix gives the longer prefix.                        *)
LEMMA PrefixContinued ==
  ASSUME NEW s \in Seq(Key), NEW n \in 0..Len(s), NEW m \in 0..n
  PROVE  Prefix(s, m) \o SubSeq(s, m + 1, n) = Prefix(s, n)
<1> DEFINE front == Prefix(s, m)
           rest == SubSeq(s, m + 1, n)
           both == front \o rest
<1>1. m \in Nat /\ n \in Nat /\ m \in 0..Len(s) /\ m <= n /\ n <= Len(s)
  OBVIOUS
<1>2. /\ front \in Seq(Key) /\ Len(front) = m
      /\ \A k \in 1..m : front[k] = s[k]
  BY <1>1, PrefixElements
<1>3. /\ rest \in Seq(Key) /\ Len(rest) = n - m
      /\ \A k \in 1..(n - m) : rest[k] = s[m + k]
  BY <1>1
<1> HIDE DEF front, rest
<1>4. /\ both \in Seq(Key) /\ Len(both) = m + (n - m)
      /\ \A k \in 1..m : both[k] = front[k]
      /\ \A k \in 1..(n - m) : both[m + k] = rest[k]
  <2>1. /\ both \in Seq(Key) /\ Len(both) = Len(front) + Len(rest)
        /\ \A k \in 1..Len(front) : both[k] = front[k]
        /\ \A k \in 1..Len(rest) : both[Len(front) + k] = rest[k]
    BY <1>2, <1>3, Joined
  <2> HIDE DEF both
  <2> QED
    BY <1>2, <1>3, <2>1
<1> HIDE DEF both
<1>5. \A k \in 1..n : both[k] = s[k]
  <2> TAKE k \in 1..n
  <2>1. CASE k <= m
    BY <1>1, <1>2, <1>4, <2>1
  <2>2. CASE k > m
    <3>1. k - m \in 1..(n - m) /\ m + (k - m) = k
      BY <1>1, <2>2
    <3> QED
      BY <1>3, <1>4, <3>1
  <2> QED
    BY <1>1, <2>1, <2>2
<1>6. /\ Prefix(s, n) \in Seq(Key) /\ Len(Prefix(s, n)) = n
      /\ \A k \in 1..n : Prefix(s, n)[k] = s[k]
  BY PrefixElements
<1>7. Len(both) = n
  BY <1>1, <1>4
<1>8. both = Prefix(s, n)
  BY <1>4, <1>5, <1>6, <1>7, SameSequence
<1> QED
  BY <1>8 DEF both, front, rest

(* A written key stays written.                                            *)
LEMMA WrittenStays ==
  ASSUME stream \in Seq(Key), NEW key \in Key, stream' = Append(stream, key),
         NEW k, Written(k)
  PROVE  Written(k)'
<1>1. PICK n \in 1..Len(stream) : stream[n] = k
  BY DEF Written
<1>2. /\ Len(stream) \in Nat /\ Len(stream') = Len(stream) + 1
      /\ \A m \in 1..Len(stream) : stream'[m] = stream[m]
  BY Appended
<1>3. n \in 1..Len(stream') /\ stream'[n] = k
  BY <1>1, <1>2
<1> QED
  BY <1>3 DEF Written

(* What is written behind an append was written before or is the append.   *)
LEMMA WrittenBehind ==
  ASSUME stream \in Seq(Key), NEW key \in Key, stream' = Append(stream, key)
  PROVE  /\ Written(key)'
         /\ \A k : Written(k)' => Written(k) \/ k = key
<1>1. /\ Len(stream) \in Nat /\ Len(stream') = Len(stream) + 1
      /\ \A n \in 1..Len(stream) : stream'[n] = stream[n]
      /\ stream'[Len(stream) + 1] = key
  BY Appended
<1>2. Written(key)'
  <2>1. Len(stream) + 1 \in 1..Len(stream')
    BY <1>1
  <2> QED
    BY <1>1, <2>1 DEF Written
<1>3. ASSUME NEW k, Written(k)' PROVE Written(k) \/ k = key
  <2>1. PICK n \in 1..Len(stream') : stream'[n] = k
    BY <1>3 DEF Written
  <2>2. n \in 1..Len(stream) \/ n = Len(stream) + 1
    BY <1>1
  <2> QED
    BY <1>1, <2>1, <2>2 DEF Written
<1> QED
  BY <1>2, <1>3

-----------------------------------------------------------------------------
(* Frames: which actions change what.                                      *)

(* A batch is saved when it ends, pauses or its drain fails.               *)
Saves == PauseBeforeTick \/ DrainFails \/ FinishBatch

(* A start throws when an append or a snapshot does not fit.               *)
Throws ==
  \/ RecoveredAppendDoesNotContinue
  \/ AppendRefused
  \/ SaveSnapshot /\ snapshot.sequence > expectedVersion

(* Each variable is changed by these actions only.                         *)
LEMMA Frames ==
  ASSUME [Next]_vars
  PROVE
  /\ UNCHANGED stream \/ DispatchCommand \/ AppendSlot
  /\ UNCHANGED commandStream
           \/ (\E kind \in CommandKinds : SubmitCommand(kind))
  /\ UNCHANGED consumed \/ CheckpointCommand
  /\ UNCHANGED memories \/ RememberCommand
  /\ UNCHANGED traced \/ TraceCommand
  /\ UNCHANGED cycleEffects \/ AgentIdle \/ SaveCycleEffects
  /\ UNCHANGED snapshot \/ SaveSnapshot
  /\ UNCHANGED lifecycle \/ StartBatch \/ Saves \/ SaveSchedules
           \/ CompleteTick \/ Pause \/ Reset
  /\ UNCHANGED <<operation, previousTicks, recoveryThrough>> \/ StartBatch
           \/ Crash
  /\ UNCHANGED <<completedTicks, tick, recoveryTo>> \/ StartBatch
           \/ CompleteTick \/ Crash
  /\ UNCHANGED <<recovering, hydratedTo, drainTo>> \/ Hydrate \/ Crash
  /\ UNCHANGED projection \/ Hydrate \/ DispatchCommand \/ RecoverAppend
           \/ AppendSlot \/ Crash
  /\ UNCHANGED slot \/ BeginTick \/ RecoverAppend \/ AgentIdle \/ AppendSlot
           \/ SaveCycleEffects \/ Crash
  /\ UNCHANGED expectedVersion \/ BeginTick \/ RecoverAppend \/ AppendSlot
           \/ Crash
  /\ UNCHANGED acknowledged \/ StartCompleted \/ ReturnResult
  /\ UNCHANGED crashes \/ Crash
  /\ UNCHANGED pauses \/ Pause
  /\ UNCHANGED resets \/ Reset
  /\ UNCHANGED intent
  /\ UNCHANGED outcome \/ StartCompleted \/ StartRefused \/ Throw \/ Saves
  /\ outcome' # "threw" \/ UNCHANGED outcome \/ Throws
<1> USE DEF files, batch, step, environment, bounds
<1>1. CASE StartCompleted
  BY <1>1 DEF StartCompleted
<1>2. CASE StartRefused
  BY <1>2 DEF StartRefused
<1>3. CASE StartBatch
  BY <1>3 DEF StartBatch
<1>4. CASE Hydrate
  BY <1>4 DEF Hydrate
<1>5. CASE PauseBeforeTick
  BY <1>5 DEF PauseBeforeTick, SaveBatch, Saves
<1>6. CASE DispatchCommand
  BY <1>6 DEF DispatchCommand
<1>7. CASE DrainFails
  BY <1>7 DEF DrainFails, SaveBatch, Saves
<1>8. CASE HandleNote
  BY <1>8 DEF HandleNote
<1>9. CASE RememberCommand
  BY <1>9 DEF RememberCommand
<1>10. CASE TraceCommand
  BY <1>10 DEF TraceCommand
<1>11. CASE CheckpointCommand
  BY <1>11 DEF CheckpointCommand
<1>12. CASE BeginTick
  BY <1>12 DEF BeginTick
<1>13. CASE RecoverAppend
  BY <1>13 DEF RecoverAppend
<1>14. CASE RecoveredAppendDoesNotContinue
  BY <1>14 DEF RecoveredAppendDoesNotContinue, Throw, Throws
<1>15. CASE AgentIdle
  BY <1>15 DEF AgentIdle
<1>16. CASE AppendSlot
  BY <1>16 DEF AppendSlot
<1>17. CASE AppendRefused
  BY <1>17 DEF AppendRefused, Throw, Throws
<1>18. CASE SaveCycleEffects
  BY <1>18 DEF SaveCycleEffects
<1>19. CASE SaveSnapshot
  BY <1>19 DEF SaveSnapshot, Throw, Throws
<1>20. CASE CompleteTick
  BY <1>20 DEF CompleteTick
<1>21. CASE FinishBatch
  BY <1>21 DEF FinishBatch, SaveBatch, Saves
<1>22. CASE SaveSchedules
  BY <1>22 DEF SaveSchedules
<1>23. CASE ReturnResult
  BY <1>23 DEF ReturnResult
<1>24. CASE Pause
  BY <1>24 DEF Pause
<1>25. CASE Reset
  BY <1>25 DEF Reset
<1>26. CASE Crash
  BY <1>26 DEF Crash
<1>27. CASE Restart
  BY <1>27 DEF Restart
<1>28. CASE \E kind \in CommandKinds : SubmitCommand(kind)
  BY <1>28 DEF SubmitCommand
<1>29. CASE UNCHANGED vars
  BY <1>29 DEF vars
<1> QED
  BY <1>1, <1>2, <1>3, <1>4, <1>5, <1>6, <1>7, <1>8, <1>9, <1>10, <1>11,
     <1>12, <1>13, <1>14, <1>15, <1>16, <1>17, <1>18, <1>19, <1>20, <1>21,
     <1>22, <1>23, <1>24, <1>25, <1>26, <1>27, <1>28, <1>29
     DEF Next, Start, Run, Drain, Tick

(* The phases follow one another through these actions; the others leave   *)
(* the process where it is.                                                *)
LEMMA Phases ==
  ASSUME [Next]_vars
  PROVE
  \/ UNCHANGED phase
  \/ StartBatch /\ phase = "idle" /\ phase' \in {"step", "finish"}
  \/ Hydrate /\ phase = "step" /\ phase' = "drain"
  \/ DispatchCommand /\ phase = "drain" /\ phase' \in {"remember", "checkpoint"}
  \/ HandleNote /\ phase = "drain" /\ phase' = "remember"
  \/ RememberCommand /\ phase = "remember" /\ phase' = "trace"
  \/ TraceCommand /\ phase = "trace" /\ phase' = "checkpoint"
  \/ CheckpointCommand /\ phase = "checkpoint" /\ phase' = "drain"
  \/ BeginTick /\ phase = "drain" /\ phase' = "tick"
  \/ AppendSlot /\ phase = "tick" /\ phase' = "cycle" /\ IsAgentSlot
  \/ SaveCycleEffects /\ phase = "cycle" /\ phase' = "tick"
  \/ SaveSnapshot /\ phase = "tick" /\ phase' = "boundary" /\ ~Throw
  \/ CompleteTick /\ phase = "boundary" /\ phase' \in {"step", "finish"}
  \/ Saves /\ phase \in {"step", "drain", "finish"} /\ phase' = "return"
  \/ SaveSchedules /\ phase = "return" /\ phase' = "settled"
  \/ ReturnResult /\ phase \in {"return", "settled"} /\ phase' = "idle"
  \/ Throw /\ phase = "tick" /\ phase' = "idle"
  \/ Crash /\ phase' = "down"
  \/ Restart /\ phase = "down" /\ phase' = "idle"
<1> USE DEF files, batch, step, environment, bounds
<1>1. CASE StartCompleted
  BY <1>1 DEF StartCompleted
<1>2. CASE StartRefused
  BY <1>2 DEF StartRefused
<1>3. CASE StartBatch
  BY <1>3 DEF StartBatch
<1>4. CASE Hydrate
  BY <1>4 DEF Hydrate
<1>5. CASE PauseBeforeTick
  BY <1>5 DEF PauseBeforeTick, SaveBatch, Saves
<1>6. CASE DispatchCommand
  BY <1>6 DEF DispatchCommand, Draining
<1>7. CASE DrainFails
  BY <1>7 DEF DrainFails, SaveBatch, Saves, Draining
<1>8. CASE HandleNote
  BY <1>8 DEF HandleNote, Draining
<1>9. CASE RememberCommand
  BY <1>9 DEF RememberCommand
<1>10. CASE TraceCommand
  BY <1>10 DEF TraceCommand
<1>11. CASE CheckpointCommand
  BY <1>11 DEF CheckpointCommand
<1>12. CASE BeginTick
  BY <1>12 DEF BeginTick
<1>13. CASE RecoverAppend
  BY <1>13 DEF RecoverAppend
<1>14. CASE RecoveredAppendDoesNotContinue
  BY <1>14 DEF RecoveredAppendDoesNotContinue, Throw, InTick
<1>15. CASE AgentIdle
  BY <1>15 DEF AgentIdle
<1>16. CASE AppendSlot
  BY <1>16 DEF AppendSlot, InTick
<1>17. CASE AppendRefused
  BY <1>17 DEF AppendRefused, Throw, InTick
<1>18. CASE SaveCycleEffects
  BY <1>18 DEF SaveCycleEffects
<1>19. CASE SaveSnapshot
  BY <1>19 DEF SaveSnapshot, Throw
<1>20. CASE CompleteTick
  BY <1>20 DEF CompleteTick
<1>21. CASE FinishBatch
  BY <1>21 DEF FinishBatch, SaveBatch, Saves
<1>22. CASE SaveSchedules
  BY <1>22 DEF SaveSchedules
<1>23. CASE ReturnResult
  BY <1>23 DEF ReturnResult
<1>24. CASE Pause
  BY <1>24 DEF Pause
<1>25. CASE Reset
  BY <1>25 DEF Reset
<1>26. CASE Crash
  BY <1>26 DEF Crash
<1>27. CASE Restart
  BY <1>27 DEF Restart
<1>28. CASE \E kind \in CommandKinds : SubmitCommand(kind)
  BY <1>28 DEF SubmitCommand
<1>29. CASE UNCHANGED vars
  BY <1>29 DEF vars
<1> QED
  BY <1>1, <1>2, <1>3, <1>4, <1>5, <1>6, <1>7, <1>8, <1>9, <1>10, <1>11,
     <1>12, <1>13, <1>14, <1>15, <1>16, <1>17, <1>18, <1>19, <1>20, <1>21,
     <1>22, <1>23, <1>24, <1>25, <1>26, <1>27, <1>28, <1>29
     DEF Next, Start, Run, Drain, Tick

-----------------------------------------------------------------------------
(* The stream.                                                             *)

(* The append of a drained command is a command's key.                     *)
LEMMA CommandAppended ==
  ASSUME LoopTypes, DispatchCommand
  PROVE  /\ CommandKey(Record) \in CommandKeys /\ CommandKey(Record) \in Key
         /\ CommandKey(Record).command = Record
         /\ Record \in 1..Len(commandStream) /\ Record \in 1..Commands
         /\ ~Written(CommandKey(Record))
         /\ stream' = Append(stream, CommandKey(Record))
<1>1. Record \in 1..Len(commandStream) /\ Record \in 1..Commands
  BY Numbers DEF LoopTypes, CommandTypes, DispatchCommand, Draining, Record
<1>2. ~Written(CommandKey(Record)) /\ stream' = Append(stream, CommandKey(Record))
  BY DEF DispatchCommand
<1> QED
  BY <1>1, <1>2, Keys

(* The append of a tick is the key of the slot it has come to.             *)
LEMMA SlotAppended ==
  ASSUME LoopTypes, AppendSlot
  PROVE  /\ CurrentKey \in SlotKeys /\ CurrentKey \in Key
         /\ CurrentKey.tick = tick /\ CurrentKey.slot = slot
         /\ tick \in 1..Ticks /\ slot \in 0..LastSlot
         /\ ~Written(CurrentKey) /\ expectedVersion = Len(stream)
         /\ stream' = Append(stream, CurrentKey)
<1>1. tick \in 1..Ticks /\ slot \in 0..LastSlot
  BY Numbers DEF LoopTypes, SlotTypes, BatchTypes, AppendSlot, InTick
<1>2. /\ ~Written(CurrentKey) /\ expectedVersion = Len(stream)
      /\ stream' = Append(stream, CurrentKey)
  BY DEF AppendSlot
<1> QED
  BY <1>1, <1>2, Keys DEF CurrentKey

(* The stream only grows.                                                  *)
LEMMA StreamGrows ==
  ASSUME LoopTypes, [Next]_vars
  PROVE  /\ stream' \in Seq(Key)
         /\ Len(stream) \in Nat /\ Len(stream') \in Nat
         /\ Len(stream) <= Len(stream')
         /\ \A n \in 1..Len(stream) : stream'[n] = stream[n]
         /\ \A k : Written(k) => Written(k)'
<1>1. stream \in Seq(Key)
  BY DEF LoopTypes
<1>2. CASE UNCHANGED stream
  BY <1>1, <1>2 DEF Written
<1>3. ASSUME NEW key \in Key, stream' = Append(stream, key)
      PROVE  /\ stream' \in Seq(Key)
             /\ Len(stream) \in Nat /\ Len(stream') \in Nat
             /\ Len(stream) <= Len(stream')
             /\ \A n \in 1..Len(stream) : stream'[n] = stream[n]
             /\ \A k : Written(k) => Written(k)'
  <2>1. \A k : Written(k) => Written(k)'
    BY <1>1, <1>3, WrittenStays
  <2> QED
    BY <1>1, <1>3, <2>1, Appended
<1>4. CASE DispatchCommand
  BY <1>3, <1>4, CommandAppended
<1>5. CASE AppendSlot
  BY <1>3, <1>5, SlotAppended
<1> QED
  BY <1>2, <1>4, <1>5, Frames

(* What is written is a key, and what a step writes was not written.       *)
LEMMA WrittenKeys ==
  ASSUME LoopTypes
  PROVE  /\ \A k : Written(k) => k \in Key
         /\ \A n \in 1..Len(stream) : stream[n] \in Key /\ Written(stream[n])
  BY DEF LoopTypes, Written

-----------------------------------------------------------------------------
(* Types.                                                                  *)

(* The hydration goes to the boundary to replay from, or to the end.       *)
LEMMA Hydrated ==
  ASSUME LoopTypes, Hydrate
  PROVE  /\ recovering' \in BOOLEAN /\ hydratedTo' \in 0..Len(stream)
         /\ recovering' => /\ recoveryTo # NoSequence
                           /\ recoveryTo < recoveryThrough
                           /\ hydratedTo' = recoveryTo
         /\ ~recovering' => hydratedTo' = Len(stream)
         /\ ~recovering' => recoveryTo = NoSequence
                             \/ ~(recoveryTo < recoveryThrough)
<1>1. recovering' = (recoveryTo # NoSequence /\ recoveryTo < recoveryThrough)
  BY DEF Hydrate
<1>2. hydratedTo' = IF recovering' THEN recoveryTo ELSE Len(stream)
  BY DEF Hydrate
<1>3. stream \in Seq(Key) /\ recoveryTo \in 0..Len(stream) \cup {NoSequence}
  BY DEF LoopTypes, DerivedTypes
<1>4. CASE recoveryTo # NoSequence /\ recoveryTo < recoveryThrough
  BY <1>1, <1>2, <1>3, <1>4
<1>5. CASE ~(recoveryTo # NoSequence /\ recoveryTo < recoveryThrough)
  <2>1. ~recovering' /\ hydratedTo' = Len(stream) /\ recovering' \in BOOLEAN
    BY <1>1, <1>2, <1>5, Zenon
  <2>2. Len(stream) \in 0..Len(stream)
    BY <1>3
  <2> QED
    BY <1>5, <2>1, <2>2
<1> QED
  BY <1>4, <1>5

(* What the process derives from the stream lies in it.                    *)
LEMMA DerivedTypesStep ==
  ASSUME LoopTypes, [Next]_vars
  PROVE  DerivedTypes'
<1> USE DEF LoopTypes, DerivedTypes
<1>1. stream' \in Seq(Key) /\ Len(stream) \in Nat /\ Len(stream') \in Nat
      /\ Len(stream) <= Len(stream')
  BY StreamGrows
<1>2. snapshot' \in [sequence : Nat, projection : Seq(Key)]
      /\ snapshot'.sequence <= Len(stream')
  <2>1. CASE UNCHANGED snapshot
    BY <1>1, <2>1
  <2>2. CASE SaveSnapshot
    BY <1>1, <2>2 DEF SaveSnapshot, Throw, files
  <2> QED
    BY <2>1, <2>2, Frames
<1>3. projection' \in Seq(Key)
  <2>1. CASE UNCHANGED projection
    BY <2>1
  <2>2. CASE Hydrate
    <3>1. hydratedTo' \in 0..Len(stream)
      BY <2>2, Hydrated
    <3>2. Prefix(stream, hydratedTo') \in Seq(Key)
      BY <3>1, PrefixElements
    <3>3. SubSeq(stream, snapshot.sequence + 1, hydratedTo') \in Seq(Key)
      BY <1>1, <3>1
    <3>4. snapshot.projection \o SubSeq(stream, snapshot.sequence + 1, hydratedTo')
            \in Seq(Key)
      BY <3>3
    <3> QED
      BY <2>2, <3>2, <3>4, Zenon DEF Hydrate
  <2>3. CASE DispatchCommand
    BY <2>3, CommandAppended, Appended DEF DispatchCommand
  <2>4. CASE RecoverAppend
    BY <2>4, Appended, WrittenKeys DEF RecoverAppend, Recoverable
  <2>5. CASE AppendSlot
    BY <2>5, SlotAppended, Appended DEF AppendSlot
  <2>6. CASE Crash
    BY <2>6 DEF Crash
  <2> QED
    BY <2>1, <2>2, <2>3, <2>4, <2>5, <2>6, Frames
<1>4. recovering' \in BOOLEAN /\ hydratedTo' \in 0..Len(stream')
  <2>1. CASE UNCHANGED <<recovering, hydratedTo, drainTo>>
    BY <1>1, <2>1
  <2>2. CASE Hydrate
    <3>1. stream' = stream
      BY <2>2 DEF Hydrate, files
    <3>2. hydratedTo' \in 0..Len(stream)
      BY <2>2, Hydrated
    <3>3. recovering' \in BOOLEAN
      BY <2>2, Hydrated, Zenon
    <3>4. hydratedTo' \in 0..Len(stream')
      BY <3>1, <3>2
    <3> QED
      BY <3>3, <3>4
  <2>3. CASE Crash
    <3>1. hydratedTo' \in 0..Len(stream')
      BY <1>1, <2>3 DEF Crash
    <3>2. recovering' \in BOOLEAN
      BY <2>3, Zenon DEF Crash
    <3> QED
      BY <3>1, <3>2, Zenon
  <2> QED
    BY <2>1, <2>2, <2>3, Frames
<1>5. expectedVersion' \in 0..Len(stream')
  <2>1. CASE UNCHANGED expectedVersion
    BY <1>1, <2>1
  <2>2. CASE BeginTick
    BY <1>1, <2>2 DEF BeginTick
  <2>3. CASE RecoverAppend
    <3>1. Position(CurrentKey) \in 1..Len(stream)
      BY <2>3 DEF RecoverAppend, Recoverable, Written, Position
    <3> QED
      BY <1>1, <2>3, <3>1 DEF RecoverAppend
  <2>4. CASE AppendSlot
    BY <1>1, <2>4, SlotAppended, Appended DEF AppendSlot
  <2>5. CASE Crash
    BY <1>1, <2>5 DEF Crash
  <2> QED
    BY <2>1, <2>2, <2>3, <2>4, <2>5, Frames
<1>6. recoveryTo' \in 0..Len(stream') \cup {NoSequence}
  <2>1. CASE UNCHANGED <<completedTicks, tick, recoveryTo>>
    BY <1>1, <2>1
  <2>2. CASE StartBatch
    BY <1>1, <2>2 DEF StartBatch, LifecycleTypes
  <2>3. CASE CompleteTick
    BY <1>1, <2>3 DEF CompleteTick
  <2>4. CASE Crash
    BY <2>4 DEF Crash
  <2> QED
    BY <2>1, <2>2, <2>3, <2>4, Frames
<1>7. recoveryThrough' \in 0..Len(stream')
  <2>1. CASE UNCHANGED <<operation, previousTicks, recoveryThrough>>
    BY <1>1, <2>1
  <2>2. CASE StartBatch
    BY <1>1, <2>2 DEF StartBatch
  <2>3. CASE Crash
    BY <1>1, <2>3 DEF Crash
  <2> QED
    BY <2>1, <2>2, <2>3, Frames
<1> QED
  BY <1>2, <1>3, <1>4, <1>5, <1>6, <1>7

(* Counting one more leaves a table of counts one.                         *)
LEMMA Counted ==
  ASSUME NEW S, NEW f \in [S -> Nat], NEW x \in S
  PROVE  [f EXCEPT ![x] = @ + 1] \in [S -> Nat]
  OBVIOUS

(* The drain's files keep their types.                                     *)
LEMMA CommandTypesStep ==
  ASSUME LoopTypes, DrainInv, [Next]_vars
  PROVE  CommandTypes'
<1> USE DEF LoopTypes, CommandTypes
<1>1. commandStream' \in Seq(CommandKinds) /\ Len(commandStream') <= Commands
      /\ Len(commandStream) <= Len(commandStream')
      /\ Len(commandStream) \in Nat /\ Len(commandStream') \in Nat
  <2>1. CASE UNCHANGED commandStream
    BY <2>1
  <2>2. ASSUME NEW kind \in CommandKinds, SubmitCommand(kind)
        PROVE  /\ commandStream' \in Seq(CommandKinds)
               /\ Len(commandStream') <= Commands
               /\ Len(commandStream) <= Len(commandStream')
               /\ Len(commandStream) \in Nat /\ Len(commandStream') \in Nat
    BY <2>2, Numbers DEF SubmitCommand
  <2> QED
    BY <2>1, <2>2, Frames
<1>2. Record \in Nat /\ (phase \in Handling => Record <= drainTo
                                                /\ Record <= Len(commandStream))
  BY <1>1 DEF Record, DrainInv
<1>3. consumed' \in 0..Len(commandStream')
  <2>1. CASE UNCHANGED consumed
    BY <1>1, <2>1
  <2>2. CASE CheckpointCommand
    BY <1>1, <1>2, <2>2 DEF CheckpointCommand, Handling
  <2> QED
    BY <2>1, <2>2, Frames
<1>4. drainTo' \in 0..Len(commandStream')
  <2>1. CASE UNCHANGED <<recovering, hydratedTo, drainTo>>
    BY <1>1, <2>1
  <2>2. CASE Hydrate
    BY <1>1, <2>2, Numbers DEF Hydrate
  <2>3. CASE Crash
    BY <1>1, <2>3 DEF Crash
  <2> QED
    BY <2>1, <2>2, <2>3, Frames
<1>5. memories' \in [1..Commands -> Nat]
  <2>1. CASE UNCHANGED memories
    BY <2>1
  <2>2. CASE RememberCommand
    <3>1. memories' = [memories EXCEPT ![Record] = @ + 1]
      BY <2>2 DEF RememberCommand
    <3>2. Record \in 1..Commands
      BY <1>1, <1>2, <2>2, Numbers DEF RememberCommand, Handling, Record
    <3> QED
      BY <3>1, <3>2, Counted
  <2> QED
    BY <2>1, <2>2, Frames
<1>6. traced' \subseteq 1..Commands
  <2>1. CASE UNCHANGED traced
    BY <2>1
  <2>2. CASE TraceCommand
    <3>1. Record \in 1..Commands
      BY <1>1, <1>2, <2>2, Numbers DEF TraceCommand, Handling, Record
    <3> QED
      BY <2>2, <3>1 DEF TraceCommand
  <2> QED
    BY <2>1, <2>2, Frames
<1> QED
  BY <1>1, <1>3, <1>4, <1>5, <1>6

(* A tick the process is about to begin, or is in, is one of the partition.*)
LEMMA TickInBounds ==
  ASSUME LoopTypes, TicksInv, phase \in Stepping, ~Stuck
  PROVE  tick \in 1..Ticks
<1> DEFINE more == acknowledged + pauses
           all == Operations + MaxPauses
           done == previousTicks + completedTicks
<1>1. more \in Nat /\ all \in Nat /\ more + 1 <= all
  BY Numbers DEF LoopTypes, EnvironmentTypes, TicksInv, InBatch
<1>2. done \in Nat /\ done + 1 <= BatchSize /\ tick \in Nat /\ 1 <= tick
      /\ BatchSize \in Nat
  BY Numbers DEF LoopTypes, BatchTypes, TicksInv
<1>3. tick - 1 <= BatchSize * more + done
  <2>1. tick - 1 <= BatchSize * more + previousTicks + completedTicks
    BY DEF TicksInv, InBatch, Base
  <2>2. BatchSize * more \in Nat
    BY <1>1, <1>2
  <2> HIDE DEF more
  <2> QED
    BY <2>1, <2>2 DEF LoopTypes, BatchTypes
<1>4. BatchSize * (more + 1) <= BatchSize * all
  <2> HIDE DEF more, all
  <2> QED
    BY <1>1, <1>2
<1> HIDE DEF more, all, done
<1>5. BatchSize * (more + 1) = BatchSize * more + BatchSize
      /\ BatchSize * more \in Nat /\ BatchSize * all \in Nat
  BY <1>1, <1>2
<1>6. tick <= BatchSize * all
  BY <1>2, <1>3, <1>4, <1>5
<1> QED
  BY <1>2, <1>5, <1>6 DEF Ticks, all

(* The lifecycle state keeps its types.                                    *)
LEMMA LifecycleTypesStep ==
  ASSUME LoopTypes, TicksInv, DrainInv, [Next]_vars
  PROVE  LifecycleTypes'
<1> USE DEF LoopTypes, LifecycleTypes
<1>1. Len(stream) \in Nat /\ Len(stream') \in Nat /\ Len(stream) <= Len(stream')
  BY StreamGrows
<1>2. BatchSize \in Nat \ {0} /\ Ticks \in Nat
  BY Numbers
<1>3. CASE UNCHANGED lifecycle
  BY <1>1, <1>3
<1>4. CASE StartBatch
  <2> DEFINE status == lifecycle.status
             done == IF status \in {"running", "paused"}
                     THEN lifecycle.completedTicks ELSE 0
             applied == IF status = "running"
                        THEN lifecycle.lastApplied ELSE Len(stream)
  <2>1. /\ lifecycle' = [status |-> "running", nextTick |-> lifecycle.nextTick,
                         lastApplied |-> applied, operation |-> acknowledged + 1,
                         completedTicks |-> done]
        /\ stream' = stream
    BY <1>4 DEF StartBatch
  <2>2. done \in 0..BatchSize /\ applied \in Nat /\ applied <= Len(stream)
    BY <1>1, <1>2
  <2>3. acknowledged + 1 \in Nat
    BY Numbers DEF EnvironmentTypes
  <2> HIDE DEF done, applied
  <2> QED
    BY <2>1, <2>2, <2>3 DEF Status
<1>5. ASSUME NEW st \in Status, stream' = stream,
             lifecycle' = [status |-> st, nextTick |-> tick,
                           lastApplied |-> Len(stream), operation |-> operation,
                           completedTicks |-> previousTicks + completedTicks]
      PROVE  LifecycleTypes'
  BY <1>1, <1>2, <1>5 DEF BatchTypes
<1>6. CASE Saves
  <2>1. PICK st \in {"paused", "command-drain-failed", "completed"} : SaveBatch(st)
    BY <1>6 DEF Saves, PauseBeforeTick, DrainFails, FinishBatch
  <2> QED
    BY <1>5, <2>1 DEF SaveBatch, Status
<1>7. CASE SaveSchedules
  BY <1>5, <1>7 DEF SaveSchedules, Status
<1>8. CASE CompleteTick
  <2>1. tick \in 1..Ticks
    <3>1. phase = "boundary" /\ ~Blocked
      BY <1>8 DEF CompleteTick, DrainInv, Ticking
    <3> QED
      BY <3>1, TickInBounds DEF Stuck, Stepping
  <2>2. previousTicks + completedTicks + 1 \in 0..BatchSize
    BY <1>2, <1>8 DEF CompleteTick, TicksInv, Stepping, BatchTypes
  <2> DEFINE st == IF lifecycle.status = "paused" THEN "paused" ELSE "running"
  <2>3. /\ lifecycle' = [status |-> st, nextTick |-> tick + 1,
                         lastApplied |-> Len(stream), operation |-> operation,
                         completedTicks |-> previousTicks + completedTicks + 1]
        /\ stream' = stream
    BY <1>8 DEF CompleteTick
  <2>4. st \in Status
    BY DEF Status
  <2> HIDE DEF st
  <2> QED
    BY <1>1, <1>2, <2>1, <2>2, <2>3, <2>4 DEF BatchTypes
<1>9. CASE Pause
  <2> DEFINE done == IF lifecycle.status \in {"running", "paused"}
                     THEN lifecycle.completedTicks ELSE 0
  <2>1. /\ lifecycle' = [lifecycle EXCEPT !.status = "paused",
                                          !.lastApplied = Len(stream),
                                          !.completedTicks = done]
        /\ stream' = stream
    BY <1>9 DEF Pause
  <2>2. done \in 0..BatchSize
    BY <1>2
  <2> HIDE DEF done
  <2> QED
    BY <1>1, <2>1, <2>2 DEF Status
<1>10. CASE Reset
  BY <1>1, <1>2, <1>10 DEF Reset, Status
<1> QED
  BY <1>3, <1>4, <1>6, <1>7, <1>8, <1>9, <1>10, Frames

(* The batch keeps its types.                                              *)
LEMMA BatchTypesStep ==
  ASSUME LoopTypes, TicksInv, DrainInv, [Next]_vars
  PROVE  BatchTypes'
<1> USE DEF LoopTypes, BatchTypes
<1>1. BatchSize \in Nat \ {0} /\ Ticks \in Nat
  BY Numbers
<1>2. CASE UNCHANGED <<operation, previousTicks, recoveryThrough>>
           /\ UNCHANGED <<completedTicks, tick, recoveryTo>>
  BY <1>2
<1>3. CASE StartBatch
  BY <1>1, <1>3, Numbers DEF StartBatch, LifecycleTypes, EnvironmentTypes
<1>4. CASE CompleteTick
  <2>1. tick \in 1..Ticks
    <3>1. phase = "boundary" /\ ~Blocked
      BY <1>4 DEF CompleteTick, DrainInv, Ticking
    <3> QED
      BY <3>1, TickInBounds DEF Stuck, Stepping
  <2>2. previousTicks + completedTicks < BatchSize
    BY <1>4 DEF CompleteTick, TicksInv, Stepping
  <2> QED
    BY <1>1, <1>4, <2>1, <2>2 DEF CompleteTick
<1>5. CASE Crash
  BY <1>1, <1>5 DEF Crash
<1> QED
  BY <1>2, <1>3, <1>4, <1>5, Frames

(* The tick stays within its slots.                                        *)
LEMMA SlotTypesStep ==
  ASSUME LoopTypes, TicksInv, DrainInv, [Next]_vars
  PROVE  SlotTypes'
<1> USE DEF LoopTypes, SlotTypes
<1>1. LastSlot \in Nat /\ Agents \in Nat
  BY Numbers
<1>2. phase' \in Phase
  BY Phases DEF Phase
<1>3. slot' \in 0..(LastSlot + 1)
  <2>1. CASE UNCHANGED slot
    BY <2>1
  <2>2. CASE BeginTick \/ Crash
    BY <1>1, <2>2 DEF BeginTick, Crash
  <2>3. CASE RecoverAppend \/ AgentIdle \/ AppendSlot
    BY <1>1, <2>3 DEF RecoverAppend, AgentIdle, AppendSlot, InTick
  <2>4. CASE SaveCycleEffects
    BY <1>1, <2>4, Numbers DEF SaveCycleEffects, IsAgentSlot
  <2> QED
    BY <2>1, <2>2, <2>3, <2>4, Frames
<1>4. phase' \in {"tick", "cycle"} => tick' <= Ticks
  <2> SUFFICES ASSUME phase' \in {"tick", "cycle"} PROVE tick' <= Ticks
    OBVIOUS
  <2>1. CASE BeginTick
    <3>1. ~Blocked /\ phase = "drain"
      BY <2>1 DEF BeginTick, DrainInv, CommandTypes
    <3>2. tick \in 1..Ticks
      BY <3>1, TickInBounds DEF Stuck, Stepping
    <3> QED
      BY <2>1, <3>2 DEF BeginTick, batch
  <2>2. CASE phase \in {"tick", "cycle"} /\ tick' = tick
    BY <2>2
  <2>3. phase \in {"tick", "cycle"} \/ BeginTick
    BY Phases
  <2>4. ~StartBatch /\ ~Crash /\ ~CompleteTick
    BY DEF StartBatch, Crash, CompleteTick
  <2> QED
    BY <2>1, <2>2, <2>3, <2>4, Frames
<1>5. phase' = "cycle" => IsAgentSlot'
  <2> SUFFICES ASSUME phase' = "cycle" PROVE IsAgentSlot'
    OBVIOUS
  <2>1. CASE AppendSlot
    BY <2>1 DEF AppendSlot, IsAgentSlot
  <2>2. CASE phase = "cycle" /\ slot' = slot
    BY <2>2 DEF IsAgentSlot
  <2>3. phase = "cycle" \/ AppendSlot
    BY Phases
  <2>4. phase = "cycle" =>
          ~BeginTick /\ ~RecoverAppend /\ ~AgentIdle /\ ~SaveCycleEffects /\ ~Crash
    BY DEF BeginTick, RecoverAppend, AgentIdle, InTick, SaveCycleEffects, Crash
  <2> QED
    BY <2>1, <2>2, <2>3, <2>4, Frames
<1>6. cycleEffects' \subseteq AgentSlots
  <2>1. CASE UNCHANGED cycleEffects
    BY <2>1
  <2>2. ASSUME phase \in {"tick", "cycle"}, IsAgentSlot
        PROVE  CurrentKey \in AgentSlots
    BY <2>2, Numbers DEF CurrentKey, SlotKey, AgentSlots, IsAgentSlot, BatchTypes
  <2>3. CASE AgentIdle
    BY <2>2, <2>3 DEF AgentIdle, InTick
  <2>4. CASE SaveCycleEffects
    BY <2>2, <2>4 DEF SaveCycleEffects
  <2> QED
    BY <2>1, <2>3, <2>4, Frames
<1>7. intent' \subseteq AgentSlots
  BY Frames
<1> QED
  BY <1>2, <1>3, <1>4, <1>5, <1>6, <1>7

(* The caller's bookkeeping keeps its types.                               *)
LEMMA EnvironmentTypesStep ==
  ASSUME LoopTypes, TicksInv, [Next]_vars
  PROVE  EnvironmentTypes'
<1> USE DEF LoopTypes, EnvironmentTypes
<1>1. acknowledged' \in 0..Operations
  <2>1. CASE StartCompleted
    BY <2>1, Numbers DEF StartCompleted
  <2>2. CASE ReturnResult
    BY <2>2, Numbers DEF ReturnResult, TicksInv, InBatch
  <2> QED
    BY <2>1, <2>2, Frames
<1>2. outcome' \in Outcomes
  <2>1. CASE StartCompleted \/ StartRefused \/ Throw
    BY <2>1 DEF StartCompleted, StartRefused, Throw, Outcomes
  <2>2. CASE Saves
    <3>1. outcome' \in {"paused", "command-drain-failed", "completed"}
      BY <2>2, Zenon
         DEF Saves, PauseBeforeTick, DrainFails, FinishBatch, SaveBatch
    <3> QED
      BY <3>1 DEF Outcomes
  <2> QED
    BY <2>1, <2>2, Frames
<1>3. crashes' \in Nat
  <2>1. UNCHANGED crashes \/ Crash
    BY Frames, Zenon
  <2> QED
    BY <2>1 DEF Crash
<1>4. pauses' \in 0..MaxPauses
  <2>1. UNCHANGED pauses \/ Pause
    BY Frames, Zenon
  <2> QED
    BY <2>1, Numbers DEF Pause
<1>5. resets' \in Nat
  <2>1. UNCHANGED resets \/ Reset
    BY Frames, Zenon
  <2> QED
    BY <2>1 DEF Reset
<1> QED
  BY <1>1, <1>2, <1>3, <1>4, <1>5

(* All types together.                                                     *)
LEMMA TypesStep ==
  ASSUME LoopTypes, TicksInv, DrainInv, [Next]_vars
  PROVE  LoopTypes'
BY StreamGrows, DerivedTypesStep, CommandTypesStep, LifecycleTypesStep,
   BatchTypesStep, SlotTypesStep, EnvironmentTypesStep DEF LoopTypes

(* The records of the command stream stay as they are.                     *)
LEMMA RecordsStand ==
  ASSUME LoopTypes, [Next]_vars
  PROVE  /\ Len(commandStream) \in Nat /\ Len(commandStream') \in Nat
         /\ Len(commandStream) <= Len(commandStream')
         /\ \A n \in 1..Len(commandStream) : commandStream'[n] = commandStream[n]
<1>1. CASE UNCHANGED commandStream
  BY <1>1 DEF LoopTypes, CommandTypes
<1>2. ASSUME NEW kind \in CommandKinds, SubmitCommand(kind)
      PROVE  /\ Len(commandStream) \in Nat /\ Len(commandStream') \in Nat
             /\ Len(commandStream) <= Len(commandStream')
             /\ \A n \in 1..Len(commandStream) :
                  commandStream'[n] = commandStream[n]
  BY <1>2 DEF SubmitCommand, LoopTypes, CommandTypes
<1> QED
  BY <1>1, <1>2, Frames

-----------------------------------------------------------------------------
(* The drain.                                                              *)

(* A slot's key is no command's, whatever their numbers.                   *)
LEMMA KeyKinds ==
  /\ \A n : CommandKey(n) \in Key =>
       CommandKey(n) \in CommandKeys /\ CommandKey(n).command = n
         /\ n \in 1..Commands
  /\ \A t, s : SlotKey(t, s) \in Key =>
       SlotKey(t, s) \in SlotKeys /\ t \in 1..Ticks /\ s \in 0..LastSlot
         /\ SlotKey(t, s).tick = t /\ SlotKey(t, s).slot = s
<1>1. SlotKeys = [tick : 1..Ticks, slot : 0..LastSlot]
  BY DEF SlotKeys, Promise!SlotKey, LastSlot
<1>2. CommandKeys = [command : 1..Commands]
  BY DEF CommandKeys, Promise!CommandKey
<1>3. \A n : CommandKey(n) \notin SlotKeys
  BY <1>1 DEF CommandKey
<1>4. \A t, s : SlotKey(t, s) \notin CommandKeys
  BY <1>2 DEF SlotKey
<1>5. \A n : CommandKey(n) \in CommandKeys =>
        CommandKey(n).command = n /\ n \in 1..Commands
  BY <1>2 DEF CommandKey
<1>6. \A t, s : SlotKey(t, s) \in SlotKeys =>
        /\ t \in 1..Ticks /\ s \in 0..LastSlot
        /\ SlotKey(t, s).tick = t /\ SlotKey(t, s).slot = s
  BY <1>1 DEF SlotKey
<1> QED
  BY <1>3, <1>4, <1>5, <1>6, Keys

(* A command that has appended is a record the drain has come to.          *)
LEMMA AppendedCommand ==
  ASSUME LoopTypes, DrainInv, NEW n, Written(CommandKey(n))
  PROVE  /\ n \in 1..Commands /\ n \in 1..Len(commandStream)
         /\ n <= Record /\ commandStream[n] # "note"
<1>1. PICK m \in 1..Len(stream) : stream[m] = CommandKey(n)
  BY DEF Written
<1>2. /\ CommandKey(n) \in CommandKeys /\ CommandKey(n).command = n
      /\ n \in 1..Commands
  BY <1>1, WrittenKeys, KeyKinds
<1>3. /\ n <= consumed + 1 /\ n <= Len(commandStream)
      /\ commandStream[n] # "note"
  BY <1>1, <1>2 DEF DrainInv
<1>4. Len(commandStream) \in Nat
  BY DEF LoopTypes, CommandTypes
<1> QED
  BY <1>2, <1>3, <1>4, Numbers DEF Record

(* Only a checkpoint moves the drain on, and only a hydration bounds it.   *)
LEMMA DrainMoves ==
  ASSUME LoopTypes, [Next]_vars
  PROVE  /\ phase' \in Handling \cup Ticking => UNCHANGED <<consumed, drainTo>>
         /\ phase' = "drain" => \/ phase = "drain" /\ UNCHANGED <<consumed, drainTo>>
                                \/ Hydrate \/ CheckpointCommand
<1>1. CASE phase' \in Handling \cup Ticking
  <2>1. ~Hydrate /\ ~CheckpointCommand /\ ~Crash
    BY <1>1 DEF Hydrate, CheckpointCommand, Crash, Handling, Ticking
  <2> QED
    BY <1>1, <2>1, Frames DEF Handling, Ticking
<1>2. CASE phase' = "drain" /\ ~Hydrate /\ ~CheckpointCommand
  <2>1. ~Crash
    BY <1>2 DEF Crash
  <2>2. phase = "drain"
    BY <1>2, <2>1, Phases
  <2> QED
    BY <1>2, <2>1, <2>2, Frames
<1> QED
  BY <1>1, <1>2 DEF Handling, Ticking

(* The records handled so far keep their effects.                          *)
LEMMA EffectsStand ==
  ASSUME LoopTypes, [Next]_vars
  PROVE  /\ \A n \in 1..Commands : memories[n] <= memories'[n]
                                   /\ memories[n] \in Nat /\ memories'[n] \in Nat
         /\ traced \subseteq traced'
<1>1. \A n \in 1..Commands : memories[n] <= memories'[n]
                             /\ memories[n] \in Nat /\ memories'[n] \in Nat
  <2>1. CASE UNCHANGED memories
    BY <2>1 DEF LoopTypes, CommandTypes
  <2>2. CASE RememberCommand
    BY <2>2 DEF RememberCommand, LoopTypes, CommandTypes
  <2> QED
    BY <2>1, <2>2, Frames
<1>2. traced \subseteq traced'
  BY Frames DEF TraceCommand
<1> QED
  BY <1>1, <1>2

(* The order in which a command's handling writes is kept by every step.   *)
LEMMA DrainStep ==
  ASSUME LoopTypes, DrainInv, [Next]_vars
  PROVE  DrainInv'
<1>1. /\ consumed \in Nat /\ drainTo \in Nat
      /\ consumed <= Len(commandStream) /\ drainTo <= Len(commandStream)
      /\ Len(commandStream) <= Commands /\ Commands \in Nat
  BY Numbers DEF LoopTypes, CommandTypes
<1>2. /\ Len(commandStream) \in Nat /\ Len(commandStream') \in Nat
      /\ Len(commandStream) <= Len(commandStream')
      /\ \A n \in 1..Len(commandStream) : commandStream'[n] = commandStream[n]
  BY RecordsStand
<1>3. phase \in Handling => Record \in 1..Len(commandStream)
                              /\ Record \in 1..Commands
  BY <1>1 DEF DrainInv, Record
<1>4. /\ \A n \in 1..Commands : memories[n] <= memories'[n]
                                /\ memories[n] \in Nat /\ memories'[n] \in Nat
      /\ traced \subseteq traced'
  BY EffectsStand
<1>5. \A k : Written(k) => Written(k)'
  BY StreamGrows
<1>6. CASE CheckpointCommand
  <2>1. /\ consumed' = Record /\ phase' = "drain" /\ phase = "checkpoint"
        /\ UNCHANGED <<stream, commandStream, memories, traced, drainTo>>
    BY <1>6 DEF CheckpointCommand, step
  <2>2. Record \in 1..Len(commandStream) /\ Record <= drainTo
        /\ Record = consumed + 1 /\ Record' = Record + 1
    BY <1>1, <1>3, <2>1 DEF Handling, DrainInv, Record
  <2>3. CheckpointFollowsEffects'
    <3> SUFFICES ASSUME NEW n \in 1..Record
                 PROVE  /\ commandStream[n] # "note" => Written(CommandKey(n))
                        /\ commandStream[n] # "register" =>
                             memories[n] > 0 /\ n \in traced
      BY <2>1 DEF CheckpointFollowsEffects, Written
    <3>1. CASE n \in 1..consumed
      BY <3>1 DEF DrainInv, CheckpointFollowsEffects
    <3>2. CASE n = Record
      BY <2>1, <3>2 DEF DrainInv, Handling, Blocked
    <3> QED
      BY <1>1, <2>2, <3>1, <3>2
  <2>4. \A n \in 1..Len(stream) : stream[n] \in CommandKeys =>
          /\ stream[n].command <= Record + 1
          /\ stream[n].command <= Len(commandStream)
          /\ commandStream[stream[n].command] # "note"
    BY <1>1, <2>2, Keys, Numbers DEF DrainInv
  <2>5. ~Blocked'
    <3> SUFFICES ASSUME Written(CommandKey(Record + 1)) PROVE FALSE
      BY <2>1, <2>2 DEF Blocked, Written
    <3>1. Record + 1 <= Record
      BY AppendedCommand
    <3> QED
      BY <1>1, <2>2, <3>1
  <2> QED
    BY <2>1, <2>2, <2>3, <2>4, <2>5 DEF DrainInv, Handling, Ticking
<1>7. CASE ~CheckpointCommand
  <2>1. consumed' = consumed /\ Record' = Record
    BY <1>7, Frames DEF Record
  <2>2. CheckpointFollowsEffects'
    <3> SUFFICES ASSUME NEW n \in 1..consumed
                 PROVE  /\ commandStream'[n] # "note" => Written(CommandKey(n))'
                        /\ commandStream'[n] # "register" =>
                             memories'[n] > 0 /\ n \in traced'
      BY <2>1 DEF CheckpointFollowsEffects
    <3>1. /\ commandStream[n] # "note" => Written(CommandKey(n))
          /\ commandStream[n] # "register" => memories[n] > 0 /\ n \in traced
      BY DEF DrainInv, CheckpointFollowsEffects
    <3>2. n \in 1..Len(commandStream) /\ n \in 1..Commands
      BY <1>1
    <3> QED
      BY <1>2, <1>4, <1>5, <3>1, <3>2
  <2>3. \A n \in 1..Len(stream') : stream'[n] \in CommandKeys =>
          /\ stream'[n].command <= consumed' + 1
          /\ stream'[n].command <= Len(commandStream')
          /\ commandStream'[stream'[n].command] # "note"
    <3>1. ASSUME NEW key \in CommandKeys, key.command <= consumed + 1,
                 key.command <= Len(commandStream),
                 commandStream[key.command] # "note"
          PROVE  /\ key.command <= consumed' + 1
                 /\ key.command <= Len(commandStream')
                 /\ commandStream'[key.command] # "note"
      <4>1. key.command \in 1..Len(commandStream)
        BY <1>2, <3>1, Keys, Numbers
      <4> QED
        BY <1>2, <2>1, <3>1, <4>1
    <3>2. CASE UNCHANGED stream
      BY <3>1, <3>2 DEF DrainInv
    <3>3. CASE DispatchCommand
      <4>1. /\ CommandKey(Record) \in CommandKeys
            /\ CommandKey(Record).command = Record
            /\ Record \in 1..Len(commandStream)
            /\ commandStream[Record] # "note"
            /\ stream' = Append(stream, CommandKey(Record))
            /\ CommandKey(Record) \in Key /\ stream \in Seq(Key)
        BY <3>3, CommandAppended DEF DispatchCommand, LoopTypes
      <4>2. /\ Len(stream) \in Nat /\ Len(stream') = Len(stream) + 1
            /\ \A n \in 1..Len(stream) : stream'[n] = stream[n]
            /\ stream'[Len(stream) + 1] = CommandKey(Record)
        BY <4>1, Appended
      <4> TAKE n \in 1..Len(stream')
      <4>3. CASE n \in 1..Len(stream)
        BY <3>1, <4>2, <4>3 DEF DrainInv
      <4>4. CASE n = Len(stream) + 1
        BY <1>1, <3>1, <4>1, <4>2, <4>4 DEF Record
      <4> QED
        BY <4>2, <4>3, <4>4
    <3>4. CASE AppendSlot
      <4>1. /\ CurrentKey \in Key /\ CurrentKey \notin CommandKeys
            /\ stream' = Append(stream, CurrentKey) /\ stream \in Seq(Key)
        BY <3>4, SlotAppended, Keys DEF LoopTypes
      <4>2. /\ Len(stream) \in Nat /\ Len(stream') = Len(stream) + 1
            /\ \A n \in 1..Len(stream) : stream'[n] = stream[n]
            /\ stream'[Len(stream) + 1] = CurrentKey
        BY <4>1, Appended
      <4> TAKE n \in 1..Len(stream')
      <4>3. CASE n \in 1..Len(stream)
        BY <3>1, <4>2, <4>3 DEF DrainInv
      <4>4. CASE n = Len(stream) + 1
        BY <4>1, <4>2, <4>4
      <4> QED
        BY <4>2, <4>3, <4>4
    <3> QED
      BY <3>2, <3>3, <3>4, Frames
  <2>4. ASSUME phase' \in Handling
        PROVE  /\ consumed' < drainTo'
               /\ phase' \in {"remember", "trace"} =>
                    commandStream'[Record'] # "register"
               /\ commandStream'[Record'] # "note" => Blocked'
               /\ phase' \in {"trace", "checkpoint"}
                    /\ commandStream'[Record'] # "register" =>
                      memories'[Record'] > 0
               /\ phase' = "checkpoint" /\ commandStream'[Record'] # "register" =>
                    Record' \in traced'
    <3>1. drainTo' = drainTo
      BY <2>4, DrainMoves
    <3>2. ASSUME Record \in 1..Len(commandStream)
          PROVE  commandStream'[Record'] = commandStream[Record]
      BY <1>2, <2>1, <3>2
    <3>3. CASE phase' = phase
      <4>1. Record \in 1..Len(commandStream) /\ Record \in 1..Commands
        BY <1>3, <2>4, <3>3
      <4>2. consumed < drainTo
        BY <2>4, <3>3 DEF DrainInv
      <4>3. commandStream[Record] # "note" => Blocked'
        BY <1>5, <2>1, <2>4, <3>3 DEF DrainInv, Blocked
      <4> QED
        BY <1>4, <2>1, <2>4, <3>1, <3>2, <3>3, <4>1, <4>2, <4>3
           DEF DrainInv, Handling
    <3>4. CASE DispatchCommand
      <4>1. /\ Record \in 1..Len(commandStream) /\ consumed < drainTo
            /\ phase' = IF commandStream[Record] = "register" THEN "checkpoint"
                        ELSE "remember"
        BY <3>4, CommandAppended DEF DispatchCommand, Draining
      <4>2. Blocked'
        <5>1. PICK key \in Key :
                key = CommandKey(Record) /\ stream' = Append(stream, key)
          BY <3>4, CommandAppended
        <5>2. Written(key)'
          BY <5>1, WrittenBehind DEF LoopTypes
        <5> QED
          BY <2>1, <5>1, <5>2 DEF Blocked, Written
      <4> QED
        BY <2>1, <3>1, <3>2, <4>1, <4>2
    <3>5. CASE HandleNote
      <4>1. /\ consumed < drainTo /\ commandStream[Record] = "note"
            /\ phase' = "remember"
        BY <3>5 DEF HandleNote, Draining
      <4>2. Record \in 1..Len(commandStream)
        BY <1>1, <4>1 DEF Record
      <4> QED
        BY <2>1, <3>1, <3>2, <4>1, <4>2
    <3>6. CASE RememberCommand
      <4>1. phase = "remember" /\ phase' = "trace"
            /\ memories' = [memories EXCEPT ![Record] = @ + 1]
        BY <3>6 DEF RememberCommand
      <4>2. Record \in 1..Len(commandStream) /\ Record \in 1..Commands
        BY <1>3, <4>1 DEF Handling
      <4>3. memories'[Record] > 0
        BY <4>1, <4>2 DEF LoopTypes, CommandTypes
      <4>4. commandStream[Record] # "note" => Blocked'
        BY <1>5, <2>1, <4>1 DEF DrainInv, Blocked, Handling
      <4>5. consumed < drainTo /\ commandStream[Record] # "register"
        BY <4>1 DEF DrainInv, Handling
      <4> QED
        BY <2>1, <3>1, <3>2, <4>1, <4>2, <4>3, <4>4, <4>5
    <3>7. CASE TraceCommand
      <4>1. phase = "trace" /\ phase' = "checkpoint" /\ Record \in traced'
        BY <3>7 DEF TraceCommand
      <4>2. Record \in 1..Len(commandStream) /\ Record \in 1..Commands
        BY <1>3, <4>1 DEF Handling
      <4>3. memories'[Record] > 0
        BY <1>4, <4>1, <4>2 DEF DrainInv
      <4>4. commandStream[Record] # "note" => Blocked'
        BY <1>5, <2>1, <4>1 DEF DrainInv, Blocked, Handling
      <4>5. consumed < drainTo
        BY <4>1 DEF DrainInv, Handling
      <4> QED
        BY <2>1, <3>1, <3>2, <4>1, <4>2, <4>3, <4>4, <4>5
    <3> QED
      BY <1>7, <2>4, <3>3, <3>4, <3>5, <3>6, <3>7, Phases DEF Handling
  <2>5. ASSUME phase' = "drain"
        PROVE  consumed' <= drainTo' /\ (Blocked' => consumed' < drainTo')
    <3>1. CASE Hydrate
      <4>1. /\ drainTo' = IF consumed + DrainLimit < Len(commandStream)
                          THEN consumed + DrainLimit ELSE Len(commandStream)
            /\ stream' = stream
        BY <3>1 DEF Hydrate, files
      <4>2. Blocked' => consumed + 1 <= Len(commandStream)
        <5> SUFFICES ASSUME Written(CommandKey(Record))
                     PROVE  consumed + 1 <= Len(commandStream)
          BY <2>1, <4>1 DEF Blocked, Written
        <5> QED
          BY <1>1, AppendedCommand DEF Record
      <4> QED
        BY <1>1, <2>1, <4>1, <4>2, Numbers
    <3>2. CASE phase = "drain" /\ UNCHANGED <<consumed, drainTo>>
      <4>1. UNCHANGED stream
        <5>1. ~DispatchCommand /\ ~AppendSlot
          BY <2>5, <3>2 DEF DispatchCommand, AppendSlot, InTick
        <5> QED
          BY <5>1, Frames
      <4>2. Blocked' => Blocked
        BY <2>1, <4>1 DEF Blocked, Written
      <4> QED
        BY <3>2, <4>2 DEF DrainInv
    <3> QED
      BY <1>7, <2>5, <3>1, <3>2, DrainMoves
  <2>6. ASSUME phase' \in Ticking PROVE ~Blocked'
    <3>1. ~Blocked
      <4>1. CASE phase \in Ticking
        BY <4>1 DEF DrainInv
      <4>2. CASE BeginTick
        BY <1>1, <4>2 DEF BeginTick, DrainInv
      <4> QED
        BY <2>6, <4>1, <4>2, Phases DEF Ticking
    <3>2. CASE UNCHANGED stream
      BY <2>1, <3>1, <3>2 DEF Blocked, Written
    <3>3. CASE AppendSlot
      <4>1. CurrentKey \in Key /\ stream' = Append(stream, CurrentKey)
            /\ stream \in Seq(Key) /\ CurrentKey \notin CommandKeys
        BY <3>3, SlotAppended, Keys DEF LoopTypes
      <4>2. CommandKey(Record) # CurrentKey
        BY <4>1, KeyKinds
      <4>3. Blocked' => Blocked
        BY <2>1, <4>1, <4>2, WrittenBehind DEF Blocked
      <4> QED
        BY <3>1, <4>3
    <3>4. ~DispatchCommand
      BY <2>6 DEF DispatchCommand, Ticking
    <3> QED
      BY <3>2, <3>3, <3>4, Frames
  <2>7. consumed' \in Nat /\ drainTo' \in Nat
    BY CommandTypesStep DEF CommandTypes
  <2> QED
    BY <2>2, <2>3, <2>4, <2>5, <2>6, <2>7 DEF DrainInv, Handling, Ticking
<1> QED
  BY <1>6, <1>7

(* A command's memory is written once more for each kill at most.          *)
LEMMA MemoryStep ==
  ASSUME LoopTypes, DrainInv, MemoryInv, [Next]_vars
  PROVE  MemoryInv'
<1>1. /\ consumed \in Nat /\ Commands \in Nat /\ crashes \in Nat
      /\ memories \in [1..Commands -> Nat]
  BY Numbers DEF LoopTypes, CommandTypes, EnvironmentTypes
<1>2. crashes' \in Nat /\ crashes <= crashes'
  <2>1. UNCHANGED crashes \/ Crash
    BY Frames, Zenon
  <2> QED
    BY <1>1, <2>1 DEF Crash
<1>3. CASE RememberCommand
  <2>1. /\ memories' = [memories EXCEPT ![Record] = @ + 1]
        /\ phase = "remember" /\ phase' = "trace"
        /\ consumed' = consumed /\ crashes' = crashes
    BY <1>3 DEF RememberCommand, environment, bounds
  <2>2. Record' = Record /\ Record = consumed + 1
    BY <2>1 DEF Record
  <2> SUFFICES ASSUME NEW n \in 1..Commands
               PROVE  /\ n <= consumed => memories'[n] <= 1 + crashes
                      /\ n = Record => memories'[n] <= 1 + crashes
                      /\ n > Record => memories'[n] = 0
    BY <2>1, <2>2 DEF MemoryInv
  <2>3. CASE n = Record
    <3>1. memories'[n] = memories[n] + 1 /\ memories[n] <= crashes
      BY <1>1, <2>1, <2>3 DEF MemoryInv
    <3> QED
      BY <1>1, <2>2, <2>3, <3>1
  <2>4. CASE n # Record
    BY <1>1, <2>1, <2>2, <2>4 DEF MemoryInv
  <2> QED
    BY <2>3, <2>4
<1>4. CASE CheckpointCommand
  <2>1. /\ memories' = memories /\ phase = "checkpoint" /\ phase' = "drain"
        /\ consumed' = consumed + 1 /\ crashes' = crashes
    BY <1>4 DEF CheckpointCommand, environment, bounds, Record
  <2> QED
    BY <1>1, <2>1 DEF MemoryInv, Record
<1>5. CASE ~RememberCommand /\ ~CheckpointCommand
  <2>1. memories' = memories /\ consumed' = consumed /\ Record' = Record
    BY <1>5, Frames DEF Record
  <2>2. phase \in {"trace", "checkpoint"} =>
          phase' \in {"trace", "checkpoint"} \/ Crash
    BY <1>5, Phases
  <2>3. Crash => crashes' = crashes + 1
    BY DEF Crash
  <2> SUFFICES ASSUME NEW n \in 1..Commands
               PROVE  /\ n <= consumed => memories[n] <= 1 + crashes'
                      /\ n = Record => memories[n] <=
                           IF phase' \in {"trace", "checkpoint"}
                           THEN 1 + crashes' ELSE crashes'
                      /\ n > Record => memories[n] = 0
    BY <2>1 DEF MemoryInv
  <2> QED
    BY <1>1, <1>2, <2>2, <2>3 DEF MemoryInv
<1> QED
  BY <1>3, <1>4, <1>5

-----------------------------------------------------------------------------
(* The order of the stream.                                                *)

(* What a finished tick is, and that it stays one.                         *)
LEMMA FinishedTick ==
  \A t : Finished(t) <=>
    (t > 0 => \E n \in 1..Len(stream) :
                /\ stream[n] \in SlotKeys /\ stream[n].tick = t
                /\ (stream[n].slot + 1)..LastSlot \subseteq 1..Agents)
BY DEF Finished, Promise!Finished, Promise!Skippable, SlotKeys, LastSlot

(* A finished tick stays finished.                                         *)
LEMMA FinishedStays ==
  ASSUME LoopTypes, [Next]_vars, NEW t, Finished(t)
  PROVE  Finished(t)'
<1>1. /\ Len(stream) \in Nat /\ Len(stream') \in Nat
      /\ Len(stream) <= Len(stream')
      /\ \A n \in 1..Len(stream) : stream'[n] = stream[n]
  BY StreamGrows
<1>2. SUFFICES ASSUME t > 0
      PROVE  \E n \in 1..Len(stream') :
               /\ stream'[n] \in SlotKeys /\ stream'[n].tick = t
               /\ (stream'[n].slot + 1)..LastSlot \subseteq 1..Agents
  BY DEF Finished, Promise!Finished, Promise!Skippable, SlotKeys, LastSlot
<1>3. PICK n \in 1..Len(stream) :
        /\ stream[n] \in SlotKeys /\ stream[n].tick = t
        /\ (stream[n].slot + 1)..LastSlot \subseteq 1..Agents
  BY <1>2, FinishedTick
<1>4. n \in 1..Len(stream') /\ stream'[n] = stream[n]
  BY <1>1
<1> QED
  BY <1>3, <1>4

(* The tick counters take these values.                                    *)
LEMMA TickMoves ==
  ASSUME LoopTypes, [Next]_vars
  PROVE  /\ \/ lifecycle'.nextTick \in {lifecycle.nextTick, tick, 1}
            \/ CompleteTick /\ lifecycle'.nextTick = tick + 1
         /\ \/ tick' \in {tick, lifecycle.nextTick, 1}
            \/ CompleteTick /\ tick' = tick + 1
<1>1. \/ lifecycle'.nextTick \in {lifecycle.nextTick, tick, 1}
      \/ CompleteTick /\ lifecycle'.nextTick = tick + 1
  <2>1. CASE UNCHANGED lifecycle
    BY <2>1
  <2>2. CASE StartBatch
    BY <2>2 DEF StartBatch
  <2>3. CASE Saves
    BY <2>3 DEF Saves, PauseBeforeTick, DrainFails, FinishBatch, SaveBatch
  <2>4. CASE SaveSchedules
    BY <2>4 DEF SaveSchedules
  <2>5. CASE CompleteTick
    BY <2>5 DEF CompleteTick
  <2>6. CASE Pause
    BY <2>6 DEF Pause, LoopTypes, LifecycleTypes
  <2>7. CASE Reset
    BY <2>7 DEF Reset
  <2> QED
    BY <2>1, <2>2, <2>3, <2>4, <2>5, <2>6, <2>7, Frames
<1>2. \/ tick' \in {tick, lifecycle.nextTick, 1}
      \/ CompleteTick /\ tick' = tick + 1
  BY Frames DEF StartBatch, Crash, CompleteTick
<1> QED
  BY <1>1, <1>2

(* A tick that is completed is finished, so the next one begins behind it. *)
LEMMA FinishedStep ==
  ASSUME LoopTypes, OrderInv, [Next]_vars
  PROVE  Finished(lifecycle.nextTick - 1)' /\ Finished(tick - 1)'
<1>1. ASSUME NEW t, Finished(t) PROVE Finished(t)'
  BY <1>1, FinishedStays
<1>2. tick \in Nat /\ lifecycle.nextTick \in Nat
  BY DEF LoopTypes, BatchTypes, LifecycleTypes
<1>3. Finished(tick - 1) /\ Finished(lifecycle.nextTick - 1)
  BY DEF OrderInv
<1>4. Finished(0)
  BY FinishedTick
<1>5. CompleteTick => Finished(tick)
  <2> SUFFICES ASSUME CompleteTick PROVE Finished(tick)
    OBVIOUS
  <2>1. /\ slot = LastSlot + 1 /\ expectedVersion > 0
        /\ stream[expectedVersion] \in SlotKeys
        /\ stream[expectedVersion].tick = tick
        /\ (stream[expectedVersion].slot + 1)..(slot - 1) \subseteq 1..Agents
    BY Numbers DEF CompleteTick, OrderInv
  <2>2. expectedVersion \in 1..Len(stream) /\ slot - 1 = LastSlot
    BY <2>1, Numbers DEF LoopTypes, DerivedTypes
  <2> QED
    BY <2>1, <2>2, FinishedTick
<1>6. ASSUME NEW t, Finished(t)'
      PROVE  /\ t = lifecycle'.nextTick - 1 => Finished(lifecycle.nextTick - 1)'
             /\ t = tick' - 1 => Finished(tick - 1)'
  BY <1>6 DEF Finished, Promise!Finished
<1>7. \/ lifecycle'.nextTick - 1 \in {lifecycle.nextTick - 1, tick - 1, 0}
      \/ CompleteTick /\ lifecycle'.nextTick - 1 = tick
  BY <1>2, TickMoves
<1>8. \/ tick' - 1 \in {lifecycle.nextTick - 1, tick - 1, 0}
      \/ CompleteTick /\ tick' - 1 = tick
  BY <1>2, TickMoves
<1>9. Finished(lifecycle.nextTick - 1)'
  BY <1>1, <1>3, <1>4, <1>5, <1>6, <1>7
<1>10. Finished(tick - 1)'
  BY <1>1, <1>3, <1>4, <1>5, <1>6, <1>8
<1> QED
  BY <1>9, <1>10

(* No tick is in the stream whose time, or an earlier one's, is not.       *)
LEMMA TimesStep ==
  ASSUME LoopTypes, OrderInv, [Next]_vars
  PROVE  \A n \in 1..Len(stream') : stream'[n] \in SlotKeys =>
           \A t \in 1..stream'[n].tick : Written(SlotKey(t, 0))'
<1>1. \A k : Written(k) => Written(k)'
  BY StreamGrows
<1>2. \A n \in 1..Len(stream) : stream[n] \in SlotKeys =>
        \A t \in 1..stream[n].tick : Written(SlotKey(t, 0))
  BY DEF OrderInv
<1>3. CASE UNCHANGED stream
  BY <1>1, <1>2, <1>3
<1>4. ASSUME NEW key \in Key, stream' = Append(stream, key),
             key \in SlotKeys => \A t \in 1..key.tick : Written(SlotKey(t, 0))'
      PROVE  \A n \in 1..Len(stream') : stream'[n] \in SlotKeys =>
               \A t \in 1..stream'[n].tick : Written(SlotKey(t, 0))'
  <2>1. /\ Len(stream) \in Nat /\ Len(stream') = Len(stream) + 1
        /\ \A n \in 1..Len(stream) : stream'[n] = stream[n]
        /\ stream'[Len(stream) + 1] = key
    BY <1>4, Appended DEF LoopTypes
  <2> TAKE n \in 1..Len(stream')
  <2>2. CASE n \in 1..Len(stream)
    BY <1>1, <1>2, <2>1, <2>2
  <2>3. CASE n = Len(stream) + 1
    BY <1>4, <2>1, <2>3
  <2> QED
    BY <2>1, <2>2, <2>3
<1>5. CASE DispatchCommand
  <2>1. PICK key \in Key : key \in CommandKeys /\ stream' = Append(stream, key)
    BY <1>5, CommandAppended
  <2> QED
    BY <1>4, <2>1, Keys
<1>6. CASE AppendSlot
  <2>1. PICK key \in SlotKeys : /\ key \in Key /\ stream' = Append(stream, key)
                                /\ key.tick = tick /\ key.slot = slot
    BY <1>6, SlotAppended
  <2>2. Written(key)'
    BY <2>1, WrittenBehind DEF LoopTypes
  <2>3. \A t \in 1..tick : Written(SlotKey(t, 0))'
    <3> TAKE t \in 1..tick
    <3>1. tick \in Nat /\ slot \in Nat
      BY Numbers DEF LoopTypes, BatchTypes, SlotTypes
    <3>2. CASE slot > 0
      <4>1. /\ expectedVersion \in 1..Len(stream)
            /\ stream[expectedVersion] \in SlotKeys
            /\ stream[expectedVersion].tick = tick
        BY <1>6, <3>2 DEF AppendSlot, InTick, OrderInv, LoopTypes, DerivedTypes
      <4> QED
        BY <1>1, <1>2, <4>1
    <3>3. CASE slot = 0 /\ t = tick
      <4>1. key = SlotKey(t, 0)
        BY <2>1, <3>3, Keys
      <4> QED
        BY <2>2, <4>1
    <3>4. CASE slot = 0 /\ t # tick
      <4>1. tick - 1 > 0 /\ t \in 1..(tick - 1)
        BY <3>1, <3>4
      <4>2. PICK n \in 1..Len(stream) :
              stream[n] \in SlotKeys /\ stream[n].tick = tick - 1
        BY <4>1, FinishedTick DEF OrderInv
      <4> QED
        BY <1>1, <1>2, <4>1, <4>2
    <3> QED
      BY <3>1, <3>2, <3>3, <3>4
  <2> QED
    BY <1>4, <2>1, <2>3
<1> QED
  BY <1>3, <1>5, <1>6, Frames

(* Where the last append of the tick in hand is.                           *)
LEMMA LastAppendStep ==
  ASSUME LoopTypes, OrderInv, [Next]_vars
  PROVE  /\ phase' \in {"tick", "boundary"} /\ slot' > 0 =>
              /\ expectedVersion' > 0
              /\ stream'[expectedVersion'] \in SlotKeys
              /\ stream'[expectedVersion'].tick = tick'
              /\ stream'[expectedVersion'].slot < slot'
              /\ (stream'[expectedVersion'].slot + 1)..(slot' - 1)
                   \subseteq 1..Agents
         /\ phase' = "boundary" => slot' = LastSlot + 1
         /\ phase' = "cycle" => /\ expectedVersion' > 0
                                /\ stream'[expectedVersion'] = CurrentKey'
<1> DEFINE last == stream[expectedVersion]
<1>1. /\ stream \in Seq(Key) /\ Len(stream) \in Nat /\ tick \in Nat
      /\ slot \in 0..(LastSlot + 1) /\ expectedVersion \in 0..Len(stream)
      /\ LastSlot \in Nat /\ Agents \in Nat
  BY Numbers DEF LoopTypes, BatchTypes, SlotTypes, DerivedTypes
<1>2. \A n \in 1..Len(stream) : stream'[n] = stream[n]
  BY StreamGrows
<1>3. CASE UNCHANGED <<phase, slot, expectedVersion, tick>>
  BY <1>1, <1>2, <1>3 DEF OrderInv, CurrentKey
<1>4. CASE phase' \notin Ticking
  BY <1>4 DEF Ticking
<1>5. CASE BeginTick
  BY <1>5 DEF BeginTick
<1>6. CASE RecoverAppend
  <2>1. /\ phase = "tick" /\ phase' = "tick" /\ stream' = stream /\ tick' = tick
        /\ slot' = slot + 1 /\ expectedVersion' = expectedVersion + 1
        /\ slot <= LastSlot
    BY <1>6 DEF RecoverAppend, InTick, files, batch
  <2>2. expectedVersion + 1 \in 1..Len(stream)
        /\ stream[expectedVersion + 1] = CurrentKey
    BY <1>6 DEF RecoverAppend, Recoverable, Written, Position
  <2>3. CurrentKey \in SlotKeys /\ CurrentKey.tick = tick /\ CurrentKey.slot = slot
    BY <1>1, <2>2, KeyKinds DEF CurrentKey
  <2> QED
    BY <1>1, <2>1, <2>2, <2>3
<1>7. CASE AgentIdle
  <2>1. /\ phase = "tick" /\ phase' = "tick" /\ stream' = stream /\ tick' = tick
        /\ slot' = slot + 1 /\ expectedVersion' = expectedVersion
        /\ slot \in 1..Agents
    BY <1>7 DEF AgentIdle, InTick, batch, IsAgentSlot
  <2>2. /\ expectedVersion > 0 /\ last \in SlotKeys /\ last.tick = tick
        /\ last.slot < slot /\ (last.slot + 1)..(slot - 1) \subseteq 1..Agents
    BY <1>1, <2>1 DEF OrderInv
  <2>3. last.slot \in Nat
    BY <1>1, <2>2, Keys
  <2>4. (last.slot + 1)..slot \subseteq 1..Agents
    BY <1>1, <2>1, <2>2, <2>3
  <2> QED
    BY <1>1, <2>1, <2>2, <2>3, <2>4
<1>8. CASE AppendSlot
  <2>1. /\ CurrentKey \in SlotKeys /\ CurrentKey \in Key
        /\ CurrentKey.tick = tick /\ CurrentKey.slot = slot
        /\ expectedVersion = Len(stream) /\ stream' = Append(stream, CurrentKey)
    BY <1>8, SlotAppended
  <2>2. stream'[Len(stream) + 1] = CurrentKey
    BY <1>1, <2>1, Appended
  <2>3. /\ phase = "tick" /\ tick' = tick
        /\ expectedVersion' = expectedVersion + 1
        /\ \/ phase' = "cycle" /\ slot' = slot
           \/ phase' = "tick" /\ slot' = slot + 1
    BY <1>8 DEF AppendSlot, InTick, batch
  <2>4. CASE phase' = "cycle" /\ slot' = slot
    BY <1>1, <2>1, <2>2, <2>3, <2>4 DEF CurrentKey
  <2>5. CASE phase' = "tick" /\ slot' = slot + 1
    <3>1. (slot + 1)..slot \subseteq 1..Agents
      BY <1>1
    <3> QED
      BY <1>1, <2>1, <2>2, <2>3, <2>5, <3>1
  <2> QED
    BY <2>3, <2>4, <2>5
<1>9. CASE SaveCycleEffects
  <2>1. /\ phase = "cycle" /\ phase' = "tick" /\ stream' = stream /\ tick' = tick
        /\ slot' = slot + 1 /\ expectedVersion' = expectedVersion
    BY <1>9 DEF SaveCycleEffects, batch
  <2>2. expectedVersion > 0 /\ stream[expectedVersion] = CurrentKey
    BY <2>1 DEF OrderInv
  <2>3. CurrentKey \in SlotKeys /\ CurrentKey.tick = tick /\ CurrentKey.slot = slot
    BY <1>1, <2>2, KeyKinds DEF CurrentKey
  <2>4. (slot + 1)..slot \subseteq 1..Agents
    BY <1>1
  <2> QED
    BY <1>1, <2>1, <2>2, <2>3, <2>4
<1>10. CASE SaveSnapshot /\ phase' = "boundary"
  <2>1. /\ phase = "tick" /\ slot > LastSlot /\ stream' = stream /\ tick' = tick
        /\ slot' = slot /\ expectedVersion' = expectedVersion
    BY <1>10 DEF SaveSnapshot, Throw, step, batch, files
  <2>2. slot = LastSlot + 1
    BY <1>1, <2>1
  <2> QED
    BY <1>1, <1>10, <2>1, <2>2 DEF OrderInv
<1>11. \/ UNCHANGED <<phase, slot, expectedVersion, tick>>
       \/ phase' \notin Ticking
       \/ BeginTick \/ RecoverAppend \/ AgentIdle \/ AppendSlot
       \/ SaveCycleEffects
       \/ SaveSnapshot /\ phase' = "boundary"
  <2> SUFFICES ASSUME phase' \in Ticking,
                      ~(\/ BeginTick \/ RecoverAppend \/ AgentIdle \/ AppendSlot
                        \/ SaveCycleEffects
                        \/ SaveSnapshot /\ phase' = "boundary")
               PROVE  UNCHANGED <<phase, slot, expectedVersion, tick>>
    BY Zenon
  <2>1. ~Crash
    BY DEF Crash, Ticking
  <2>2. ~StartBatch /\ ~CompleteTick
    BY DEF StartBatch, CompleteTick, Ticking
  <2>3. phase' = phase
    BY <2>1, <2>2, Phases DEF Ticking
  <2> QED
    BY <2>1, <2>2, <2>3, Frames
<1> QED
  BY <1>3, <1>4, <1>5, <1>6, <1>7, <1>8, <1>9, <1>10, <1>11

(* The order of the stream is kept by every step.                          *)
LEMMA OrderStep ==
  ASSUME LoopTypes, OrderInv, [Next]_vars
  PROVE  OrderInv'
BY FinishedStep, TimesStep, LastAppendStep DEF OrderInv

-----------------------------------------------------------------------------
(* The ticks an operation has left.                                        *)

(* A batch more for one more of either.                                    *)
LEMMA Multiples ==
  ASSUME NEW size \in Nat, NEW done \in Nat, NEW more \in Nat
  PROVE  /\ size * (done + more) \in Nat
         /\ size * ((done + 1) + more) = size * (done + more) + size
         /\ size * (done + (more + 1)) = size * (done + more) + size
<1>1. PICK sum \in Nat : sum = done + more
  OBVIOUS
<1>2. /\ (done + 1) + more = sum + 1 /\ done + (more + 1) = sum + 1
  BY <1>1
<1>3. size * sum \in Nat /\ size * (sum + 1) = size * sum + size
  OBVIOUS
<1> QED
  BY <1>1, <1>2, <1>3

(* The ticks granted grow by a batch with each acknowledgement and pause.  *)
LEMMA Granted ==
  ASSUME LoopTypes, [Next]_vars
  PROVE  /\ Base \in Nat /\ Base' \in Nat
         /\ acknowledged' = acknowledged /\ pauses' = pauses => Base' = Base
         /\ acknowledged' = acknowledged + 1 /\ pauses' = pauses =>
              Base' = Base + BatchSize
         /\ acknowledged' = acknowledged /\ pauses' = pauses + 1 =>
              Base' = Base + BatchSize
<1>1. /\ acknowledged \in Nat /\ pauses \in Nat /\ BatchSize \in Nat
      /\ acknowledged' \in Nat /\ pauses' \in Nat
  <2>1. acknowledged \in Nat /\ pauses \in Nat /\ BatchSize \in Nat
    BY Numbers DEF LoopTypes, EnvironmentTypes
  <2>2. UNCHANGED pauses \/ Pause
    BY Frames, Zenon
  <2>3. UNCHANGED acknowledged \/ StartCompleted \/ ReturnResult
    BY Frames, Zenon
  <2>4. operation \in Nat
    BY DEF LoopTypes, BatchTypes
  <2> QED
    BY <2>1, <2>2, <2>3, <2>4 DEF Pause, StartCompleted, ReturnResult
<1>2. Base = BatchSize * (acknowledged + pauses)
      /\ Base' = BatchSize * (acknowledged' + pauses')
  BY DEF Base
<1>3. Base \in Nat /\ Base' \in Nat
  BY <1>1, <1>2, Multiples
<1>4. CASE acknowledged' = acknowledged /\ pauses' = pauses
  BY <1>1, <1>2, <1>3, <1>4
<1>5. CASE acknowledged' = acknowledged + 1 /\ pauses' = pauses
  BY <1>1, <1>2, <1>3, <1>5, Multiples
<1>6. CASE acknowledged' = acknowledged /\ pauses' = pauses + 1
  BY <1>1, <1>2, <1>3, <1>6, Multiples
<1> QED
  BY <1>1, <1>3, <1>4, <1>5, <1>6

(* A drain that cannot go on never will.                                   *)
LEMMA StuckStays ==
  ASSUME LoopTypes, DrainInv, [Next]_vars, Stuck
  PROVE  Stuck'
<1>1. Written(CommandKey(Record)) /\ phase \notin Handling
  BY DEF Stuck, Blocked
<1>2. consumed' = consumed /\ Record' = Record
  <2>1. ~CheckpointCommand
    BY <1>1 DEF CheckpointCommand, Handling
  <2> QED
    BY <2>1, Frames DEF Record
<1>3. Blocked'
  <2>1. \A k : Written(k) => Written(k)'
    BY StreamGrows
  <2> QED
    BY <1>1, <1>2, <2>1 DEF Blocked
<1>4. ~DispatchCommand
  BY <1>1 DEF DispatchCommand
<1>5. ~HandleNote
  BY <1>1, AppendedCommand DEF HandleNote
<1>6. phase' \notin Handling
  BY <1>1, <1>4, <1>5, Phases DEF Handling
<1> QED
  BY <1>3, <1>6 DEF Stuck

(* A failed drain is stuck.                                                *)
LEMMA FailedDrainIsStuck ==
  ASSUME LoopTypes, DrainInv, TicksInv, [Next]_vars,
         lifecycle'.status = "command-drain-failed"
  PROVE  Stuck'
<1>1. CASE UNCHANGED lifecycle
  BY <1>1, StuckStays DEF TicksInv
<1>2. CASE DrainFails
  <2>1. Stuck
    BY <1>2 DEF DrainFails, Draining, Stuck, Blocked, Handling
  <2> QED
    BY <2>1, StuckStays
<1>3. ~PauseBeforeTick /\ ~FinishBatch
  BY DEF PauseBeforeTick, FinishBatch, SaveBatch
<1>4. ~StartBatch
  BY DEF StartBatch
<1>5. ~SaveSchedules
  BY DEF SaveSchedules
<1>6. ~CompleteTick
  BY DEF CompleteTick
<1>7. ~Pause
  BY DEF Pause, LoopTypes, LifecycleTypes
<1>8. ~Reset
  BY DEF Reset
<1> QED
  BY <1>1, <1>2, <1>3, <1>4, <1>5, <1>6, <1>7, <1>8, Frames DEF Saves

(* Steps other than these leave the ticks done and granted as they are.    *)
LEMMA BatchStands ==
  ASSUME LoopTypes, [Next]_vars,
         ~(\/ StartBatch \/ Saves \/ SaveSchedules \/ CompleteTick \/ Pause
           \/ Reset \/ ReturnResult \/ StartCompleted \/ Crash)
  PROVE  /\ UNCHANGED <<lifecycle, batch, acknowledged, crashes, pauses, resets>>
         /\ phase' \in InBatch => phase \in InBatch
         /\ phase' \in Stepping => phase \in Stepping
         /\ phase' \in {"finish", "return", "settled"} => phase' = phase
         /\ phase \in InBatch /\ phase' \notin InBatch => Throw
<1>1. UNCHANGED <<lifecycle, batch, acknowledged, crashes, pauses>>
  BY Frames DEF batch
<1>2. phase' \in InBatch => phase \in InBatch
  BY Phases DEF InBatch, Stepping
<1>3. phase' \in Stepping => phase \in Stepping
  BY Phases DEF Stepping
<1>4. phase' \in {"finish", "return", "settled"} => phase' = phase
  BY Phases
<1>5. phase \in InBatch /\ phase' \notin InBatch => Throw
  BY Phases DEF InBatch, Stepping
<1>6. UNCHANGED resets
  BY Frames
<1> QED
  BY <1>1, <1>2, <1>3, <1>4, <1>5, <1>6

(* Ticks are granted before they are made.                                 *)
LEMMA TicksStep ==
  ASSUME LoopTypes, DrainInv, TicksInv, [Next]_vars
  PROVE  TicksInv'
<1>1. /\ lifecycle.nextTick \in Nat /\ lifecycle.completedTicks \in Nat
      /\ lifecycle.completedTicks <= BatchSize /\ lifecycle.status \in Status
      /\ tick \in Nat /\ previousTicks \in Nat /\ completedTicks \in Nat
      /\ previousTicks + completedTicks <= BatchSize
      /\ operation \in Nat /\ acknowledged \in Nat /\ BatchSize \in Nat \ {0}
      /\ pauses \in Nat
  BY Numbers DEF LoopTypes, BatchTypes, LifecycleTypes, EnvironmentTypes
<1>2. /\ Base \in Nat /\ Base' \in Nat
      /\ acknowledged' = acknowledged /\ pauses' = pauses => Base' = Base
      /\ acknowledged' = acknowledged + 1 /\ pauses' = pauses =>
           Base' = Base + BatchSize
      /\ acknowledged' = acknowledged /\ pauses' = pauses + 1 =>
           Base' = Base + BatchSize
  BY Granted
<1>3. ~Stuck' => ~Stuck
  BY StuckStays
<1>4. lifecycle'.status = "command-drain-failed" => Stuck'
  BY FailedDrainIsStuck
<1>5. /\ phase \in InBatch => acknowledged < Operations
                               /\ operation = acknowledged + 1
      /\ phase \in Stepping => previousTicks + completedTicks < BatchSize
      /\ lifecycle.status \in {"none", "reset-requested"} =>
           lifecycle.nextTick = 1
      /\ lifecycle.status = "command-drain-failed" => Stuck
  BY DEF TicksInv
<1>6. ~Stuck =>
       /\ lifecycle.status \in {"running", "paused"} =>
            lifecycle.nextTick - 1 <= Base + lifecycle.completedTicks
       /\ lifecycle.status = "completed" =>
            lifecycle.nextTick - 1
              <= Base + IF lifecycle.operation = acknowledged + 1
                        THEN BatchSize ELSE 0
       /\ phase \in InBatch =>
            tick - 1 <= Base + previousTicks + completedTicks
  BY DEF TicksInv
<1> DEFINE Bounds ==
             /\ lifecycle'.status \in {"running", "paused"} =>
                  lifecycle'.nextTick - 1 <= Base' + lifecycle'.completedTicks
             /\ lifecycle'.status = "completed" =>
                  lifecycle'.nextTick - 1
                    <= Base' + IF lifecycle'.operation = acknowledged' + 1
                               THEN BatchSize ELSE 0
             /\ phase' \in InBatch =>
                  tick' - 1 <= Base' + previousTicks' + completedTicks'
           Rest ==
             /\ phase' \in InBatch => acknowledged' < Operations
                                       /\ operation' = acknowledged' + 1
             /\ phase' \in Stepping =>
                  previousTicks' + completedTicks' < BatchSize
             /\ lifecycle'.status \in {"none", "reset-requested"} =>
                  lifecycle'.nextTick = 1
<1>7. SUFFICES Rest /\ (~Stuck => Bounds)
  BY <1>3, <1>4 DEF TicksInv
<1>8. CASE StartBatch
  <2> DEFINE done == IF lifecycle.status \in {"running", "paused"}
                     THEN lifecycle.completedTicks ELSE 0
  <2>1. /\ acknowledged < Operations /\ acknowledged' = acknowledged
        /\ pauses' = pauses /\ operation' = acknowledged + 1
        /\ previousTicks' = done /\ completedTicks' = 0
        /\ tick' = lifecycle.nextTick
        /\ lifecycle'.status = "running"
        /\ lifecycle'.nextTick = lifecycle.nextTick
        /\ lifecycle'.completedTicks = done
        /\ phase' = IF done = BatchSize THEN "finish" ELSE "step"
        /\ lifecycle.status # "reset-requested"
        /\ ~(lifecycle.status = "completed"
              /\ lifecycle.operation = acknowledged + 1)
    BY <1>8 DEF StartBatch, environment, bounds
  <2>2. done \in Nat /\ done <= BatchSize
    BY <1>1
  <2>3. ~Stuck => lifecycle.nextTick - 1 <= Base + done
    BY <1>1, <1>2, <1>5, <1>6, <2>1 DEF Status
  <2> HIDE DEF done
  <2>4. Rest
    BY <1>1, <2>1, <2>2 DEF Stepping
  <2>5. ~Stuck => Bounds
    BY <1>1, <1>2, <2>1, <2>2, <2>3
  <2> QED
    BY <2>4, <2>5
<1>9. ASSUME NEW st, st \in {"completed", "paused", "command-drain-failed"},
             lifecycle' = [status |-> st, nextTick |-> tick,
                           lastApplied |-> Len(stream), operation |-> operation,
                           completedTicks |-> previousTicks + completedTicks],
             phase \in InBatch, phase' \in {"return", "settled"},
             UNCHANGED <<operation, previousTicks, completedTicks, tick>>,
             UNCHANGED <<acknowledged, pauses>>
      PROVE  Rest /\ (~Stuck => Bounds)
  <2>1. Rest
    BY <1>5, <1>9 DEF Stepping
  <2>2. ~Stuck => Bounds
    BY <1>1, <1>2, <1>5, <1>6, <1>9
  <2> QED
    BY <2>1, <2>2
<1>10. CASE Saves
  <2>1. PICK st \in {"completed", "paused", "command-drain-failed"} : SaveBatch(st)
    BY <1>10 DEF Saves, PauseBeforeTick, DrainFails, FinishBatch
  <2>2. phase \in InBatch
    BY <1>10 DEF Saves, PauseBeforeTick, DrainFails, Draining, FinishBatch,
       InBatch, Stepping
  <2> QED
    BY <1>9, <2>1, <2>2, Zenon DEF SaveBatch, batch, bounds
<1>11. CASE SaveSchedules
  BY <1>9, <1>11, Zenon DEF SaveSchedules, batch, environment, bounds, InBatch
<1>12. CASE CompleteTick
  <2>1. /\ tick' = tick + 1 /\ completedTicks' = completedTicks + 1
        /\ previousTicks' = previousTicks /\ operation' = operation
        /\ acknowledged' = acknowledged /\ pauses' = pauses
        /\ lifecycle'.status \in {"paused", "running"}
        /\ lifecycle'.nextTick = tick + 1
        /\ lifecycle'.completedTicks = previousTicks + completedTicks + 1
        /\ phase = "boundary"
        /\ phase' = IF previousTicks + completedTicks' = BatchSize
                    THEN "finish" ELSE "step"
    BY <1>12 DEF CompleteTick, environment, bounds
  <2>2. phase \in InBatch /\ phase \in Stepping
    BY <2>1 DEF InBatch, Stepping
  <2>3. Rest
    BY <1>1, <1>5, <2>1, <2>2 DEF Stepping
  <2>4. ~Stuck => Bounds
    BY <1>1, <1>2, <1>6, <2>1, <2>2
  <2> QED
    BY <2>3, <2>4
<1>13. CASE Pause
  <2>1. /\ lifecycle'.status = "paused"
        /\ lifecycle'.nextTick = lifecycle.nextTick
        /\ lifecycle'.completedTicks =
             IF lifecycle.status \in {"running", "paused"}
             THEN lifecycle.completedTicks ELSE 0
        /\ UNCHANGED <<phase, operation, previousTicks, completedTicks, tick>>
        /\ acknowledged' = acknowledged /\ pauses' = pauses + 1
    BY <1>13 DEF Pause, batch, LoopTypes, LifecycleTypes
  <2>2. Rest
    BY <1>5, <2>1
  <2>3. ~Stuck => Bounds
    BY <1>1, <1>2, <1>5, <1>6, <2>1 DEF Status
  <2> QED
    BY <2>2, <2>3
<1>14. CASE Reset
  <2>1. /\ lifecycle'.status = "reset-requested" /\ lifecycle'.nextTick = 1
        /\ UNCHANGED <<phase, operation, previousTicks, completedTicks, tick>>
        /\ acknowledged' = acknowledged /\ pauses' = pauses
    BY <1>14 DEF Reset, batch
  <2> QED
    BY <1>2, <1>5, <1>6, <2>1
<1>15. ASSUME UNCHANGED lifecycle, phase' \notin InBatch, UNCHANGED pauses,
              \/ UNCHANGED acknowledged
              \/ /\ acknowledged' = acknowledged + 1
                 /\ acknowledged < Operations
       PROVE  Rest /\ (~Stuck => Bounds)
  <2>1. Rest
    BY <1>5, <1>15 DEF InBatch
  <2>2. ~Stuck => Bounds
    BY <1>1, <1>2, <1>6, <1>15
  <2> QED
    BY <2>1, <2>2
<1>16. CASE ReturnResult
  <2>1. /\ phase \in {"return", "settled"} /\ phase' = "idle"
        /\ acknowledged' = IF outcome = "completed" THEN operation
                           ELSE acknowledged
        /\ UNCHANGED <<lifecycle, pauses>>
    BY <1>16 DEF ReturnResult, files, bounds
  <2>2. phase \in InBatch
    BY <2>1 DEF InBatch
  <2>3. phase' \notin InBatch
    BY <2>1 DEF InBatch, Stepping
  <2> QED
    BY <1>5, <1>15, <2>1, <2>2, <2>3
<1>17. CASE StartCompleted
  <2>1. /\ phase = "idle" /\ phase' = "idle" /\ acknowledged < Operations
        /\ acknowledged' = acknowledged + 1
        /\ UNCHANGED <<lifecycle, pauses>>
    BY <1>17 DEF StartCompleted, files, bounds
  <2>2. phase' \notin InBatch
    BY <2>1 DEF InBatch, Stepping
  <2> QED
    BY <1>15, <2>1, <2>2
<1>18. CASE Crash
  <2>1. phase' = "down" /\ UNCHANGED <<lifecycle, pauses, acknowledged>>
    BY <1>18 DEF Crash, files
  <2>2. phase' \notin InBatch
    BY <2>1 DEF InBatch, Stepping
  <2> QED
    BY <1>15, <2>1, <2>2
<1>19. CASE ~(\/ StartBatch \/ Saves \/ SaveSchedules \/ CompleteTick \/ Pause
              \/ Reset \/ ReturnResult \/ StartCompleted \/ Crash)
  <2>1. /\ UNCHANGED <<lifecycle, operation, previousTicks, completedTicks, tick>>
        /\ UNCHANGED <<acknowledged, pauses>>
        /\ phase' \in InBatch => phase \in InBatch
        /\ phase' \in Stepping => phase \in Stepping
    BY <1>19, BatchStands DEF batch
  <2> QED
    BY <1>2, <1>5, <1>6, <2>1
<1> QED
  BY <1>8, <1>10, <1>11, <1>12, <1>13, <1>14, <1>16, <1>17, <1>18, <1>19

-----------------------------------------------------------------------------
(* What a kill costs.                                                      *)

(* The cycles a kill can cost are finitely many.                           *)
LEMMA LostIsFinite ==
  ASSUME LoopTypes
  PROVE  /\ IsFiniteSet(Lost) /\ Cardinality(Lost) \in Nat
         /\ Lost \subseteq 1..Len(stream)
<1>1. Len(stream) \in Nat
  BY DEF LoopTypes
<1>2. Lost \subseteq 1..Len(stream)
  BY DEF Lost, LostCycles
<1>3. IsFiniteSet(1..Len(stream))
  BY <1>1, FS_Interval
<1> QED
  BY <1>2, <1>3, FS_Subset, FS_CardinalityType

(* What a cycle has saved stays saved.                                     *)
LEMMA CycleEffectsStand ==
  ASSUME [Next]_vars
  PROVE  cycleEffects \subseteq cycleEffects'
BY Frames DEF AgentIdle, SaveCycleEffects

(* Only a kill loses what a cycle had to save, and only one cycle's.       *)
LEMMA LostToCrash ==
  ASSUME LoopTypes, OrderInv, [Next]_vars
  PROVE  /\ ~Crash => Lost' \subseteq Lost
         /\ Crash => Lost' \subseteq Lost \cup {expectedVersion}
<1>1. /\ stream \in Seq(Key) /\ Len(stream) \in Nat /\ Len(stream') \in Nat
      /\ \A n \in 1..Len(stream) : stream'[n] = stream[n]
  BY StreamGrows DEF LoopTypes
<1>2. \A n \in 1..Len(stream) : n \in LostCycles' => n \in LostCycles
  BY <1>1, CycleEffectsStand DEF LostCycles
<1>3. CASE Crash
  <2>1. stream' = stream
    BY <1>3 DEF Crash, files
  <2>2. LostCycles' \subseteq LostCycles
    BY <1>2, <2>1 DEF LostCycles
  <2> QED
    BY <1>3, <2>2 DEF Lost, Crash
<1>4. CASE ~Crash
  <2> SUFFICES ASSUME NEW n \in Lost' PROVE n \in Lost
    BY <1>4
  <2>1. /\ n \in 1..Len(stream') /\ n \in LostCycles'
        /\ stream'[n] \in AgentSlots /\ stream'[n] \notin cycleEffects'
        /\ phase' = "cycle" => n # expectedVersion'
    BY DEF Lost, LostCycles
  <2>2. CASE n \in 1..Len(stream)
    <3>1. SUFFICES ASSUME phase = "cycle", n = expectedVersion PROVE FALSE
      BY <1>2, <2>1, <2>2 DEF Lost
    <3>2. stream'[n] = CurrentKey
      BY <1>1, <2>2, <3>1 DEF OrderInv
    <3>3. ~SaveCycleEffects
      BY <2>1, <3>2 DEF SaveCycleEffects
    <3>4. phase' = "cycle"
      BY <1>4, <3>1, <3>3, Phases
    <3>5. expectedVersion' = expectedVersion
      <4>1. ~BeginTick /\ ~RecoverAppend /\ ~AppendSlot
        BY <3>1 DEF BeginTick, RecoverAppend, AppendSlot, InTick
      <4> QED
        BY <1>4, <4>1, Frames
    <3> QED
      BY <2>1, <3>1, <3>4, <3>5
  <2>3. ASSUME NEW key \in Key, stream' = Append(stream, key),
               n \notin 1..Len(stream)
        PROVE  n = Len(stream) + 1 /\ stream'[n] = key
    <3>1. /\ Len(stream') = Len(stream) + 1 /\ stream'[Len(stream) + 1] = key
      BY <1>1, <2>3, Appended
    <3> QED
      BY <1>1, <2>1, <2>3, <3>1
  <2>4. CASE n \notin 1..Len(stream) /\ DispatchCommand
    <3>1. PICK key \in Key : key \in CommandKeys /\ stream' = Append(stream, key)
      BY <2>4, CommandAppended
    <3>2. stream'[n] = key
      BY <2>3, <2>4, <3>1
    <3> QED
      BY <2>1, <3>1, <3>2, Keys
  <2>5. CASE n \notin 1..Len(stream) /\ AppendSlot
    <3>1. PICK key \in SlotKeys :
            /\ key \in Key /\ stream' = Append(stream, key) /\ key.slot = slot
            /\ expectedVersion = Len(stream)
      BY <2>5, SlotAppended
    <3>2. stream'[n] = key /\ n = Len(stream) + 1
      BY <2>3, <2>5, <3>1
    <3>3. IsAgentSlot
      BY <2>1, <3>1, <3>2, Keys DEF IsAgentSlot
    <3>4. phase' = "cycle" /\ expectedVersion' = expectedVersion + 1
      BY <2>5, <3>3 DEF AppendSlot
    <3> QED
      BY <2>1, <3>1, <3>2, <3>4
  <2>6. CASE UNCHANGED stream
    BY <2>1, <2>2, <2>6
  <2> QED
    BY <2>2, <2>4, <2>5, <2>6, Frames
<1> QED
  BY <1>3, <1>4

(* A kill costs the effects of one cycle.                                  *)
LEMMA CyclesStep ==
  ASSUME LoopTypes, LoopTypes', OrderInv, CyclesInv, [Next]_vars
  PROVE  CyclesInv'
<1>1. /\ IsFiniteSet(Lost) /\ Cardinality(Lost) \in Nat
      /\ Cardinality(Lost) <= crashes /\ crashes \in Nat
  BY LostIsFinite DEF CyclesInv, LoopTypes, EnvironmentTypes
<1>2. CASE ~Crash
  <2>1. crashes' = crashes
    BY <1>2, Frames
  <2>2. Cardinality(Lost') <= Cardinality(Lost) /\ Cardinality(Lost') \in Nat
    <3>1. Lost' \in SUBSET Lost
      BY <1>2, LostToCrash
    <3>2. IsFiniteSet(Lost')
      BY <1>1, <3>1, FS_Subset
    <3>3. Cardinality(Lost') <= Cardinality(Lost)
      BY <1>1, <3>1, FS_Subset
    <3> QED
      BY <3>2, <3>3, FS_CardinalityType
  <2> QED
    BY <1>1, <2>1, <2>2 DEF CyclesInv
<1>3. CASE Crash
  <2>1. crashes' = crashes + 1
    BY <1>3 DEF Crash
  <2> DEFINE More == Lost \cup {expectedVersion}
  <2>2. /\ IsFiniteSet(More) /\ Cardinality(More) \in Nat
        /\ Cardinality(More) <= Cardinality(Lost) + 1
    <3>1. /\ IsFiniteSet(More)
          /\ Cardinality(More) = IF expectedVersion \in Lost
                                 THEN Cardinality(Lost) ELSE Cardinality(Lost) + 1
      BY <1>1, FS_AddElement
    <3> HIDE DEF More
    <3> QED
      BY <1>1, <3>1
  <2>3. Cardinality(Lost') <= Cardinality(More) /\ Cardinality(Lost') \in Nat
    <3>1. Lost' \in SUBSET More
      BY <1>3, LostToCrash
    <3> HIDE DEF More
    <3>2. IsFiniteSet(Lost')
      BY <2>2, <3>1, FS_Subset
    <3> QED
      BY <2>2, <3>1, <3>2, FS_Subset, FS_CardinalityType
  <2> HIDE DEF More
  <2> QED
    BY <1>1, <2>1, <2>2, <2>3 DEF CyclesInv
<1> QED
  BY <1>2, <1>3

-----------------------------------------------------------------------------
(* Whatever happens.                                                       *)

(* The invariant holds in the beginning.                                   *)
LEMMA LoopInit ==
  ASSUME Init
  PROVE  LoopInv
<1>1. /\ Len(stream) = 0 /\ stream \in Seq(Key) /\ Len(commandStream) = 0
      /\ commandStream \in Seq(CommandKinds) /\ \A k : ~Written(k)
  BY DEF Init, Written
<1>2. /\ phase = "idle" /\ acknowledged = 0 /\ pauses = 0 /\ consumed = 0
      /\ crashes = 0 /\ resets = 0 /\ drainTo = 0 /\ slot = 0 /\ tick = 1
      /\ operation = 0 /\ previousTicks = 0 /\ completedTicks = 0
      /\ outcome = "none" /\ expectedVersion = 0 /\ hydratedTo = 0
      /\ recoveryTo = NoSequence /\ recoveryThrough = 0 /\ cycleEffects = {}
      /\ traced = {} /\ projection = << >>
  BY DEF Init
<1>3. /\ lifecycle = [status |-> "none", nextTick |-> 1, lastApplied |-> 0,
                      operation |-> 0, completedTicks |-> 0]
      /\ memories = [n \in 1..Commands |-> 0]
      /\ snapshot = [sequence |-> 0, projection |-> << >>]
  BY DEF Init
<1>4. intent \subseteq AgentSlots
  BY DEF Init
<1>5. recovering \in BOOLEAN
  BY DEF Init
<1>6. LoopTypes
  <2>1. DerivedTypes
    BY <1>1, <1>2, <1>3, <1>5 DEF DerivedTypes
  <2>2. CommandTypes
    BY <1>1, <1>2, <1>3, Numbers DEF CommandTypes
  <2>3. LifecycleTypes
    BY <1>1, <1>3, Numbers DEF LifecycleTypes, Status
  <2>4. BatchTypes
    BY <1>2, Numbers DEF BatchTypes
  <2>5. SlotTypes
    BY <1>2, <1>4, Numbers DEF SlotTypes, Phase
  <2>6. EnvironmentTypes
    BY <1>2, Numbers DEF EnvironmentTypes, Outcomes
  <2> QED
    BY <1>1, <2>1, <2>2, <2>3, <2>4, <2>5, <2>6 DEF LoopTypes
<1>7. ~Blocked
  BY <1>1 DEF Blocked
<1>8. DrainInv
  BY <1>1, <1>2, <1>7 DEF DrainInv, CheckpointFollowsEffects, Handling, Ticking
<1>9. MemoryInv
  BY <1>2, <1>3, Numbers DEF MemoryInv, Record
<1>10. OrderInv
  <2>1. lifecycle.nextTick - 1 = 0 /\ tick - 1 = 0
    BY <1>2, <1>3
  <2>2. Finished(lifecycle.nextTick - 1) /\ Finished(tick - 1)
    BY <2>1, FinishedTick
  <2> QED
    BY <1>1, <1>2, <2>2 DEF OrderInv
<1>11. TicksInv
  BY <1>2, <1>3 DEF TicksInv, InBatch, Stepping
<1>12. CyclesInv
  <2>1. Lost = {}
    BY <1>1 DEF Lost, LostCycles
  <2> QED
    BY <1>2, <2>1, FS_EmptySet DEF CyclesInv
<1> QED
  BY <1>6, <1>8, <1>9, <1>10, <1>11, <1>12 DEF LoopInv

(* The invariant is inductive.                                             *)
LEMMA LoopStep ==
  ASSUME LoopInv, [Next]_vars
  PROVE  LoopInv'
<1>1. LoopTypes'
  BY TypesStep DEF LoopInv
<1> QED
  BY <1>1, DrainStep, MemoryStep, OrderStep, TicksStep, CyclesStep DEF LoopInv

(* The invariant of the runtime loop, for any number of agents, ticks,     *)
(* commands, kills, pauses and resets (localSimulationLifecycle.ts,        *)
(* localRuntimeLoop.ts, localRuntimeStep.ts, tickRunner.ts).               *)
THEOREM LoopInvariant == Spec => []LoopInv
<1>1. Init => LoopInv
  BY LoopInit
<1>2. LoopInv /\ [Next]_vars => LoopInv'
  BY LoopStep
<1> QED
  BY <1>1, <1>2, PTL DEF Spec

(* Files and process state keep their types; the ticks granted bound the   *)
(* tick index, however often a batch was paused and killed.                *)
THEOREM LoopTypeCorrect == Spec => []TypeOK
<1>1. LoopInv => TypeOK
  <2> SUFFICES ASSUME LoopInv PROVE TypeOK
    OBVIOUS
  <2> USE DEF LoopInv, LoopTypes
  <2>1. \A n \in 1..Len(stream) : stream[n] \in Promise!Key
    BY WrittenKeys DEF Key
  <2>2. /\ \A n \in 1..Len(commandStream) : commandStream[n] \in CommandKinds
        /\ consumed \in 0..Len(commandStream)
        /\ memories \in [1..Commands -> Nat] /\ traced \subseteq 1..Commands
        /\ drainTo \in 0..Len(commandStream)
    BY DEF CommandTypes
  <2>3. /\ snapshot.sequence \in 0..Len(stream)
        /\ recoveryTo \in 0..Len(stream) \cup {NoSequence}
        /\ expectedVersion \in 0..Len(stream)
    BY DEF DerivedTypes
  <2>4. /\ lifecycle.nextTick \in 1..Ticks + 1
        /\ lifecycle.lastApplied \in 0..Len(stream)
        /\ lifecycle.completedTicks \in 0..BatchSize
    BY Numbers DEF LifecycleTypes
  <2>5. previousTicks + completedTicks \in 0..BatchSize
    BY Numbers DEF BatchTypes
  <2>6. /\ cycleEffects \subseteq AgentSlots /\ phase \in Phase
        /\ slot \in 0..LastSlot + 1
    BY DEF SlotTypes
  <2> QED
    BY <2>1, <2>2, <2>3, <2>4, <2>5, <2>6 DEF TypeOK
<1> QED
  BY <1>1, LoopInvariant, PTL

(* A command is checkpointed behind its append, its memory and its trace,  *)
(* whatever dies in between (commandStreamConsumer.ts,                     *)
(* localCommandDrain.ts).                                                  *)
THEOREM CheckpointsFollowEffects == Spec => []CheckpointFollowsEffects
<1>1. LoopInv => CheckpointFollowsEffects
  BY DEF LoopInv, DrainInv
<1> QED
  BY <1>1, LoopInvariant, PTL

(* A kill loses the memory and progress of at most one cycle, and repeats  *)
(* the memory of a command at most once (agentCycleRunner.ts,              *)
(* localCommandDrain.ts).                                                  *)
THEOREM KillsCostLittle == Spec => []LossesBoundedByKills
<1>1. LoopInv => CyclesLostToCrashes
  BY DEF LoopInv, CyclesInv, Lost, CyclesLostToCrashes
<1>2. LoopInv => RememberedOncePerCrash
  <2> SUFFICES ASSUME LoopInv, NEW n \in 1..Commands
               PROVE  memories[n] <= 1 + crashes
    BY DEF RememberedOncePerCrash
  <2>1. /\ consumed \in Nat /\ crashes \in Nat /\ Commands \in Nat
        /\ memories[n] \in Nat
    BY Numbers DEF LoopInv, LoopTypes, CommandTypes, EnvironmentTypes
  <2>2. n <= consumed \/ n = Record \/ n > Record
    BY <2>1 DEF Record
  <2>3. CASE n <= consumed \/ n > Record
    BY <2>1, <2>3 DEF LoopInv, MemoryInv
  <2>4. CASE n = Record
    BY <2>1, <2>4 DEF LoopInv, MemoryInv
  <2> QED
    BY <2>2, <2>3, <2>4
<1> QED
  BY <1>1, <1>2, LoopInvariant, PTL DEF LossesBoundedByKills

(* A drained command's append comes behind the commands before it.         *)
LEMMA CommandsInOrder ==
  ASSUME LoopInv, DispatchCommand
  PROVE  Promise!Next
<1>1. /\ CommandKey(Record) \in CommandKeys /\ CommandKey(Record) \in Key
      /\ CommandKey(Record).command = Record /\ Record \in 1..Commands
      /\ ~Written(CommandKey(Record))
      /\ stream' = Append(stream, CommandKey(Record))
  BY CommandAppended DEF LoopInv
<1>2. \A n \in 1..Len(stream) :
        stream[n] \in CommandKeys => stream[n].command < Record
  <2> SUFFICES ASSUME NEW n \in 1..Len(stream), stream[n] \in CommandKeys
               PROVE  stream[n].command < Record
    OBVIOUS
  <2>1. stream[n].command <= Record
    BY DEF LoopInv, DrainInv, Record
  <2>2. stream[n].command # Record
    <3>1. stream[n] = CommandKey(stream[n].command)
      BY Keys
    <3>2. Written(stream[n])
      BY WrittenKeys DEF LoopInv
    <3> QED
      BY <1>1, <3>1, <3>2
  <2>3. stream[n].command \in Nat /\ Record \in Nat
    BY <1>1, Keys, Numbers
  <2> QED
    BY <2>1, <2>2, <2>3
<1>3. Promise!ContinuesCommands(CommandKey(Record))
  BY <1>1, <1>2 DEF Promise!ContinuesCommands, CommandKeys
<1> QED
  BY <1>1, <1>3 DEF Promise!Next, Promise!Follows, Key

(* A tick's append continues it, or begins it behind a finished one.       *)
LEMMA TicksInOrder ==
  ASSUME LoopInv, AppendSlot
  PROVE  Promise!Next
<1>1. /\ CurrentKey \in SlotKeys /\ CurrentKey \in Key
      /\ CurrentKey.tick = tick /\ CurrentKey.slot = slot
      /\ tick \in 1..Ticks /\ slot \in 0..LastSlot
      /\ ~Written(CurrentKey) /\ expectedVersion = Len(stream)
      /\ stream' = Append(stream, CurrentKey)
  BY SlotAppended DEF LoopInv
<1>2. phase = "tick" /\ Len(stream) \in Nat /\ tick \in Nat /\ slot \in Nat
      /\ Ticks \in Nat
  BY <1>1, Numbers DEF LoopInv, LoopTypes, AppendSlot, InTick
<1>3. CASE slot > 0
  <2>1. /\ Len(stream) > 0 /\ stream[Len(stream)] \in SlotKeys
        /\ stream[Len(stream)].tick = tick
        /\ stream[Len(stream)].slot < slot
        /\ (stream[Len(stream)].slot + 1)..(slot - 1) \subseteq 1..Agents
    BY <1>1, <1>2, <1>3 DEF LoopInv, OrderInv
  <2>2. Promise!ContinuesTick(CurrentKey)
    BY <1>1, <2>1 DEF Promise!ContinuesTick, Promise!Skippable, SlotKeys
  <2> QED
    BY <1>1, <2>2 DEF Promise!Next, Promise!Follows, Key
<1>4. CASE slot = 0
  <2>1. \A n \in 1..Len(stream) :
          stream[n] \in SlotKeys => stream[n].tick < tick
    <3> SUFFICES ASSUME NEW n \in 1..Len(stream), stream[n] \in SlotKeys
                 PROVE  stream[n].tick < tick
      OBVIOUS
    <3>1. stream[n].tick \in 1..Ticks
      BY Keys
    <3>2. \A t \in 1..stream[n].tick : Written(SlotKey(t, 0))
      BY DEF LoopInv, OrderInv
    <3>3. ~Written(SlotKey(tick, 0))
      BY <1>1, <1>4 DEF CurrentKey
    <3> QED
      BY <1>1, <1>2, <3>1, <3>2, <3>3
  <2>2. Finished(tick - 1)
    BY DEF LoopInv, OrderInv
  <2>3. Promise!BeginsTick(CurrentKey)
    BY <1>1, <1>4, <2>1, <2>2 DEF Promise!BeginsTick, SlotKeys, Finished
  <2> QED
    BY <1>1, <2>3 DEF Promise!Next, Promise!Follows, Key
<1> QED
  BY <1>2, <1>3, <1>4

(* The partition's event stream is one tick after the other, in the order  *)
(* of their slots, whatever crashes, pauses, resets and recoveries happen: *)
(* the runtime implements TickHistory (tickRunner.ts, localRuntimeLoop.ts).*)
THEOREM RuntimeImplementsHistory == Spec => ImplementsHistory
<1>1. Init => Promise!Init
  BY DEF Init, Promise!Init
<1>2. LoopInv /\ [Next]_vars => [Promise!Next]_stream
  <2> SUFFICES ASSUME LoopInv, [Next]_vars, ~UNCHANGED stream
               PROVE  Promise!Next
    OBVIOUS
  <2> QED
    BY CommandsInOrder, TicksInOrder, Frames
<1> QED
  BY <1>1, <1>2, LoopInvariant, PTL DEF Spec, ImplementsHistory, Promise!Spec

-----------------------------------------------------------------------------
(* Without pauses and resets an operation has its ticks, exactly.          *)

(* A drain gets stuck when its process dies, or with its next record.      *)
LEMMA StuckEntered ==
  ASSUME LoopInv, LoopInv', [Next]_vars, Stuck', ~Stuck
  PROVE  phase \in Handling /\ (Crash \/ CheckpointCommand)
<1>1. Blocked' /\ phase' \notin Handling /\ phase' \notin Ticking
  BY DEF Stuck, LoopInv, DrainInv
<1>2. CASE CheckpointCommand
  BY <1>2 DEF CheckpointCommand, Handling
<1>3. CASE ~CheckpointCommand
  <2>1. Record' = Record
    BY <1>3, Frames DEF Record
  <2>2. ~DispatchCommand
    BY <1>1 DEF DispatchCommand, Handling
  <2>3. ~AppendSlot
    BY <1>1 DEF AppendSlot, InTick, Ticking
  <2>4. UNCHANGED stream
    BY <2>2, <2>3, Frames
  <2>5. Blocked
    BY <1>1, <2>1, <2>4 DEF Blocked, Written
  <2>6. phase \in Handling
    BY <2>5 DEF Stuck
  <2>7. Crash
    BY <1>1, <1>3, <2>6, Phases DEF Handling
  <2> QED
    BY <2>6, <2>7
<1> QED
  BY <1>2, <1>3

(* The tick before the next one is in the stream, from its beginning.      *)
LEMMA LastTickWritten ==
  ASSUME LoopInv, lifecycle.nextTick > 1
  PROVE  Written(SlotKey(lifecycle.nextTick - 1, 0))
<1>1. lifecycle.nextTick \in Nat
  BY DEF LoopInv, LoopTypes, LifecycleTypes
<1>2. PICK n \in 1..Len(stream) :
        stream[n] \in SlotKeys /\ stream[n].tick = lifecycle.nextTick - 1
  BY <1>1, FinishedTick DEF LoopInv, OrderInv
<1>3. lifecycle.nextTick - 1 \in 1..stream[n].tick
  BY <1>1, <1>2
<1> QED
  BY <1>2, <1>3 DEF LoopInv, OrderInv

(* What a completed operation leaves to be acknowledged.                   *)
LEMMA Acknowledgeable ==
  ASSUME LoopInv, ExactBatch, lifecycle.status = "completed",
         lifecycle.operation = acknowledged + 1
  PROVE  Written(SlotKey(BatchSize * (acknowledged + 1), 0))
<1>1. lifecycle.nextTick - 1 = BatchSize * (acknowledged + 1)
  BY DEF ExactBatch
<1>2. BatchSize \in Nat \ {0} /\ acknowledged \in Nat /\ lifecycle.nextTick \in Nat
  BY Numbers DEF LoopInv, LoopTypes, EnvironmentTypes, LifecycleTypes
<1>3. BatchSize * (acknowledged + 1) > 0
  <2>1. BatchSize * acknowledged \in Nat
        /\ BatchSize * (acknowledged + 1) = BatchSize * acknowledged + BatchSize
    BY <1>2
  <2> QED
    BY <1>2, <2>1
<1>4. lifecycle.nextTick > 1
  BY <1>1, <1>2, <1>3
<1> QED
  BY <1>1, <1>4, LastTickWritten

(* A stuck partition waits for nothing but its next start to fail.         *)
LEMMA StuckBatchStep ==
  ASSUME LoopInv, LoopInv', ExactBatch, [Next]_vars, ~Pause, ~Reset, Stuck'
  PROVE  /\ lifecycle'.status \in {"running", "command-drain-failed"}
         /\ lifecycle'.status = "running" => lifecycle'.completedTicks < BatchSize
         /\ phase' \in {"down", "idle", "step", "drain", "return"}
<1>1. CASE ~Stuck
  <2>1. phase \in Handling /\ (Crash \/ CheckpointCommand)
    BY <1>1, StuckEntered
  <2>2. UNCHANGED lifecycle /\ phase' \in {"down", "drain"}
    BY <2>1 DEF Crash, CheckpointCommand, files
  <2>3. phase \in Stepping /\ phase \in InBatch \ {"return", "settled"}
    BY <2>1 DEF Handling, Stepping, InBatch
  <2>4. /\ lifecycle.status = "running"
        /\ lifecycle.completedTicks = previousTicks + completedTicks
    BY <2>3 DEF ExactBatch
  <2>5. previousTicks + completedTicks < BatchSize
    BY <2>3 DEF LoopInv, TicksInv
  <2> QED
    BY <2>2, <2>4, <2>5
<1>2. CASE Stuck
  <2>1. /\ lifecycle.status \in {"running", "command-drain-failed"}
        /\ lifecycle.status = "running" => lifecycle.completedTicks < BatchSize
        /\ phase \in {"down", "idle", "step", "drain", "return"}
    BY <1>2 DEF ExactBatch
  <2>2. phase' \notin Handling /\ phase' \notin Ticking
    BY DEF Stuck, LoopInv, DrainInv
  <2>3. BatchSize \in Nat \ {0}
    BY Numbers
  <2>4. StartBatch => /\ lifecycle'.status = "running"
                      /\ lifecycle'.completedTicks < BatchSize
                      /\ phase' = "step"
    BY <2>1, <2>3 DEF StartBatch
  <2>5. ~SaveSchedules
    BY <2>1 DEF SaveSchedules, ExactBatch
  <2>6. ~CompleteTick
    BY <2>1 DEF CompleteTick
  <2>7. Saves => DrainFails
    BY <2>1 DEF Saves, PauseBeforeTick, FinishBatch
  <2>8. DrainFails => lifecycle'.status = "command-drain-failed"
    BY DEF DrainFails, SaveBatch
  <2>9. phase' \in {"down", "idle", "step", "drain", "return"}
    BY <2>1, <2>2, <2>4, <2>5, <2>6, Phases DEF Handling, Ticking
  <2> QED
    BY <2>1, <2>4, <2>5, <2>6, <2>7, <2>8, <2>9, Frames
<1> QED
  BY <1>1, <1>2

(* Acknowledged operations have made their ticks.                          *)
LEMMA AcknowledgedStep ==
  ASSUME LoopInv, LoopInv', ExactBatch, [Next]_vars
  PROVE  /\ acknowledged' > 0 =>
              Written(SlotKey(BatchSize * acknowledged, 0))'
         /\ lifecycle'.status = "none" => acknowledged' = 0
         /\ acknowledged' # acknowledged =>
              /\ acknowledged' = acknowledged + 1
              /\ lifecycle' = lifecycle /\ lifecycle.status = "completed"
              /\ lifecycle.operation = acknowledged + 1
<1>1. acknowledged \in Nat /\ acknowledged' \in Nat
  BY Numbers DEF LoopInv, LoopTypes, EnvironmentTypes
<1>2. \A k : Written(k) => Written(k)'
  BY StreamGrows DEF LoopInv
<1>3. acknowledged' # acknowledged =>
        /\ acknowledged' = acknowledged + 1
        /\ lifecycle' = lifecycle /\ lifecycle.status = "completed"
        /\ lifecycle.operation = acknowledged + 1
  <2>1. CASE StartCompleted
    BY <2>1 DEF StartCompleted, files
  <2>2. CASE ReturnResult
    <3>1. /\ phase \in {"return", "settled"} /\ lifecycle' = lifecycle
          /\ acknowledged' = IF outcome = "completed" THEN operation
                             ELSE acknowledged
      BY <2>2 DEF ReturnResult, files
    <3>2. operation = acknowledged + 1
      BY <3>1 DEF LoopInv, TicksInv, InBatch
    <3> QED
      BY <3>1, <3>2 DEF ExactBatch
  <2> QED
    BY <2>1, <2>2, Frames
<1>4. acknowledged' > 0 => Written(SlotKey(BatchSize * acknowledged, 0))'
  <2> SUFFICES ASSUME acknowledged' > 0
               PROVE  Written(SlotKey(BatchSize * acknowledged, 0))'
    OBVIOUS
  <2>1. PICK key : key = SlotKey(BatchSize * acknowledged', 0)
    OBVIOUS
  <2>2. Written(key)
    <3>1. CASE acknowledged' = acknowledged
      BY <2>1, <3>1 DEF ExactBatch
    <3>2. CASE acknowledged' # acknowledged
      BY <1>3, <2>1, <3>2, Acknowledgeable
    <3> QED
      BY <3>1, <3>2
  <2>3. Written(key)'
    BY <1>2, <2>2
  <2> QED
    BY <2>1, <2>3 DEF Written, SlotKey
<1>5. lifecycle'.status = "none" => acknowledged' = 0
  <2> SUFFICES ASSUME lifecycle'.status = "none" PROVE acknowledged' = 0
    OBVIOUS
  <2>1. UNCHANGED lifecycle
    <3>1. ~StartBatch /\ ~SaveSchedules /\ ~CompleteTick /\ ~Reset
      BY DEF StartBatch, SaveSchedules, CompleteTick, Reset
    <3>2. ~Pause
      BY DEF Pause, LoopInv, LoopTypes, LifecycleTypes
    <3>3. ~Saves
      BY DEF Saves, PauseBeforeTick, DrainFails, FinishBatch, SaveBatch
    <3> QED
      BY <3>1, <3>2, <3>3, Frames
  <2> QED
    BY <1>3, <2>1 DEF ExactBatch
<1> QED
  BY <1>3, <1>4, <1>5

(* Ticks are counted exactly.                                              *)
LEMMA ExactBatchStep ==
  ASSUME LoopInv, LoopInv', ExactBatch, [Next]_vars, ~Pause, ~Reset
  PROVE  ExactBatch'
<1> DEFINE Done == BatchSize * acknowledged
           States ==
             /\ lifecycle'.status \notin {"paused", "reset-requested"}
             /\ phase' \in InBatch \ {"return", "settled"} =>
                  lifecycle'.status = "running"
             /\ phase' \in Stepping =>
                  lifecycle'.completedTicks = previousTicks' + completedTicks'
             /\ phase' = "finish" =>
                  previousTicks' + completedTicks' = BatchSize
             /\ phase' \in {"return", "settled"} =>
                  /\ lifecycle'.status = outcome'
                  /\ lifecycle'.operation = operation'
                  /\ lifecycle'.nextTick = tick'
                  /\ outcome' = "completed" =>
                       previousTicks' + completedTicks' = BatchSize
           Counts ==
             /\ lifecycle'.status \in {"none", "running"} =>
                  lifecycle'.nextTick - 1
                    = BatchSize * acknowledged' + lifecycle'.completedTicks
             /\ phase' \in InBatch =>
                  tick' - 1
                    = BatchSize * acknowledged' + previousTicks' + completedTicks'
           Completed ==
             lifecycle'.status = "completed" =>
               /\ lifecycle'.operation \in {acknowledged', acknowledged' + 1}
               /\ lifecycle'.nextTick - 1 = BatchSize * lifecycle'.operation
<1>1. /\ lifecycle.nextTick \in Nat /\ lifecycle.completedTicks \in Nat
      /\ lifecycle.completedTicks <= BatchSize /\ lifecycle.status \in Status
      /\ tick \in Nat /\ previousTicks \in Nat /\ completedTicks \in Nat
      /\ previousTicks + completedTicks <= BatchSize
      /\ operation \in Nat /\ acknowledged \in Nat /\ BatchSize \in Nat \ {0}
  <2>1. LoopTypes
    BY DEF LoopInv
  <2> QED
    BY <2>1, Numbers DEF LoopTypes, BatchTypes, LifecycleTypes, EnvironmentTypes
<1>2. Done \in Nat /\ BatchSize * (acknowledged + 1) = Done + BatchSize
  BY <1>1
<1>3. ~Stuck' => ~Stuck
  BY StuckStays DEF LoopInv
<1>4. /\ phase \in InBatch => operation = acknowledged + 1
      /\ phase \in Stepping => previousTicks + completedTicks < BatchSize
      /\ lifecycle.status \in {"none", "reset-requested"} =>
           lifecycle.nextTick = 1
      /\ lifecycle.status = "command-drain-failed" => Stuck
  BY DEF LoopInv, TicksInv
<1>5. SUFFICES States /\ (~Stuck => Counts) /\ Completed
  BY <1>3, StuckBatchStep, AcknowledgedStep DEF ExactBatch
<1> HIDE DEF Done
<1>6. CASE StartBatch
  <2> DEFINE done == IF lifecycle.status \in {"running", "paused"}
                     THEN lifecycle.completedTicks ELSE 0
  <2>1. /\ acknowledged' = acknowledged /\ operation' = acknowledged + 1
        /\ previousTicks' = done /\ completedTicks' = 0
        /\ tick' = lifecycle.nextTick
        /\ lifecycle'.status = "running"
        /\ lifecycle'.nextTick = lifecycle.nextTick
        /\ lifecycle'.completedTicks = done
        /\ phase' = IF done = BatchSize THEN "finish" ELSE "step"
        /\ lifecycle.status # "reset-requested"
        /\ ~(lifecycle.status = "completed"
              /\ lifecycle.operation = acknowledged + 1)
    BY <1>6 DEF StartBatch, environment
  <2>2. done \in Nat /\ done <= BatchSize
    BY <1>1
  <2>3. ~Stuck => lifecycle.nextTick - 1 = Done + done
    <3> SUFFICES ASSUME ~Stuck PROVE lifecycle.nextTick - 1 = Done + done
      OBVIOUS
    <3>1. CASE lifecycle.status = "running"
      BY <3>1 DEF ExactBatch, Done
    <3>2. CASE lifecycle.status = "none"
      <4>1. acknowledged = 0 /\ lifecycle.nextTick = 1
        BY <1>4, <3>2 DEF ExactBatch
      <4>2. Done = 0
        BY <1>1, <4>1 DEF Done
      <4> QED
        BY <3>2, <4>1, <4>2
    <3>3. CASE lifecycle.status = "completed"
      <4>1. lifecycle.nextTick - 1 = Done
        BY <2>1, <3>3 DEF ExactBatch, Done
      <4> QED
        BY <1>2, <3>3, <4>1
    <3>4. lifecycle.status \notin {"command-drain-failed", "paused",
                                   "reset-requested"}
      BY <1>4 DEF ExactBatch
    <3> QED
      BY <1>1, <3>1, <3>2, <3>3, <3>4 DEF Status
  <2> HIDE DEF done
  <2>4. States
    BY <2>1, <2>2 DEF InBatch, Stepping
  <2>5. BatchSize * acknowledged' = Done
    BY <2>1 DEF Done
  <2>6. ~Stuck => Counts
    BY <1>2, <2>1, <2>2, <2>3, <2>5
  <2> QED
    BY <2>1, <2>4, <2>6
<1>7. ASSUME NEW st,
             lifecycle' = [status |-> st, nextTick |-> tick,
                           lastApplied |-> Len(stream), operation |-> operation,
                           completedTicks |-> previousTicks + completedTicks],
             phase \in InBatch, phase' \in {"return", "settled"},
             UNCHANGED <<operation, previousTicks, completedTicks, tick,
                         acknowledged>>,
             outcome' = st,
             \/ st = "command-drain-failed"
             \/ /\ st = "completed" /\ ~Stuck
                /\ previousTicks + completedTicks = BatchSize
      PROVE  States /\ (~Stuck => Counts) /\ Completed
  <2>1. States
    BY <1>7 DEF InBatch, Stepping
  <2>2. ~Stuck => tick - 1 = Done + previousTicks + completedTicks
    BY <1>7 DEF ExactBatch, Done
  <2>3. BatchSize * acknowledged' = Done
    BY <1>7 DEF Done
  <2>4. ~Stuck => Counts
    BY <1>7, <2>2, <2>3
  <2>5. Completed
    BY <1>1, <1>2, <1>4, <1>7, <2>2
  <2> QED
    BY <2>1, <2>4, <2>5
<1>8. CASE PauseBeforeTick
  BY <1>8 DEF PauseBeforeTick, ExactBatch
<1>9. CASE DrainFails
  <2>1. SaveBatch("command-drain-failed") /\ phase = "drain"
    BY <1>9 DEF DrainFails, Draining
  <2> QED
    BY <1>7, <2>1 DEF SaveBatch, batch, InBatch, Stepping
<1>10. CASE FinishBatch
  <2>1. SaveBatch("completed") /\ phase = "finish"
    BY <1>10 DEF FinishBatch
  <2>2. ~Stuck /\ previousTicks + completedTicks = BatchSize
    BY <2>1 DEF ExactBatch
  <2> QED
    BY <1>7, <2>1, <2>2 DEF SaveBatch, batch, InBatch
<1>11. CASE SaveSchedules
  <2>1. /\ phase = "return" /\ outcome = "completed" /\ outcome' = outcome
        /\ phase' = "settled"
        /\ UNCHANGED <<operation, previousTicks, completedTicks, tick,
                       acknowledged>>
        /\ lifecycle' = [status |-> "completed", nextTick |-> tick,
                         lastApplied |-> Len(stream), operation |-> operation,
                         completedTicks |-> previousTicks + completedTicks]
    BY <1>11 DEF SaveSchedules, batch, environment
  <2>2. ~Stuck /\ previousTicks + completedTicks = BatchSize
    BY <2>1 DEF ExactBatch
  <2> QED
    BY <1>7, <2>1, <2>2 DEF InBatch
<1>12. CASE CompleteTick
  <2>1. /\ tick' = tick + 1 /\ completedTicks' = completedTicks + 1
        /\ previousTicks' = previousTicks /\ operation' = operation
        /\ acknowledged' = acknowledged
        /\ lifecycle'.status = IF lifecycle.status = "paused" THEN "paused"
                               ELSE "running"
        /\ lifecycle'.nextTick = tick + 1
        /\ lifecycle'.completedTicks = previousTicks + completedTicks + 1
        /\ phase = "boundary"
        /\ phase' = IF previousTicks + completedTicks' = BatchSize
                    THEN "finish" ELSE "step"
    BY <1>12 DEF CompleteTick, environment
  <2>2. phase \in InBatch /\ phase \in Stepping /\ lifecycle.status # "paused"
    BY <2>1 DEF InBatch, Stepping, ExactBatch
  <2>3. States
    BY <1>1, <2>1, <2>2 DEF Stepping, InBatch
  <2>4. BatchSize * acknowledged' = Done
    BY <2>1 DEF Done
  <2>5. ~Stuck => tick - 1 = Done + previousTicks + completedTicks
    BY <2>2 DEF ExactBatch, Done
  <2>6. ~Stuck => Counts
    BY <1>1, <1>2, <2>1, <2>4, <2>5
  <2>7. lifecycle'.status = "running"
    BY <2>1, <2>2
  <2> QED
    BY <2>3, <2>6, <2>7
<1>13. CASE ReturnResult \/ StartCompleted \/ Crash
  <2>1. /\ UNCHANGED lifecycle
        /\ phase' \in {"idle", "down"}
    BY <1>13 DEF ReturnResult, StartCompleted, Crash, files
  <2>2. phase' \notin InBatch
    BY <2>1 DEF InBatch, Stepping
  <2>3. /\ acknowledged' # acknowledged =>
             /\ acknowledged' = acknowledged + 1
             /\ lifecycle.status = "completed"
             /\ lifecycle.operation = acknowledged + 1
    BY AcknowledgedStep
  <2>4. States
    BY <2>1, <2>2 DEF ExactBatch, InBatch
  <2>5. ~Stuck => Counts
    BY <2>1, <2>2, <2>3 DEF ExactBatch
  <2>6. Completed
    BY <1>1, <2>1, <2>3 DEF ExactBatch
  <2> QED
    BY <2>4, <2>5, <2>6
<1>14. CASE ~(\/ StartBatch \/ Saves \/ SaveSchedules \/ CompleteTick \/ Pause
              \/ Reset \/ ReturnResult \/ StartCompleted \/ Crash)
  <2>1. /\ UNCHANGED <<lifecycle, operation, previousTicks, completedTicks, tick,
                       acknowledged>>
        /\ phase' \in InBatch => phase \in InBatch
        /\ phase' \in Stepping => phase \in Stepping
        /\ phase' \in {"finish", "return", "settled"} => phase' = phase
    BY <1>14, BatchStands DEF batch, LoopInv
  <2>2. phase' \in InBatch => outcome' = outcome
    <3>1. phase' \in InBatch => ~StartRefused /\ ~Throw
      BY DEF StartRefused, Throw, InBatch, Stepping
    <3>2. UNCHANGED outcome \/ StartCompleted \/ StartRefused \/ Throw \/ Saves
      BY Frames, Zenon
    <3> QED
      BY <1>14, <3>1, <3>2
  <2>3. States
    <3>1. CASE phase' \in {"return", "settled"}
      <4>1. outcome' = outcome /\ phase \in {"return", "settled"}
        BY <2>1, <2>2, <3>1 DEF InBatch
      <4> QED
        BY <2>1, <3>1, <4>1 DEF ExactBatch, Stepping
    <3>2. CASE phase' \in Stepping \cup {"finish"}
      <4>1. /\ phase \in InBatch \ {"return", "settled"}
            /\ phase' \in Stepping => phase \in Stepping
            /\ phase' = "finish" => phase = "finish"
        BY <2>1, <3>2 DEF InBatch, Stepping
      <4>2. phase' \notin {"return", "settled"}
        BY <3>2 DEF Stepping
      <4> QED
        BY <2>1, <4>1, <4>2 DEF ExactBatch
    <3>3. CASE phase' \notin InBatch
      BY <2>1, <3>3 DEF ExactBatch, InBatch
    <3> QED
      BY <3>1, <3>2, <3>3 DEF InBatch
  <2>4. ~Stuck => Counts
    BY <2>1 DEF ExactBatch
  <2>5. Completed
    BY <2>1 DEF ExactBatch
  <2> QED
    BY <2>3, <2>4, <2>5
<1> QED
  BY <1>6, <1>8, <1>9, <1>10, <1>11, <1>12, <1>13, <1>14 DEF Saves

(* Kills, pauses and resets are counted.                                   *)
LEMMA CountersGrow ==
  ASSUME LoopInv, [Next]_vars
  PROVE  /\ pauses' = 0 => pauses = 0 /\ ~Pause
         /\ resets' = 0 => resets = 0 /\ ~Reset
         /\ crashes' = 0 => crashes = 0 /\ ~Crash
<1>1. pauses \in Nat /\ resets \in Nat /\ crashes \in Nat
  BY Numbers DEF LoopInv, LoopTypes, EnvironmentTypes
<1>2. /\ UNCHANGED pauses \/ Pause
      /\ UNCHANGED resets \/ Reset
      /\ UNCHANGED crashes \/ Crash
  BY Frames, Zenon
<1>3. /\ Pause => pauses' = pauses + 1
      /\ Reset => resets' = resets + 1
      /\ Crash => crashes' = crashes + 1
  BY DEF Pause, Reset, Crash
<1> QED
  BY <1>1, <1>2, <1>3

(* Before the first start no operation has a tick.                         *)
LEMMA ExactBatchInit ==
  ASSUME Init
  PROVE  ExactBatch
<1>1. /\ lifecycle.status = "none" /\ lifecycle.nextTick = 1
      /\ lifecycle.completedTicks = 0 /\ phase = "idle" /\ acknowledged = 0
  BY DEF Init
<1>2. ~Stuck
  BY DEF Init, Stuck, Blocked, Written
<1>3. BatchSize * acknowledged = 0
  BY <1>1, Numbers
<1>4. phase \notin InBatch /\ phase \notin Stepping
  BY <1>1 DEF InBatch, Stepping
<1> QED
  BY <1>1, <1>2, <1>3, <1>4 DEF ExactBatch, InBatch

(* However often an operation is killed and started again, it advances the *)
(* partition by its batch of ticks, neither more nor less, as long as it   *)
(* is not paused or reset in between (localSimulationLifecycle.ts).        *)
THEOREM BatchesAreExact == Spec => []BatchInv
<1>1. Init => BatchInv
  BY ExactBatchInit DEF BatchInv
<1>2. LoopInv /\ LoopInv' /\ BatchInv /\ [Next]_vars => BatchInv'
  BY CountersGrow, ExactBatchStep DEF BatchInv
<1> QED
  BY <1>1, <1>2, LoopInvariant, PTL DEF Spec

(* The property of the runs: a completed operation has made its ticks.     *)
THEOREM OperationsAdvanceOnce ==
  Spec => [](pauses = 0 /\ resets = 0 => OperationAdvancesOnce)
<1>1. LoopInv /\ BatchInv => (pauses = 0 /\ resets = 0 => OperationAdvancesOnce)
  <2> SUFFICES ASSUME LoopInv, ExactBatch PROVE OperationAdvancesOnce
    BY DEF BatchInv
  <2>1. ASSUME lifecycle.status = "completed"
        PROVE  lifecycle.nextTick = 1 + BatchSize * lifecycle.operation
    <3>1. lifecycle.nextTick \in Nat /\ lifecycle.operation \in Nat
          /\ BatchSize \in Nat
      BY Numbers DEF LoopInv, LoopTypes, LifecycleTypes
    <3>2. BatchSize * lifecycle.operation \in Nat
      BY <3>1
    <3>3. lifecycle.nextTick - 1 = BatchSize * lifecycle.operation
      BY <2>1 DEF ExactBatch
    <3> QED
      BY <3>1, <3>2, <3>3
  <2> QED
    BY <2>1 DEF ExactBatch, OperationAdvancesOnce
<1> QED
  BY <1>1, LoopInvariant, BatchesAreExact, PTL

-----------------------------------------------------------------------------
(* Hydration and snapshots.                                                *)

(* The hydrated projection is a prefix, from a snapshot as from scratch.   *)
LEMMA HydratedPrefix ==
  ASSUME LoopTypes, SnapshotInv, Hydrate
  PROVE  /\ projection' = Prefix(stream, hydratedTo')
         /\ stream' = stream /\ snapshot' = snapshot
<1>1. stream' = stream /\ snapshot' = snapshot
  BY DEF Hydrate, files
<1>2. hydratedTo' \in 0..Len(stream)
  BY Hydrated
<1>3. stream \in Seq(Key) /\ snapshot.sequence \in Nat
  BY DEF LoopTypes, DerivedTypes
<1>4. CASE snapshot.sequence <= hydratedTo'
  <2>1. projection' = Prefix(stream, snapshot.sequence)
                        \o SubSeq(stream, snapshot.sequence + 1, hydratedTo')
    BY <1>4 DEF Hydrate, SnapshotInv
  <2>2. snapshot.sequence \in 0..hydratedTo'
    BY <1>2, <1>3, <1>4
  <2> QED
    BY <1>1, <1>2, <1>3, <2>1, <2>2, PrefixContinued
<1>5. CASE ~(snapshot.sequence <= hydratedTo')
  BY <1>1, <1>5, Zenon DEF Hydrate
<1> QED
  BY <1>4, <1>5

(* Prefixes of the stream stay its prefixes.                               *)
LEMMA PrefixStands ==
  ASSUME LoopTypes, [Next]_vars, NEW n \in 0..Len(stream)
  PROVE  Prefix(stream', n) = Prefix(stream, n)
<1>1. CASE UNCHANGED stream
  BY <1>1
<1>2. ASSUME NEW key \in Key, stream' = Append(stream, key)
      PROVE  Prefix(stream', n) = Prefix(stream, n)
  BY <1>2, PrefixOfAppended DEF LoopTypes
<1>3. CASE DispatchCommand
  BY <1>2, <1>3, CommandAppended
<1>4. CASE AppendSlot
  BY <1>2, <1>4, SlotAppended
<1> QED
  BY <1>1, <1>3, <1>4, Frames

(* A snapshot holds what its label says.                                   *)
LEMMA SnapshotStep ==
  ASSUME LoopTypes, SnapshotInv, [Next]_vars,
         phase = "tick" => projection = Prefix(stream, expectedVersion)
  PROVE  SnapshotInv'
<1>1. snapshot.sequence \in 0..Len(stream) /\ expectedVersion \in 0..Len(stream)
  BY DEF LoopTypes, DerivedTypes
<1>2. CASE UNCHANGED snapshot
  <2>1. Prefix(stream', snapshot.sequence) = Prefix(stream, snapshot.sequence)
    BY <1>1, PrefixStands
  <2> QED
    BY <1>2, <2>1 DEF SnapshotInv, Prefix
<1>3. CASE SaveSnapshot
  <2>1. CASE UNCHANGED snapshot
    BY <1>2, <2>1
  <2>2. CASE ~UNCHANGED snapshot
    <3>1. /\ snapshot' = [sequence |-> expectedVersion,
                          projection |-> projection]
          /\ stream' = stream /\ phase = "tick"
      BY <1>3, <2>2 DEF SaveSnapshot, Throw, files
    <3> QED
      BY <3>1 DEF SnapshotInv, Prefix
  <2> QED
    BY <2>1, <2>2
<1> QED
  BY <1>2, <1>3, Frames

-----------------------------------------------------------------------------
(* Without kills and resets.                                               *)

(* The record behind a checkpoint has not been handled.                    *)
LEMMA NextRecordIsFree ==
  ASSUME LoopInv, CheckpointCommand
  PROVE  ~Blocked'
<1>1. consumed \in Nat /\ Record = consumed + 1
  BY DEF LoopInv, LoopTypes, CommandTypes, Record
<1>2. Record' = Record + 1 /\ stream' = stream
  BY <1>1 DEF CheckpointCommand, Record
<1>3. SUFFICES ASSUME Written(CommandKey(Record + 1)) PROVE FALSE
  BY <1>2 DEF Blocked, Written
<1>4. Record + 1 <= Record
  BY <1>3, AppendedCommand DEF LoopInv
<1> QED
  BY <1>1, <1>4

(* No start throws and no drain fails.                                     *)
LEMMA NothingFails ==
  ASSUME LoopInv, Undisturbed, [Next]_vars
  PROVE  ~DrainFails /\ ~Throws /\ ~Throw
<1>1. ~DrainFails
  BY DEF DrainFails, Draining, Undisturbed, Stuck, Blocked, Handling
<1>2. ~RecoveredAppendDoesNotContinue
  BY DEF RecoveredAppendDoesNotContinue, Recoverable, Undisturbed
<1>3. ~AppendRefused
  <2> SUFFICES ASSUME AppendRefused PROVE FALSE
    OBVIOUS
  <2>1. /\ phase = "tick" /\ slot <= LastSlot
        /\ Written(CurrentKey) \/ expectedVersion # Len(stream)
    BY DEF AppendRefused, InTick
  <2>2. Written(CurrentKey)
    BY <2>1 DEF Undisturbed, Ticking
  <2>3. PICK n \in 1..Len(stream) : stream[n] = CurrentKey
    BY <2>2 DEF Written
  <2>4. /\ CurrentKey \in SlotKeys
        /\ CurrentKey.tick = tick /\ CurrentKey.slot = slot
    BY <2>2, WrittenKeys, KeyKinds DEF CurrentKey, LoopInv
  <2>5. Before(CurrentKey)
    BY <2>3, <2>4 DEF Undisturbed, AllBefore
  <2>6. tick \in Nat /\ slot \in Nat
    BY Numbers DEF LoopInv, LoopTypes, BatchTypes, SlotTypes
  <2> QED
    BY <2>1, <2>4, <2>5, <2>6 DEF Before
<1>4. ~(SaveSnapshot /\ snapshot.sequence > expectedVersion)
  <2> SUFFICES ASSUME phase = "tick", snapshot.sequence > expectedVersion
               PROVE  FALSE
    BY DEF SaveSnapshot
  <2>1. expectedVersion = Len(stream) /\ Len(stream) \in Nat
    BY DEF Undisturbed, Ticking, LoopInv, LoopTypes
  <2> QED
    BY <2>1 DEF LoopInv, LoopTypes, DerivedTypes
<1>5. ~Throws
  BY <1>2, <1>3, <1>4 DEF Throws
<1>6. ~Throw
  <2>1. outcome # "threw"
    BY DEF Undisturbed, RecoveryIsExact
  <2>2. outcome' # "threw" \/ UNCHANGED outcome \/ Throws
    BY Frames, Zenon
  <2> QED
    BY <1>5, <2>1, <2>2 DEF Throw
<1> QED
  BY <1>1, <1>5, <1>6

(* What the stream holds stays in front of the tick's next slot.           *)
LEMMA BeforeStep ==
  ASSUME LoopInv, LoopInv', [Next]_vars, ~Crash, ~Throw,
         lifecycle.nextTick = tick, lifecycle'.nextTick = tick', AllBefore
  PROVE  AllBefore'
<1>1. /\ tick \in Nat /\ slot \in Nat /\ stream \in Seq(Key)
      /\ \A key \in SlotKeys : key.tick \in Nat /\ key.slot \in Nat
  BY Numbers, Keys DEF LoopInv, LoopTypes, BatchTypes, SlotTypes
<1>2. ASSUME NEW key \in SlotKeys, Before(key) PROVE Before(key)'
  <2>1. \/ key.tick < tick
        \/ /\ phase \in Ticking /\ key.tick = tick
           /\ phase = "cycle" => key.slot <= slot
           /\ phase # "cycle" => key.slot < slot
    BY <1>2 DEF Before
  <2>2. \/ key.tick < tick'
        \/ /\ phase' \in Ticking /\ key.tick = tick'
           /\ phase' = "cycle" => key.slot <= slot'
           /\ phase' # "cycle" => key.slot < slot'
    <3>1. CASE CompleteTick
      BY <1>1, <2>1, <3>1 DEF CompleteTick
    <3>2. CASE ~CompleteTick
      <4>1. tick' = tick
        <5>1. UNCHANGED <<completedTicks, tick, recoveryTo>> \/ StartBatch
          BY <3>2, Frames
        <5> QED
          BY <5>1 DEF StartBatch
      <4>2. CASE key.tick < tick
        BY <4>1, <4>2
      <4>3. CASE ~(key.tick < tick)
        <5>1. phase \in Ticking /\ key.tick = tick
          BY <2>1, <4>3
        <5>2. CASE AppendSlot
          BY <1>1, <2>1, <4>1, <4>3, <5>2 DEF AppendSlot, InTick, Ticking
        <5>3. CASE SaveCycleEffects
          BY <1>1, <2>1, <4>1, <4>3, <5>3 DEF SaveCycleEffects, Ticking
        <5>4. CASE RecoverAppend \/ AgentIdle
          BY <1>1, <2>1, <4>1, <4>3, <5>4
             DEF RecoverAppend, AgentIdle, InTick, Ticking
        <5>5. CASE ~AppendSlot /\ ~SaveCycleEffects /\ ~RecoverAppend /\ ~AgentIdle
          <6>1. slot' = slot
            <7>1. ~BeginTick
              BY <5>1 DEF BeginTick, Ticking
            <7> QED
              BY <5>5, <7>1, Frames
          <6>2. \/ phase' = phase
                \/ phase = "tick" /\ phase' = "boundary"
            BY <3>2, <5>1, <5>5, Phases DEF Ticking
          <6> QED
            BY <2>1, <4>1, <4>3, <5>1, <6>1, <6>2 DEF Ticking
        <5> QED
          BY <5>2, <5>3, <5>4, <5>5
      <4> QED
        BY <4>2, <4>3
    <3> QED
      BY <3>1, <3>2
  <2> QED
    BY <2>2 DEF Before
<1>3. CASE UNCHANGED stream
  <2>1. SUFFICES ASSUME NEW n \in 1..Len(stream), stream[n] \in SlotKeys
                 PROVE  \A key \in SlotKeys : key = stream[n] => Before(key)'
    BY <1>3 DEF AllBefore, Before
  <2> QED
    BY <1>2, <2>1 DEF AllBefore
<1>4. ASSUME NEW new \in Key, stream' = Append(stream, new),
             new \in SlotKeys => Before(new)'
      PROVE  AllBefore'
  <2>1. /\ Len(stream) \in Nat /\ Len(stream') = Len(stream) + 1
        /\ \A n \in 1..Len(stream) : stream'[n] = stream[n]
        /\ stream'[Len(stream) + 1] = new
    BY <1>1, <1>4, Appended
  <2> SUFFICES ASSUME NEW n \in 1..Len(stream'), NEW key \in SlotKeys,
                      key = stream'[n]
               PROVE  Before(key)'
    BY DEF AllBefore, Before
  <2>2. CASE n \in 1..Len(stream)
    BY <1>2, <2>1, <2>2 DEF AllBefore
  <2>3. CASE n = Len(stream) + 1
    <3>1. key = new
      BY <2>1, <2>3
    <3> QED
      BY <1>4, <3>1 DEF Before
  <2> QED
    BY <2>1, <2>2, <2>3
<1>5. CASE DispatchCommand
  <2>1. PICK key \in Key : key \in CommandKeys /\ stream' = Append(stream, key)
    BY <1>5, CommandAppended DEF LoopInv
  <2> QED
    BY <1>4, <2>1, Keys
<1>6. CASE AppendSlot
  <2>1. PICK key \in SlotKeys : /\ key \in Key /\ stream' = Append(stream, key)
                                /\ key.tick = tick /\ key.slot = slot
    BY <1>6, SlotAppended DEF LoopInv
  <2>2. /\ tick' = tick
        /\ \/ phase' = "cycle" /\ slot' = slot
           \/ phase' = "tick" /\ slot' = slot + 1
    BY <1>6 DEF AppendSlot, InTick, batch
  <2>3. Before(key)'
    BY <1>1, <2>1, <2>2 DEF Before, Ticking
  <2> QED
    BY <1>4, <2>1, <2>3
<1> QED
  BY <1>3, <1>5, <1>6, Frames

(* Pauses and commands, at any moment, disturb nothing.                    *)
LEMMA UndisturbedStep ==
  ASSUME LoopInv, LoopInv', Undisturbed, [Next]_vars, ~Crash, ~Reset
  PROVE  Undisturbed'
<1>1. ~DrainFails /\ ~Throws /\ ~Throw
  BY NothingFails
<1>2. LoopTypes /\ stream \in Seq(Key) /\ Len(stream) \in Nat
      /\ expectedVersion \in Nat
  BY DEF LoopInv, LoopTypes, DerivedTypes
<1>3. recoveryTo = NoSequence /\ ~recovering
  BY DEF Undisturbed
<1>4. RecoveryIsExact'
  <2>1. UNCHANGED outcome \/ StartCompleted \/ StartRefused \/ Saves
    BY <1>1, Frames
  <2>2. Saves => PauseBeforeTick \/ FinishBatch
    BY <1>1 DEF Saves
  <2> QED
    BY <2>1, <2>2 DEF Undisturbed, RecoveryIsExact, StartCompleted, StartRefused,
       PauseBeforeTick, FinishBatch, SaveBatch
<1>5. recoveryTo' = NoSequence
  <2>1. StartBatch => lifecycle.status # "running"
    BY DEF StartBatch, Undisturbed
  <2>2. CASE StartBatch
    BY <2>1, <2>2 DEF StartBatch
  <2>3. CASE CompleteTick
    BY <1>3, <2>3, Zenon DEF CompleteTick
  <2> QED
    BY <1>3, <2>2, <2>3, Frames
<1>6. ~recovering'
  <2>1. CASE Hydrate
    BY <1>3, <2>1, Zenon DEF Hydrate
  <2>2. CASE UNCHANGED recovering
    BY <1>3, <2>2, Zenon
  <2>3. UNCHANGED <<recovering, hydratedTo, drainTo>> \/ Hydrate
    BY Frames, Zenon
  <2> QED
    BY <2>1, <2>2, <2>3
<1>7. phase' # "down"
  BY Phases DEF Undisturbed
<1>8. /\ UNCHANGED lifecycle \/ StartBatch \/ PauseBeforeTick \/ FinishBatch
           \/ SaveSchedules \/ CompleteTick \/ Pause
      /\ StartBatch => /\ lifecycle'.status = "running"
                       /\ lifecycle'.nextTick = tick'
                       /\ phase' \in {"step", "finish"}
      /\ PauseBeforeTick => /\ lifecycle'.status = "paused"
                            /\ lifecycle'.nextTick = tick /\ tick' = tick
      /\ FinishBatch => /\ lifecycle'.status = "completed"
                        /\ lifecycle'.nextTick = tick /\ tick' = tick
      /\ SaveSchedules => /\ lifecycle'.status = "completed"
                          /\ lifecycle'.nextTick = tick /\ tick' = tick
      /\ CompleteTick => /\ lifecycle'.status \in {"paused", "running"}
                         /\ lifecycle'.nextTick = tick' /\ phase = "boundary"
                         /\ phase' \in {"step", "finish"}
      /\ Pause => /\ lifecycle'.status = "paused" /\ phase' = phase
                  /\ lifecycle'.nextTick = lifecycle.nextTick /\ tick' = tick
  <2>1. UNCHANGED lifecycle \/ StartBatch \/ PauseBeforeTick \/ FinishBatch
           \/ SaveSchedules \/ CompleteTick \/ Pause
    <3>1. UNCHANGED lifecycle \/ StartBatch \/ Saves \/ SaveSchedules
             \/ CompleteTick \/ Pause
      BY Frames, Zenon
    <3> QED
      BY <1>1, <3>1 DEF Saves
  <2>2. StartBatch => /\ lifecycle'.status = "running"
                      /\ lifecycle'.nextTick = tick'
                      /\ phase' \in {"step", "finish"}
    BY DEF StartBatch
  <2>3. PauseBeforeTick => /\ lifecycle'.status = "paused"
                           /\ lifecycle'.nextTick = tick /\ tick' = tick
    BY DEF PauseBeforeTick, SaveBatch, batch
  <2>4. FinishBatch => /\ lifecycle'.status = "completed"
                       /\ lifecycle'.nextTick = tick /\ tick' = tick
    BY DEF FinishBatch, SaveBatch, batch
  <2>5. SaveSchedules => /\ lifecycle'.status = "completed"
                         /\ lifecycle'.nextTick = tick /\ tick' = tick
    BY DEF SaveSchedules, batch
  <2>6. CompleteTick => /\ lifecycle'.status \in {"paused", "running"}
                        /\ lifecycle'.nextTick = tick' /\ phase = "boundary"
                        /\ phase' \in {"step", "finish"}
    BY DEF CompleteTick
  <2>7. Pause => /\ lifecycle'.status = "paused" /\ phase' = phase
                 /\ lifecycle'.nextTick = lifecycle.nextTick /\ tick' = tick
    BY <1>2 DEF Pause, batch, LoopTypes, LifecycleTypes
  <2> QED
    BY <2>1, <2>2, <2>3, <2>4, <2>5, <2>6, <2>7
<1>9. phase' \in {"idle", "return", "settled"} => lifecycle'.status # "running"
  <2> SUFFICES ASSUME phase' \in {"idle", "return", "settled"}, UNCHANGED lifecycle
               PROVE  lifecycle.status # "running"
    BY <1>8
  <2>1. phase \in {"idle", "return", "settled"} \/ Saves
    BY <1>1, Phases DEF Undisturbed
  <2>2. Saves => lifecycle.status # "running"
    BY <1>1 DEF Saves, PauseBeforeTick, FinishBatch, SaveBatch
  <2> QED
    BY <2>1, <2>2 DEF Undisturbed
<1>10. lifecycle'.status \notin {"command-drain-failed", "reset-requested"}
  BY <1>8 DEF Undisturbed
<1>11. lifecycle'.nextTick = tick'
  <2>1. UNCHANGED <<completedTicks, tick, recoveryTo>> \/ StartBatch \/ CompleteTick
    BY Frames, Zenon
  <2> QED
    BY <1>8, <2>1 DEF Undisturbed
<1>12. ~Stuck'
  BY StuckEntered, NextRecordIsFree DEF Undisturbed, Stuck
<1>13. AllBefore'
  BY <1>1, <1>11, BeforeStep DEF Undisturbed
<1>14. phase' \in Ticking => expectedVersion' = Len(stream')
  <2> SUFFICES ASSUME phase' \in Ticking PROVE expectedVersion' = Len(stream')
    OBVIOUS
  <2>1. ~DispatchCommand
    BY DEF DispatchCommand, Ticking
  <2>2. CASE BeginTick
    BY <1>3, <2>2 DEF BeginTick, files
  <2>3. CASE AppendSlot
    BY <1>2, <2>3, SlotAppended, Appended DEF AppendSlot
  <2>4. CASE ~BeginTick /\ ~AppendSlot
    <3>1. ~RecoverAppend
      BY <1>3 DEF RecoverAppend, Recoverable
    <3>2. UNCHANGED <<expectedVersion, stream>>
      BY <2>1, <2>4, <3>1, Frames
    <3>3. phase \in Ticking
      BY <2>4, Phases DEF Ticking
    <3> QED
      BY <3>2, <3>3 DEF Undisturbed
  <2> QED
    BY <2>2, <2>3, <2>4
<1>15. phase' \in {"drain"} \cup Handling \cup Ticking => projection' = stream'
  <2> SUFFICES ASSUME phase' \in {"drain"} \cup Handling \cup Ticking
               PROVE  projection' = stream'
    OBVIOUS
  <2>1. CASE Hydrate
    <3>1. hydratedTo' = Len(stream)
      BY <1>2, <1>6, <2>1, Hydrated
    <3>2. projection' = Prefix(stream, hydratedTo') /\ stream' = stream
      BY <1>2, <2>1, HydratedPrefix DEF Undisturbed
    <3> QED
      BY <1>2, <3>1, <3>2, WholePrefix
  <2>2. CASE DispatchCommand
    BY <2>2 DEF DispatchCommand, Draining, Undisturbed
  <2>3. CASE AppendSlot
    BY <2>3 DEF AppendSlot, InTick, Undisturbed, Ticking
  <2>4. CASE ~Hydrate /\ ~DispatchCommand /\ ~AppendSlot
    <3>1. ~RecoverAppend
      BY <1>3 DEF RecoverAppend, Recoverable
    <3>2. UNCHANGED <<projection, stream>>
      BY <2>4, <3>1, Frames
    <3>3. phase \in {"drain"} \cup Handling \cup Ticking
      BY <2>4, Phases DEF Ticking, Handling
    <3> QED
      BY <3>2, <3>3 DEF Undisturbed
  <2> QED
    BY <2>1, <2>2, <2>3, <2>4
<1>16. SnapshotInv'
  <2>1. phase = "tick" => projection = Prefix(stream, expectedVersion)
    BY <1>2, WholePrefix DEF Undisturbed, Ticking
  <2> QED
    BY <1>2, <2>1, SnapshotStep DEF Undisturbed
<1> QED
  BY <1>4, <1>5, <1>6, <1>7, <1>9, <1>10, <1>11, <1>12, <1>13, <1>14, <1>15,
     <1>16 DEF Undisturbed

(* The first process has nothing to replay.                                *)
LEMMA UndisturbedInit ==
  ASSUME Init
  PROVE  Undisturbed
<1>1. /\ Len(stream) = 0 /\ phase = "idle" /\ outcome = "none"
      /\ recoveryTo = NoSequence /\ lifecycle.status = "none"
      /\ lifecycle.nextTick = tick /\ snapshot.sequence = 0
      /\ snapshot.projection = << >> /\ stream = << >>
  BY DEF Init
<1>2. ~recovering
  BY Zenon DEF Init
<1>3. ~Stuck
  BY <1>1 DEF Stuck, Blocked, Written
<1>4. AllBefore
  BY <1>1 DEF AllBefore
<1>5. SnapshotInv
  BY <1>1 DEF SnapshotInv, Prefix
<1>6. RecoveryIsExact
  BY <1>1 DEF RecoveryIsExact
<1> QED
  BY <1>1, <1>2, <1>3, <1>4, <1>5, <1>6 DEF Undisturbed, Handling, Ticking

(* Without a kill and a reset nothing is replayed and the process always   *)
(* has the whole stream in hand (localRuntimeStep.ts, tickRunner.ts).      *)
THEOREM NothingIsReplayed == Spec => []HarmlessInv
<1>1. Init => HarmlessInv
  BY UndisturbedInit DEF HarmlessInv
<1>2. LoopInv /\ LoopInv' /\ HarmlessInv /\ [Next]_vars => HarmlessInv'
  BY CountersGrow, UndisturbedStep DEF HarmlessInv
<1> QED
  BY <1>1, <1>2, LoopInvariant, PTL DEF Spec

(* Pauses and commands of every kind leave every start something to go on  *)
(* from, as long as no process dies and no reset is requested              *)
(* (localSimulationLifecycle.ts, localRuntimeLoop.ts).                     *)
THEOREM PausesDoNoHarm == Spec => []PausesAreHarmless
<1>1. HarmlessInv => PausesAreHarmless
  BY DEF HarmlessInv, Undisturbed, PausesAreHarmless
<1> QED
  BY <1>1, NothingIsReplayed, PTL

(* What is derived from the stream is the whole stream, then               *)
(* (projectionHydration.ts, tickRunner.ts).                                *)
THEOREM UndisturbedStateIsPrefix ==
  Spec => [](crashes = 0 /\ resets = 0 => DerivedStateIsPrefix)
<1>1. LoopInv /\ HarmlessInv => (crashes = 0 /\ resets = 0 => DerivedStateIsPrefix)
  <2> SUFFICES ASSUME LoopInv, Undisturbed PROVE DerivedStateIsPrefix
    BY DEF HarmlessInv
  <2>1. Prefix(stream, Len(stream)) = stream
    BY WholePrefix DEF LoopInv, LoopTypes
  <2> QED
    BY <2>1 DEF Undisturbed, SnapshotInv, DerivedStateIsPrefix, Ticking
<1> QED
  BY <1>1, LoopInvariant, NothingIsReplayed, PTL

-----------------------------------------------------------------------------
(* Recovery, when drained commands append nothing.                         *)

(* A note appends nothing.                                                 *)
LEMMA NotesAppendNothing ==
  ASSUME CommandKinds \subseteq {"note"}, LoopTypes, [Next]_vars
  PROVE  /\ ~DispatchCommand /\ ~DrainFails
         /\ UNCHANGED stream \/ AppendSlot
<1>1. Draining => commandStream[Record] = "note"
  <2> SUFFICES ASSUME Draining PROVE commandStream[Record] = "note"
    OBVIOUS
  <2>1. commandStream \in Seq(CommandKinds) /\ Record \in 1..Len(commandStream)
    BY DEF Draining, Record, LoopTypes, CommandTypes
  <2>2. commandStream[Record] \in CommandKinds
    BY <2>1
  <2> QED
    BY <2>2
<1>2. ~DispatchCommand /\ ~DrainFails
  BY <1>1 DEF DispatchCommand, DrainFails
<1>3. UNCHANGED stream \/ DispatchCommand \/ AppendSlot
  BY Frames, Zenon
<1> QED
  BY <1>2, <1>3

(* The projection is the prefix the tick's next append follows.            *)
LEMMA NotesStep ==
  ASSUME CommandKinds \subseteq {"note"}, LoopInv, NotesInv, [Next]_vars
  PROVE  NotesInv'
<1>1. /\ LoopTypes /\ stream \in Seq(Key) /\ Len(stream) \in Nat
      /\ expectedVersion \in 0..Len(stream) /\ hydratedTo \in 0..Len(stream)
  BY DEF LoopInv, LoopTypes, DerivedTypes
<1>2. ~DispatchCommand /\ (UNCHANGED stream \/ AppendSlot)
  BY <1>1, NotesAppendNothing
<1>3. phase' \in {"drain"} \cup Handling =>
        /\ projection' = Prefix(stream', hydratedTo')
        /\ ~recovering' => hydratedTo' = Len(stream')
  <2> SUFFICES ASSUME phase' \in {"drain"} \cup Handling
               PROVE  /\ projection' = Prefix(stream', hydratedTo')
                      /\ ~recovering' => hydratedTo' = Len(stream')
    OBVIOUS
  <2>1. CASE Hydrate
    <3>1. projection' = Prefix(stream, hydratedTo') /\ stream' = stream
      BY <1>1, <2>1, HydratedPrefix DEF NotesInv
    <3>2. ~recovering' => hydratedTo' = Len(stream)
      BY <1>1, <2>1, Hydrated
    <3> QED
      BY <3>1, <3>2 DEF Prefix
  <2>2. CASE ~Hydrate
    <3>1. ~AppendSlot /\ ~RecoverAppend /\ ~Crash
      BY DEF AppendSlot, InTick, RecoverAppend, Crash, Handling
    <3>2. UNCHANGED <<projection, hydratedTo>>
      BY <1>2, <2>2, <3>1, Frames
    <3>3. UNCHANGED <<recovering, hydratedTo, drainTo>>
      BY <2>2, <3>1, Frames, Zenon
    <3>4. UNCHANGED stream
      BY <1>2, <3>1
    <3>5. phase \in {"drain"} \cup Handling
      BY <2>2, Phases DEF Handling
    <3>6. /\ projection = Prefix(stream, hydratedTo)
          /\ ~recovering => hydratedTo = Len(stream)
      BY <3>5 DEF NotesInv
    <3>7. recovering' = recovering
      BY <3>3
    <3>8. projection' = Prefix(stream', hydratedTo')
      BY <3>2, <3>4, <3>6 DEF Prefix
    <3>9. Len(stream') = Len(stream) /\ hydratedTo' = hydratedTo
      BY <3>2, <3>4
    <3> QED
      BY <3>6, <3>7, <3>8, <3>9, Zenon
  <2> QED
    BY <2>1, <2>2
<1>4. phase' \in Ticking => projection' = Prefix(stream', expectedVersion')
  <2> SUFFICES ASSUME phase' \in Ticking
               PROVE  projection' = Prefix(stream', expectedVersion')
    OBVIOUS
  <2>1. CASE BeginTick
    <3>1. /\ phase = "drain" /\ UNCHANGED <<stream, projection>>
          /\ expectedVersion' = IF recovering THEN hydratedTo ELSE Len(stream)
      BY <2>1 DEF BeginTick, files
    <3>2. /\ projection = Prefix(stream, hydratedTo)
          /\ ~recovering => hydratedTo = Len(stream)
      BY <3>1 DEF NotesInv
    <3>3. expectedVersion' = hydratedTo
      BY <3>1, <3>2, Zenon
    <3> QED
      BY <3>1, <3>2, <3>3 DEF Prefix
  <2>2. CASE RecoverAppend
    <3>1. /\ phase = "tick" /\ UNCHANGED stream
          /\ projection' = Append(projection, CurrentKey)
          /\ expectedVersion' = expectedVersion + 1
      BY <2>2 DEF RecoverAppend, InTick, files
    <3>2. expectedVersion + 1 \in 1..Len(stream)
          /\ stream[expectedVersion + 1] = CurrentKey
      BY <2>2 DEF RecoverAppend, Recoverable, Written, Position
    <3>3. projection = Prefix(stream, expectedVersion)
      BY <3>1 DEF NotesInv, Ticking
    <3>4. Append(Prefix(stream, expectedVersion), stream[expectedVersion + 1])
            = Prefix(stream, expectedVersion + 1)
      BY <1>1, <3>2, NextPrefix
    <3> QED
      BY <3>1, <3>2, <3>3, <3>4 DEF Prefix
  <2>3. CASE AppendSlot
    <3>1. /\ phase = "tick" /\ projection' = Append(projection, CurrentKey)
          /\ expectedVersion' = expectedVersion + 1
          /\ expectedVersion = Len(stream) /\ CurrentKey \in Key
          /\ stream' = Append(stream, CurrentKey)
      BY <1>1, <2>3, SlotAppended DEF AppendSlot, InTick
    <3>2. projection = stream
      BY <1>1, <3>1, WholePrefix DEF NotesInv, Ticking
    <3>3. stream' \in Seq(Key) /\ Len(stream') = expectedVersion'
      BY <1>1, <3>1, Appended
    <3>4. Prefix(stream', Len(stream')) = stream'
      BY <3>3, WholePrefix
    <3> QED
      BY <3>1, <3>2, <3>3, <3>4 DEF Prefix
  <2>4. CASE ~BeginTick /\ ~RecoverAppend /\ ~AppendSlot
    <3>1. ~Hydrate /\ ~Crash
      BY DEF Hydrate, Crash, Ticking
    <3>2. UNCHANGED <<projection, expectedVersion, stream>>
      BY <1>2, <2>4, <3>1, Frames
    <3>3. phase \in Ticking
      BY <2>4, Phases DEF Ticking
    <3> QED
      BY <3>2, <3>3 DEF NotesInv, Prefix
  <2> QED
    BY <2>1, <2>2, <2>3, <2>4
<1>5. SnapshotInv'
  BY <1>1, SnapshotStep DEF NotesInv, Ticking
<1> QED
  BY <1>3, <1>4, <1>5 DEF NotesInv

(* In every recovery, however often the process is killed, paused and      *)
(* reset, every agent decides on exactly what its append will follow, and  *)
(* a snapshot holds what its label says, provided that drained commands    *)
(* append nothing (localRuntimeStep.ts, tickRunner.ts,                     *)
(* projectionHydration.ts).                                                *)
THEOREM RecoveredStateIsPrefix ==
  ASSUME CommandKinds \subseteq {"note"}
  PROVE  Spec => []DerivedStateIsPrefix
<1>1. Init => NotesInv
  <2> SUFFICES ASSUME Init PROVE NotesInv
    OBVIOUS
  <2>1. phase = "idle"
    BY DEF Init
  <2>2. SnapshotInv
    BY UndisturbedInit DEF Undisturbed
  <2> QED
    BY <2>1, <2>2 DEF NotesInv, Handling, Ticking
<1>2. LoopInv /\ NotesInv /\ [Next]_vars => NotesInv'
  BY NotesStep
<1>3. NotesInv => DerivedStateIsPrefix
  BY DEF NotesInv, SnapshotInv, DerivedStateIsPrefix, Ticking
<1> QED
  BY <1>1, <1>2, <1>3, LoopInvariant, PTL DEF Spec

(* The stream holds ticks only, and every append is due.                   *)
LEMMA DueKeys ==
  ASSUME LoopTypes
  PROVE  /\ \A key \in Due : key \in SlotKeys
         /\ \A key \in SlotKeys : /\ key.tick \in 1..Ticks /\ key.tick \in Nat
                                  /\ key.slot \in 0..LastSlot /\ key.slot \in Nat
                                  /\ key = SlotKey(key.tick, key.slot)
         /\ InOrder => \A n \in 1..Len(stream) : stream[n] \in SlotKeys
<1>1. \A key \in Due : key \in SlotKeys
  BY DEF Due
<1>2. \A key \in SlotKeys : /\ key.tick \in 1..Ticks /\ key.tick \in Nat
                            /\ key.slot \in 0..LastSlot /\ key.slot \in Nat
                            /\ key = SlotKey(key.tick, key.slot)
  BY Keys, Numbers
<1> QED
  BY <1>1, <1>2 DEF InOrder

(* The next append to replay is of the tick in hand, and not behind it.    *)
LEMMA NextAppend ==
  ASSUME LoopInv, ExactReplay, phase = "tick", expectedVersion # Len(stream)
  PROVE  /\ expectedVersion + 1 \in 1..Len(stream)
         /\ stream[expectedVersion + 1] \in Due
         /\ stream[expectedVersion + 1] \in SlotKeys
         /\ stream[expectedVersion + 1].tick = tick
         /\ slot <= stream[expectedVersion + 1].slot
         /\ recovering
<1> DEFINE n == expectedVersion + 1
<1>1. /\ LoopTypes /\ expectedVersion \in 0..Len(stream) /\ Len(stream) \in Nat
      /\ lifecycle.lastApplied \in Nat /\ tick \in Nat /\ slot \in Nat
  BY Numbers
     DEF LoopInv, LoopTypes, DerivedTypes, LifecycleTypes, BatchTypes, SlotTypes
<1>2. n \in 1..Len(stream) /\ n \in (expectedVersion + 1)..Len(stream)
  BY <1>1
<1>3. stream[n] \in Due /\ stream[n] \in SlotKeys
  BY <1>1, <1>2, DueKeys DEF ExactReplay, InOrder
<1>4. stream[n].tick \in Nat /\ stream[n].slot \in Nat
  BY <1>1, <1>3, DueKeys
<1>5. ~Before(stream[n])
  BY <1>2 DEF ExactReplay, InStep, Ticking
<1>6. ~(stream[n].tick < tick)
      /\ (stream[n].tick = tick => ~(stream[n].slot < slot))
  BY <1>5 DEF Before, Ticking
<1>7. lifecycle.nextTick = tick
  BY DEF ExactReplay, FromBoundary, Stepping
<1>8. ~(n \in 1..lifecycle.lastApplied)
  BY <1>6, <1>7 DEF ExactReplay, AtBoundary
<1>9. n \in (lifecycle.lastApplied + 1)..Len(stream)
  BY <1>1, <1>2, <1>8
<1>10. stream[n].tick = tick
  BY <1>7, <1>9 DEF ExactReplay, AtBoundary
<1>11. slot <= stream[n].slot
  BY <1>1, <1>4, <1>6, <1>10
<1>12. recovering
  BY Zenon DEF ExactReplay, InStep, Ticking
<1> QED
  BY <1>2, <1>3, <1>10, <1>11, <1>12

(* A slot's append that is there is the next one to replay.                *)
LEMMA WrittenIsNext ==
  ASSUME LoopInv, ExactReplay, phase = "tick", slot <= LastSlot,
         Written(CurrentKey)
  PROVE  recovering /\ Position(CurrentKey) = expectedVersion + 1
<1>1. /\ LoopTypes /\ expectedVersion \in 0..Len(stream) /\ Len(stream) \in Nat
      /\ tick \in Nat /\ slot \in Nat
  <2>1. LoopTypes
    BY DEF LoopInv
  <2> QED
    BY <2>1, Numbers DEF LoopTypes, DerivedTypes, BatchTypes, SlotTypes
<1>2. PICK n \in 1..Len(stream) : n = Position(CurrentKey)
                                  /\ stream[n] = CurrentKey
  BY DEF Written, Position
<1>3. CurrentKey.tick = tick /\ CurrentKey.slot = slot /\ CurrentKey \in SlotKeys
  BY <1>1, <1>2, WrittenKeys, KeyKinds DEF CurrentKey
<1>4. ~Before(CurrentKey)
  BY <1>1, <1>3 DEF Before
<1>5. ~(n \in 1..expectedVersion)
  BY <1>2, <1>4 DEF ExactReplay, InStep, Ticking
<1>6. expectedVersion # Len(stream)
  BY <1>1, <1>5
<1>7. /\ expectedVersion + 1 \in 1..Len(stream)
      /\ stream[expectedVersion + 1] \in SlotKeys
      /\ stream[expectedVersion + 1].tick = tick
      /\ slot <= stream[expectedVersion + 1].slot
      /\ recovering
  BY <1>6, NextAppend
<1>8. expectedVersion + 1 = n
  <2> SUFFICES ASSUME expectedVersion + 1 < n PROVE FALSE
    BY <1>1, <1>2, <1>5
  <2>1. Precedes(stream[expectedVersion + 1], stream[n])
    BY <1>7 DEF ExactReplay, InOrder
  <2>2. stream[expectedVersion + 1].slot \in Nat
    BY <1>1, <1>7, DueKeys
  <2> QED
    BY <1>1, <1>2, <1>3, <1>7, <2>1, <2>2 DEF Precedes
<1> QED
  BY <1>2, <1>7, <1>8

(* A slot that has something to append is not in front of a written one.   *)
LEMMA DueIsWritten ==
  ASSUME LoopInv, ExactReplay, phase = "tick", slot <= LastSlot,
         CurrentKey \in Due, expectedVersion # Len(stream)
  PROVE  Written(CurrentKey)
<1> DEFINE next == stream[expectedVersion + 1]
<1>1. /\ LoopTypes /\ tick \in Nat /\ slot \in Nat
  BY Numbers DEF LoopInv, LoopTypes, BatchTypes, SlotTypes
<1>2. /\ expectedVersion + 1 \in 1..Len(stream) /\ next \in SlotKeys
      /\ next.tick = tick /\ slot <= next.slot
  BY NextAppend
<1>3. CurrentKey \in SlotKeys /\ CurrentKey.tick = tick /\ CurrentKey.slot = slot
  <2>1. CurrentKey \in Key
    BY <1>1, DueKeys, Keys
  <2> QED
    BY <2>1, <1>1, DueKeys, KeyKinds DEF CurrentKey
<1>4. CASE next.slot = slot
  <2>1. next = CurrentKey
    BY <1>1, <1>2, <1>4, DueKeys DEF CurrentKey
  <2> QED
    BY <1>2, <2>1 DEF Written
<1>5. CASE next.slot # slot
  <2>1. next.slot \in Nat
    BY <1>1, <1>2, DueKeys
  <2>2. Precedes(CurrentKey, next)
    BY <1>1, <1>2, <1>3, <1>5, <2>1 DEF Precedes
  <2> QED
    BY <1>2, <2>2 DEF ExactReplay, InOrder
<1> QED
  BY <1>4, <1>5

(* A slot that the tick appends for is due.                                *)
LEMMA AppendsAreDue ==
  ASSUME ~Reconsiders, LoopTypes, InTick, Appends
  PROVE  CurrentKey \in Due /\ CurrentKey \in SlotKeys /\ CurrentKey \in Key
         /\ CurrentKey.tick = tick /\ CurrentKey.slot = slot
<1>1. tick \in 1..Ticks /\ slot \in 0..LastSlot
  BY Numbers DEF LoopTypes, SlotTypes, BatchTypes, InTick
<1>2. CurrentKey \in SlotKeys /\ CurrentKey.tick = tick /\ CurrentKey.slot = slot
  BY <1>1, Keys DEF CurrentKey
<1>3. slot \in 1..Agents => CurrentKey \in intent
  BY DEF Appends, IsAgentSlot
<1> QED
  BY <1>2, <1>3, Keys DEF Due

(* No start throws: what it finds it can go on from.                       *)
LEMMA NothingThrows ==
  ASSUME ~Reconsiders, LoopInv, ExactReplay, [Next]_vars
  PROVE  ~Throws /\ ~Throw
<1>1. /\ LoopTypes /\ expectedVersion \in 0..Len(stream) /\ Len(stream) \in Nat
      /\ tick \in Nat /\ slot \in Nat
  <2>1. LoopTypes
    BY DEF LoopInv
  <2> QED
    BY <2>1, Numbers DEF LoopTypes, DerivedTypes, BatchTypes, SlotTypes
<1>2. ~RecoveredAppendDoesNotContinue
  BY WrittenIsNext DEF RecoveredAppendDoesNotContinue, InTick, Recoverable
<1>3. ~AppendRefused
  <2> SUFFICES ASSUME AppendRefused PROVE FALSE
    OBVIOUS
  <2>1. /\ phase = "tick" /\ slot <= LastSlot /\ InTick /\ Appends
        /\ ~recovering \/ ~Written(CurrentKey)
        /\ Written(CurrentKey) \/ expectedVersion # Len(stream)
    BY DEF AppendRefused, InTick, Recoverable
  <2>2. CurrentKey \in Due
    BY <1>1, <2>1, AppendsAreDue
  <2>3. CASE Written(CurrentKey)
    BY <2>1, <2>3, WrittenIsNext
  <2>4. CASE ~Written(CurrentKey)
    BY <2>1, <2>2, <2>4, DueIsWritten
  <2> QED
    BY <2>3, <2>4
<1>4. ~(SaveSnapshot /\ snapshot.sequence > expectedVersion)
  <2> SUFFICES ASSUME phase = "tick", slot > LastSlot,
                      snapshot.sequence > expectedVersion
               PROVE  FALSE
    BY DEF SaveSnapshot
  <2>1. expectedVersion # Len(stream)
    BY DEF LoopInv, LoopTypes, DerivedTypes
  <2>2. /\ stream[expectedVersion + 1] \in SlotKeys
        /\ slot <= stream[expectedVersion + 1].slot
    BY <2>1, NextAppend
  <2>3. stream[expectedVersion + 1].slot \in 0..LastSlot
    BY <1>1, <2>2, DueKeys
  <2> QED
    BY <1>1, <2>2, <2>3, Numbers
<1>5. ~Throws
  BY <1>2, <1>3, <1>4 DEF Throws
<1>6. ~Throw
  <2>1. outcome # "threw"
    BY DEF ExactReplay, RecoveryIsExact
  <2>2. outcome' # "threw" \/ UNCHANGED outcome \/ Throws
    BY Frames, Zenon
  <2> QED
    BY <1>5, <2>1, <2>2 DEF Throw
<1> QED
  BY <1>5, <1>6

(* The stream goes on with the next append that is due.                    *)
LEMMA InOrderStep ==
  ASSUME CommandKinds \subseteq {"note"}, ~Reconsiders, LoopInv, ExactReplay,
         [Next]_vars
  PROVE  InOrder'
<1>1. LoopTypes /\ stream \in Seq(Key) /\ InOrder /\ tick \in Nat /\ slot \in Nat
  BY Numbers DEF LoopInv, LoopTypes, ExactReplay, BatchTypes, SlotTypes
<1>2. Due' = Due
  BY Frames DEF Due
<1>3. CASE UNCHANGED stream
  BY <1>1, <1>2, <1>3 DEF InOrder, Written
<1>4. CASE AppendSlot
  <2>1. PICK new \in Due : /\ new = CurrentKey /\ new \in SlotKeys /\ new \in Key
                           /\ new.tick = tick /\ new.slot = slot
    BY <1>1, <1>4, AppendsAreDue DEF AppendSlot
  <2>2. stream' = Append(stream, new) /\ expectedVersion = Len(stream)
    BY <1>4, <2>1 DEF AppendSlot
  <2>3. /\ Len(stream) \in Nat /\ Len(stream') = Len(stream) + 1
        /\ \A n \in 1..Len(stream) : stream'[n] = stream[n]
        /\ stream'[Len(stream) + 1] = new
    BY <1>1, <2>1, <2>2, Appended
  <2>4. phase = "tick"
    BY <1>4 DEF AppendSlot, InTick
  <2>5. \A n \in 1..Len(stream) : Precedes(stream[n], new)
    <3> SUFFICES ASSUME NEW n \in 1..Len(stream) PROVE Precedes(stream[n], new)
      OBVIOUS
    <3>1. Before(stream[n])
      BY <2>2, <2>4 DEF ExactReplay, InStep, Ticking
    <3> QED
      BY <2>1, <2>4, <3>1 DEF Before, Precedes
  <2>6. \A key \in Due : Precedes(key, new) => Written(key)
    <3> SUFFICES ASSUME NEW key \in Due, Precedes(key, new) PROVE Written(key)
      OBVIOUS
    <3>1. Before(key)
      BY <2>1, <2>4 DEF Before, Precedes, Ticking
    <3> QED
      BY <2>4, <3>1 DEF ExactReplay, InStep, Ticking
  <2>7. \A key : Written(key) => Written(key)'
    BY <1>1, StreamGrows
  <2>8. \A n \in 1..Len(stream') : stream'[n] \in Due
    BY <1>1, <2>1, <2>3 DEF InOrder
  <2>9. \A m, n \in 1..Len(stream') : m < n => Precedes(stream'[m], stream'[n])
    <3> SUFFICES ASSUME NEW m \in 1..Len(stream'), NEW n \in 1..Len(stream'),
                        m < n
                 PROVE  Precedes(stream'[m], stream'[n])
      OBVIOUS
    <3>1. m \in 1..Len(stream) /\ stream'[m] = stream[m]
      BY <2>3
    <3>2. CASE n \in 1..Len(stream)
      BY <1>1, <2>3, <3>1, <3>2 DEF InOrder
    <3>3. CASE n = Len(stream) + 1
      BY <2>3, <2>5, <3>1, <3>3
    <3> QED
      BY <2>3, <3>2, <3>3
  <2>10. \A n \in 1..Len(stream') :
           \A key \in Due : Precedes(key, stream'[n]) => Written(key)'
    <3> SUFFICES ASSUME NEW n \in 1..Len(stream'), NEW key \in Due,
                        Precedes(key, stream'[n])
                 PROVE  Written(key)'
      OBVIOUS
    <3>1. CASE n \in 1..Len(stream)
      BY <1>1, <2>3, <2>7, <3>1 DEF InOrder
    <3>2. CASE n = Len(stream) + 1
      BY <2>3, <2>6, <2>7, <3>2
    <3> QED
      BY <2>3, <3>1, <3>2
  <2> QED
    BY <1>2, <2>8, <2>9, <2>10 DEF InOrder, Precedes
<1> QED
  BY <1>1, <1>3, <1>4, NotesAppendNothing

(* How the lifecycle state moves when nobody pauses or resets it.          *)
LEMMA LifecycleMoves ==
  ASSUME CommandKinds \subseteq {"note"}, LoopInv, ExactBatch, ExactReplay,
         [Next]_vars, ~Pause, ~Reset
  PROVE  /\ UNCHANGED lifecycle \/ StartBatch \/ FinishBatch \/ SaveSchedules
              \/ CompleteTick
         /\ StartBatch \/ FinishBatch \/ SaveSchedules =>
              /\ lifecycle'.nextTick = lifecycle.nextTick
              /\ lifecycle'.lastApplied = lifecycle.lastApplied
              /\ UNCHANGED stream
         /\ StartBatch => /\ lifecycle'.status = "running"
                          /\ lifecycle'.completedTicks = previousTicks'
                          /\ lifecycle.lastApplied < Len(stream) =>
                               previousTicks' < BatchSize
         /\ FinishBatch \/ SaveSchedules => lifecycle.lastApplied = Len(stream)
         /\ CompleteTick => /\ phase = "boundary" /\ UNCHANGED stream
                            /\ lifecycle'.nextTick = tick + 1
                            /\ lifecycle.nextTick = tick
                            /\ lifecycle'.lastApplied = Len(stream)
                            /\ expectedVersion = Len(stream)
<1>1. LoopTypes /\ lifecycle.lastApplied \in Nat /\ Len(stream) \in Nat
      /\ lifecycle.lastApplied <= Len(stream) /\ BatchSize \in Nat \ {0}
  BY Numbers DEF LoopInv, LoopTypes, LifecycleTypes
<1>2. lifecycle.lastApplied < Len(stream) =>
        lifecycle.status = "running" /\ lifecycle.completedTicks < BatchSize
  BY DEF ExactReplay, AtBoundary
<1>3. UNCHANGED lifecycle \/ StartBatch \/ FinishBatch \/ SaveSchedules
        \/ CompleteTick
  <2>1. UNCHANGED lifecycle \/ StartBatch \/ Saves \/ SaveSchedules
          \/ CompleteTick \/ Pause \/ Reset
    BY Frames, Zenon
  <2>2. ~DrainFails
    BY <1>1, NotesAppendNothing
  <2>3. ~PauseBeforeTick
    BY DEF PauseBeforeTick, ExactBatch
  <2> QED
    BY <2>1, <2>2, <2>3 DEF Saves
<1>4. ASSUME StartBatch
      PROVE  /\ lifecycle'.nextTick = lifecycle.nextTick
             /\ lifecycle'.lastApplied = lifecycle.lastApplied
             /\ UNCHANGED stream
             /\ lifecycle'.status = "running"
             /\ lifecycle'.completedTicks = previousTicks'
             /\ lifecycle.lastApplied < Len(stream) => previousTicks' < BatchSize
  <2>1. /\ lifecycle'.nextTick = lifecycle.nextTick
        /\ lifecycle'.lastApplied = IF lifecycle.status = "running"
                                    THEN lifecycle.lastApplied ELSE Len(stream)
        /\ lifecycle'.status = "running"
        /\ lifecycle'.completedTicks = previousTicks'
        /\ previousTicks' = IF lifecycle.status \in {"running", "paused"}
                            THEN lifecycle.completedTicks ELSE 0
        /\ UNCHANGED stream
    BY <1>4 DEF StartBatch
  <2> QED
    BY <1>1, <1>2, <2>1
<1>5. ASSUME FinishBatch
      PROVE  /\ lifecycle'.nextTick = lifecycle.nextTick
             /\ lifecycle'.lastApplied = lifecycle.lastApplied
             /\ UNCHANGED stream
             /\ lifecycle.lastApplied = Len(stream)
  <2>1. /\ phase = "finish" /\ UNCHANGED stream
        /\ lifecycle'.nextTick = tick /\ lifecycle'.lastApplied = Len(stream)
    BY <1>5 DEF FinishBatch, SaveBatch
  <2> QED
    BY <2>1 DEF ExactReplay, FromBoundary
<1>6. ASSUME SaveSchedules
      PROVE  /\ lifecycle'.nextTick = lifecycle.nextTick
             /\ lifecycle'.lastApplied = lifecycle.lastApplied
             /\ UNCHANGED stream
             /\ lifecycle.lastApplied = Len(stream)
  <2>1. /\ phase = "return" /\ outcome = "completed" /\ UNCHANGED stream
        /\ lifecycle'.nextTick = tick /\ lifecycle'.lastApplied = Len(stream)
    BY <1>6 DEF SaveSchedules
  <2>2. lifecycle.status = "completed" /\ lifecycle.nextTick = tick
    BY <2>1 DEF ExactBatch
  <2> QED
    BY <1>1, <1>2, <2>1, <2>2
<1>7. ASSUME CompleteTick
      PROVE  /\ phase = "boundary" /\ UNCHANGED stream
             /\ lifecycle'.nextTick = tick + 1 /\ lifecycle.nextTick = tick
             /\ lifecycle'.lastApplied = Len(stream)
             /\ expectedVersion = Len(stream)
  <2>1. /\ phase = "boundary" /\ UNCHANGED stream
        /\ lifecycle'.nextTick = tick + 1
        /\ lifecycle'.lastApplied = Len(stream)
    BY <1>7 DEF CompleteTick
  <2> QED
    BY <2>1 DEF ExactReplay, FromBoundary, InStep, Ticking, Stepping
<1> QED
  BY <1>3, <1>4, <1>5, <1>6, <1>7

(* The boundary the lifecycle state keeps is the stream's.                 *)
LEMMA AtBoundaryStep ==
  ASSUME CommandKinds \subseteq {"note"}, ~Reconsiders, LoopInv, ExactBatch,
         ExactReplay, [Next]_vars, ~Pause, ~Reset
  PROVE  AtBoundary'
<1>1. /\ LoopTypes /\ stream \in Seq(Key) /\ Len(stream) \in Nat
      /\ lifecycle.lastApplied \in Nat /\ lifecycle.lastApplied <= Len(stream)
      /\ lifecycle.nextTick \in Nat /\ tick \in Nat
  BY Numbers DEF LoopInv, LoopTypes, LifecycleTypes, BatchTypes
<1>2. AtBoundary
  BY DEF ExactReplay
<1>3. Due' = Due
  BY Frames DEF Due
<1>4. CASE UNCHANGED lifecycle /\ UNCHANGED stream
  BY <1>2, <1>3, <1>4 DEF AtBoundary, Written
<1>5. CASE StartBatch \/ FinishBatch \/ SaveSchedules
  <2>1. /\ lifecycle'.nextTick = lifecycle.nextTick
        /\ lifecycle'.lastApplied = lifecycle.lastApplied /\ stream' = stream
    BY <1>5, LifecycleMoves
  <2>2. lifecycle.lastApplied < Len(stream) =>
          lifecycle'.status = "running" /\ lifecycle'.completedTicks < BatchSize
    BY <1>1, <1>5, LifecycleMoves
  <2> QED
    BY <1>2, <1>3, <2>1, <2>2 DEF AtBoundary, Written
<1>6. CASE CompleteTick
  <2>1. /\ phase = "boundary" /\ stream' = stream
        /\ lifecycle'.nextTick = tick + 1 /\ lifecycle.nextTick = tick
        /\ lifecycle'.lastApplied = Len(stream)
    BY <1>6, LifecycleMoves
  <2>2. ASSUME NEW n \in 1..Len(stream)
        PROVE  stream[n].tick < tick + 1
    <3>1. stream[n].tick < tick \/ stream[n].tick = tick
      BY <1>1, <1>2, <2>1 DEF AtBoundary
    <3> QED
      BY <1>1, <3>1, DueKeys DEF ExactReplay
  <2>3. ASSUME NEW key \in Due, key.tick < tick + 1
        PROVE  Written(key)
    <3>1. key \in SlotKeys /\ key.tick \in Nat /\ key.slot \in 0..LastSlot
      BY <1>1, DueKeys
    <3>2. slot = LastSlot + 1
      BY <2>1 DEF LoopInv, OrderInv
    <3>3. Before(key)
      BY <1>1, <2>1, <2>3, <3>1, <3>2, Numbers DEF Before, Ticking
    <3> QED
      BY <2>1, <3>3 DEF ExactReplay, InStep, Ticking
  <2> QED
    BY <1>1, <1>3, <2>1, <2>2, <2>3 DEF AtBoundary, Written
<1>7. CASE AppendSlot
  <2>1. PICK new \in Key : /\ stream' = Append(stream, new) /\ new.tick = tick
                           /\ new \in SlotKeys
    BY <1>1, <1>7, SlotAppended
  <2>2. /\ Len(stream') = Len(stream) + 1
        /\ \A n \in 1..Len(stream) : stream'[n] = stream[n]
        /\ stream'[Len(stream) + 1] = new
    BY <1>1, <2>1, Appended
  <2>3. phase = "tick" /\ UNCHANGED lifecycle
    BY <1>7 DEF AppendSlot, InTick
  <2>4. /\ lifecycle.status = "running"
        /\ lifecycle.completedTicks = previousTicks + completedTicks
    BY <2>3 DEF ExactBatch, InBatch, Stepping
  <2>5. previousTicks + completedTicks < BatchSize
    BY <2>3 DEF LoopInv, TicksInv, Stepping
  <2>6. lifecycle.nextTick = tick
    BY <2>3 DEF ExactReplay, FromBoundary, Stepping
  <2>7. \A key : Written(key) => Written(key)'
    BY <1>1, StreamGrows
  <2>8. \A n \in 1..lifecycle.lastApplied : stream'[n].tick < lifecycle.nextTick
    BY <1>1, <1>2, <2>2 DEF AtBoundary
  <2>9. \A n \in (lifecycle.lastApplied + 1)..Len(stream') :
          stream'[n].tick = lifecycle.nextTick
    BY <1>1, <1>2, <2>1, <2>2, <2>6 DEF AtBoundary
  <2> QED
    BY <1>2, <1>3, <2>3, <2>4, <2>5, <2>7, <2>8, <2>9 DEF AtBoundary
<1>8. UNCHANGED stream \/ AppendSlot
  BY <1>1, NotesAppendNothing
<1>9. AppendSlot => UNCHANGED lifecycle
  BY DEF AppendSlot
<1> QED
  BY <1>4, <1>5, <1>6, <1>7, <1>8, <1>9, LifecycleMoves

(* The process goes on from the boundary.                                  *)
LEMMA FromBoundaryStep ==
  ASSUME CommandKinds \subseteq {"note"}, ~Reconsiders, LoopInv, ExactBatch,
         ExactReplay, [Next]_vars, ~Pause, ~Reset
  PROVE  FromBoundary'
<1>1. /\ LoopTypes /\ Len(stream) \in Nat
      /\ lifecycle.lastApplied \in Nat /\ lifecycle.lastApplied <= Len(stream)
      /\ recoveryThrough \in 0..Len(stream)
  BY DEF LoopInv, LoopTypes, LifecycleTypes, DerivedTypes
<1>2. FromBoundary
  BY DEF ExactReplay
<1>3. ~Throw
  BY NothingThrows
<1>4. CASE StartBatch
  <2>1. /\ lifecycle'.nextTick = lifecycle.nextTick
        /\ lifecycle'.lastApplied = lifecycle.lastApplied /\ stream' = stream
        /\ lifecycle.lastApplied < Len(stream) => previousTicks' < BatchSize
    BY <1>4, LifecycleMoves
  <2>2. /\ tick' = lifecycle.nextTick
        /\ recoveryTo' = IF /\ lifecycle.status = "running"
                            /\ lifecycle.lastApplied < Len(stream)
                         THEN lifecycle.lastApplied ELSE NoSequence
        /\ recoveryThrough' = Len(stream)
        /\ phase' = IF previousTicks' = BatchSize THEN "finish" ELSE "step"
    BY <1>4 DEF StartBatch
  <2>3. lifecycle.lastApplied < Len(stream) => lifecycle.status = "running"
    BY DEF ExactReplay, AtBoundary
  <2>4. lifecycle.lastApplied # NoSequence
    BY <1>1, RuntimeLoopAssumption DEF RuntimeLoopAssumption
  <2>5. phase' = "step" => lifecycle'.lastApplied = IF Replays' THEN recoveryTo'
                                                   ELSE Len(stream')
    <3>1. CASE lifecycle.lastApplied < Len(stream)
      BY <2>1, <2>2, <2>3, <2>4, <3>1 DEF Replays
    <3>2. CASE ~(lifecycle.lastApplied < Len(stream))
      BY <1>1, <2>1, <2>2, <3>2 DEF Replays
    <3> QED
      BY <3>1, <3>2
  <2>6. phase' = "finish" => lifecycle'.lastApplied = Len(stream')
    BY <1>1, <2>1, <2>2, Numbers
  <2>7. phase' \notin {"drain"} \cup Handling \cup Ticking
    BY <2>2 DEF Handling, Ticking
  <2> QED
    BY <2>1, <2>2, <2>5, <2>6, <2>7 DEF FromBoundary
<1>5. CASE CompleteTick
  <2>1. /\ phase = "boundary" /\ stream' = stream
        /\ lifecycle'.nextTick = tick + 1
        /\ lifecycle'.lastApplied = Len(stream)
        /\ expectedVersion = Len(stream)
    BY <1>5, LifecycleMoves
  <2>2. /\ tick' = tick + 1 /\ phase' \in {"step", "finish"}
        /\ recoveryTo' = IF recovering THEN expectedVersion ELSE recoveryTo
        /\ recoveryThrough' = recoveryThrough
    BY <1>5 DEF CompleteTick
  <2>3. ~Replays'
    <3>1. CASE recovering
      <4>1. recoveryTo' = Len(stream)
        BY <2>1, <2>2, <3>1, Zenon
      <4> QED
        BY <1>1, <2>2, <4>1 DEF Replays
    <3>2. CASE ~recovering
      <4>1. recoveryTo' = recoveryTo
        BY <2>2, <3>2, Zenon
      <4>2. ~Replays
        BY <1>2, <2>1, <3>2, Zenon DEF FromBoundary, Ticking
      <4> QED
        BY <2>2, <4>1, <4>2 DEF Replays
    <3> QED
      BY <3>1, <3>2
  <2>4. phase' \notin {"drain"} \cup Handling \cup Ticking
    BY <2>2 DEF Handling, Ticking
  <2> QED
    BY <2>1, <2>2, <2>3, <2>4 DEF FromBoundary
<1>6. CASE Hydrate
  <2>1. /\ phase = "step" /\ phase' = "drain"
        /\ UNCHANGED <<stream, lifecycle, tick, recoveryTo, recoveryThrough>>
    BY <1>6 DEF Hydrate, files, batch
  <2>2. /\ lifecycle.nextTick = tick
        /\ lifecycle.lastApplied = IF Replays THEN recoveryTo ELSE Len(stream)
    BY <1>2, <2>1 DEF FromBoundary, Stepping
  <2>3. recovering' = Replays
    BY <1>6, Zenon DEF Hydrate, Replays
  <2>4. hydratedTo' = IF recovering' THEN recoveryTo ELSE Len(stream)
    BY <1>6, Zenon DEF Hydrate
  <2>5. lifecycle'.lastApplied = IF recovering' THEN hydratedTo' ELSE Len(stream')
    <3>1. CASE Replays
      <4>1. recovering' /\ hydratedTo' = recoveryTo
            /\ lifecycle.lastApplied = recoveryTo
        BY <2>2, <2>3, <2>4, <3>1, Zenon
      <4> QED
        BY <2>1, <4>1, Zenon
    <3>2. CASE ~Replays
      <4>1. ~recovering' /\ lifecycle.lastApplied = Len(stream)
        BY <2>2, <2>3, <3>2, Zenon
      <4> QED
        BY <2>1, <4>1, Zenon
    <3> QED
      BY <3>1, <3>2
  <2>6. Replays' => recovering'
    BY <2>1, <2>3, Zenon DEF Replays
  <2>7. lifecycle'.nextTick = tick'
    BY <2>1, <2>2
  <2>8. phase' # "step" /\ phase' # "finish"
    BY <2>1
  <2> QED
    BY <2>5, <2>6, <2>7, <2>8, Zenon DEF FromBoundary
<1>7. CASE phase' \notin Stepping \cup {"finish"}
  BY <1>7 DEF FromBoundary, Stepping, Handling, Ticking
<1>8. CASE /\ phase' \in Stepping \cup {"finish"}
           /\ ~StartBatch /\ ~CompleteTick /\ ~Hydrate
  <2>1. ~Crash /\ ~FinishBatch /\ ~SaveSchedules
    BY <1>8 DEF Crash, FinishBatch, SaveBatch, SaveSchedules, Stepping
  <2>2. UNCHANGED lifecycle
    BY <1>8, <2>1, LifecycleMoves
  <2>3. /\ UNCHANGED <<tick, recoveryTo, recoveryThrough>>
        /\ UNCHANGED <<recovering, hydratedTo, drainTo>>
    BY <1>8, <2>1, Frames
  <2>4. /\ phase \in Stepping \cup {"finish"}
        /\ phase' \in {"step", "finish"} => phase' = phase
        /\ phase' \in {"drain"} \cup Handling => phase \in {"drain"} \cup Handling
        /\ phase' \in {"drain"} \cup Handling \cup Ticking =>
             phase \in {"drain"} \cup Handling \cup Ticking
    BY <1>8, Phases DEF Stepping, Handling, Ticking
  <2>5. phase' \notin Ticking => UNCHANGED stream
    <3>1. UNCHANGED stream \/ AppendSlot
      BY <1>1, NotesAppendNothing
    <3>2. AppendSlot => phase' \in Ticking
      BY DEF AppendSlot, InTick, Ticking
    <3> QED
      BY <3>1, <3>2
  <2>6. lifecycle'.nextTick = tick'
    BY <1>2, <2>2, <2>3, <2>4 DEF FromBoundary
  <2>7. Replays' = Replays /\ recovering' = recovering /\ hydratedTo' = hydratedTo
    BY <2>3, Zenon DEF Replays
  <2>8. phase' = "step" => lifecycle'.lastApplied = IF Replays' THEN recoveryTo'
                                                   ELSE Len(stream')
    BY <1>2, <2>2, <2>3, <2>4, <2>5 DEF FromBoundary, Ticking, Replays
  <2>9. phase' = "finish" => lifecycle'.lastApplied = Len(stream')
    BY <1>2, <2>2, <2>4, <2>5 DEF FromBoundary, Ticking
  <2>10. phase' \in {"drain"} \cup Handling =>
           lifecycle'.lastApplied = IF recovering' THEN hydratedTo'
                                    ELSE Len(stream')
    <3> SUFFICES ASSUME phase' \in {"drain"} \cup Handling
                 PROVE  lifecycle'.lastApplied = IF recovering' THEN hydratedTo'
                                                 ELSE Len(stream')
      OBVIOUS
    <3>1. stream' = stream
      BY <2>5 DEF Handling, Ticking
    <3>2. lifecycle.lastApplied = IF recovering THEN hydratedTo ELSE Len(stream)
      BY <1>2, <2>4, Zenon DEF FromBoundary
    <3> QED
      BY <2>2, <2>7, <3>1, <3>2, Zenon
  <2>11. phase' \in {"drain"} \cup Handling \cup Ticking /\ Replays' => recovering'
    BY <1>2, <2>4, <2>7, Zenon DEF FromBoundary
  <2> QED
    BY <2>6, <2>8, <2>9, <2>10, <2>11, Zenon DEF FromBoundary
<1> QED
  BY <1>4, <1>5, <1>6, <1>7, <1>8

(* The slots in front, from step to step.                                  *)
LEMMA BeforeMoves ==
  ASSUME LoopTypes, [Next]_vars, NEW key \in SlotKeys
  PROVE  /\ RecoverAppend \/ AgentIdle \/ AppendSlot =>
              (Before(key)' <=> Before(key) \/ key = CurrentKey)
         /\ SaveCycleEffects \/ (SaveSnapshot /\ phase' = "boundary") =>
              (Before(key)' <=> Before(key))
         /\ BeginTick => (Before(key)' <=> key.tick < tick)
<1>1. /\ tick \in Nat /\ slot \in Nat /\ key.tick \in Nat /\ key.slot \in Nat
      /\ key = SlotKey(key.tick, key.slot)
  BY Numbers, DueKeys DEF LoopTypes, BatchTypes, SlotTypes
<1>2. key = CurrentKey <=> key.tick = tick /\ key.slot = slot
  BY <1>1 DEF CurrentKey, SlotKey
<1>3. ASSUME RecoverAppend \/ AgentIdle \/ AppendSlot
      PROVE  Before(key)' <=> Before(key) \/ key = CurrentKey
  <2>1. /\ phase = "tick" /\ tick' = tick
        /\ \/ phase' = "tick" /\ slot' = slot + 1
           \/ phase' = "cycle" /\ slot' = slot
    BY <1>3 DEF RecoverAppend, AgentIdle, AppendSlot, InTick, batch
  <2>2. Before(key) <=> key.tick < tick \/ (key.tick = tick /\ key.slot < slot)
    BY <2>1 DEF Before, Ticking
  <2>3. Before(key)' <=> \/ key.tick < tick
                         \/ key.tick = tick /\ key.slot < slot + 1
    BY <1>1, <2>1 DEF Before, Ticking
  <2> QED
    BY <1>1, <1>2, <2>2, <2>3
<1>4. ASSUME SaveCycleEffects \/ (SaveSnapshot /\ phase' = "boundary")
      PROVE  Before(key)' <=> Before(key)
  <2>1. CASE SaveCycleEffects
    <3>1. phase = "cycle" /\ phase' = "tick" /\ tick' = tick /\ slot' = slot + 1
      BY <2>1 DEF SaveCycleEffects, batch
    <3> QED
      BY <1>1, <3>1 DEF Before, Ticking
  <2>2. CASE SaveSnapshot /\ phase' = "boundary"
    <3>1. phase = "tick" /\ tick' = tick /\ slot' = slot
      BY <2>2 DEF SaveSnapshot, Throw, batch, step
    <3> QED
      BY <2>2, <3>1 DEF Before, Ticking
  <2> QED
    BY <1>4, <2>1, <2>2
<1>5. ASSUME BeginTick PROVE Before(key)' <=> key.tick < tick
  <2>1. phase' = "tick" /\ tick' = tick /\ slot' = 0
    BY <1>5 DEF BeginTick, batch
  <2> QED
    BY <1>1, <2>1 DEF Before, Ticking
<1> QED
  BY <1>3, <1>4, <1>5

(* Positions behind a version of a stream.                                 *)
LEMMA Behind ==
  ASSUME NEW last \in Nat, NEW version \in 0..last
  PROVE  /\ \A n \in 1..version : n \in 1..last /\ n <= version
         /\ \A n \in (version + 1)..last : n \in 1..last /\ ~(n <= version)
  OBVIOUS

(* What the tick has met, said of its keys.                                *)
LEMMA Met ==
  ASSUME \A n \in 1..Len(stream') : stream'[n] \in SlotKeys,
         Len(stream') \in Nat, expectedVersion' \in 0..Len(stream'),
         \A key \in SlotKeys : \A n \in 1..Len(stream') :
           key = stream'[n] => (Before(key)' <=> n <= expectedVersion'),
         Due' = Due, \A key \in Due : Before(key)' => Written(key)',
         ~recovering' => expectedVersion' = Len(stream'),
         phase' = "boundary" => expectedVersion' = Len(stream')
  PROVE  InStep'
<1> DEFINE last == Len(stream')
           version == expectedVersion'
<1>0. /\ \A n \in 1..version : n \in 1..last /\ n <= version
      /\ \A n \in (version + 1)..last : n \in 1..last /\ ~(n <= version)
  <2>1. last \in Nat /\ version \in 0..last
    OBVIOUS
  <2> HIDE DEF last, version
  <2> QED
    BY <2>1, Behind, Zenon
<1>1. ASSUME NEW n \in 1..expectedVersion', NEW key \in SlotKeys, key = stream'[n]
      PROVE  Before(key)'
  BY <1>0, <1>1, Zenon
<1>2. ASSUME NEW n \in (expectedVersion' + 1)..Len(stream'),
             NEW key \in SlotKeys, key = stream'[n]
      PROVE  ~Before(key)'
  BY <1>0, <1>2, Zenon
<1>3. \A n \in 1..expectedVersion' : stream'[n] \in SlotKeys
  BY <1>0, Zenon
<1>4. \A n \in (expectedVersion' + 1)..Len(stream') : stream'[n] \in SlotKeys
  BY <1>0, Zenon
<1>5. (\A n \in 1..expectedVersion : Before(stream[n]))'
  BY <1>1, <1>3 DEF Before
<1>6. (\A n \in (expectedVersion + 1)..Len(stream) : ~Before(stream[n]))'
  BY <1>2, <1>4 DEF Before
<1> QED
  BY <1>5, <1>6, Zenon DEF InStep

(* The tick meets the appends of its slots one after the other.            *)
LEMMA InStepStep ==
  ASSUME CommandKinds \subseteq {"note"}, ~Reconsiders, LoopInv, ExactBatch,
         ExactReplay, [Next]_vars, ~Pause, ~Reset, LoopInv', phase' \in Ticking
  PROVE  InStep'
<1>1. /\ LoopTypes /\ stream \in Seq(Key) /\ Len(stream) \in Nat
      /\ expectedVersion \in 0..Len(stream) /\ tick \in Nat /\ slot \in Nat
      /\ lifecycle.lastApplied \in Nat /\ lifecycle.lastApplied <= Len(stream)
  <2>1. LoopTypes
    BY DEF LoopInv
  <2> QED
    BY <2>1, Numbers
       DEF LoopTypes, DerivedTypes, LifecycleTypes, BatchTypes, SlotTypes
<1>2. /\ Len(stream') \in Nat
      /\ expectedVersion' \in 0..Len(stream')
      /\ \A n \in 1..Len(stream) : stream'[n] = stream[n]
      /\ \A key : Written(key) => Written(key)'
  <2>1. expectedVersion' \in 0..Len(stream')
    BY DEF LoopInv, LoopTypes, DerivedTypes
  <2> QED
    BY <1>1, <2>1, StreamGrows
<1>3. /\ InOrder /\ AtBoundary /\ FromBoundary
      /\ phase \in Ticking => InStep
      /\ \A n \in 1..Len(stream) : stream[n] \in SlotKeys
  BY <1>1, DueKeys DEF ExactReplay
<1>4. Due' = Due
  BY Frames DEF Due
<1>5. \A n \in 1..Len(stream') : stream'[n] \in SlotKeys
  <2>1. InOrder'
    BY InOrderStep
  <2> QED
    BY <1>4, <2>1 DEF InOrder, Due
<1>6. ~Throw
  BY NothingThrows
<1>7. CASE BeginTick
  <2>1. /\ phase = "drain" /\ phase' = "tick" /\ stream' = stream
        /\ expectedVersion' = IF recovering THEN hydratedTo ELSE Len(stream)
    BY <1>7 DEF BeginTick, files
  <2>2. recovering' = recovering
    BY <1>7, Zenon DEF BeginTick
  <2>3. lifecycle.nextTick = tick
    BY <1>3, <2>1 DEF FromBoundary, Stepping
  <2>4. expectedVersion' = lifecycle.lastApplied
    BY <1>3, <2>1, Zenon DEF FromBoundary
  <2>5. ~recovering' => expectedVersion' = Len(stream')
    BY <2>1, <2>2, Zenon
  <2>6. \A key \in SlotKeys : Before(key)' <=> key.tick < tick
    BY <1>1, <1>7, BeforeMoves
  <2>7. ASSUME NEW key \in SlotKeys, NEW n \in 1..Len(stream'), key = stream'[n]
        PROVE  Before(key)' <=> n <= expectedVersion'
    <3>1. key = stream[n] /\ n \in 1..Len(stream)
      BY <2>1, <2>7
    <3>2. CASE n <= lifecycle.lastApplied
      <4>1. key.tick < tick
        BY <1>3, <2>3, <3>1, <3>2 DEF AtBoundary
      <4> QED
        BY <2>4, <2>6, <3>2, <4>1
    <3>3. CASE ~(n <= lifecycle.lastApplied)
      <4>1. n \in (lifecycle.lastApplied + 1)..Len(stream)
        BY <1>1, <3>1, <3>3
      <4>2. key.tick = tick
        BY <1>3, <2>3, <3>1, <4>1 DEF AtBoundary
      <4> QED
        BY <1>1, <2>4, <2>6, <3>3, <4>2
    <3> QED
      BY <3>2, <3>3
  <2>8. ASSUME NEW key \in Due, Before(key)' PROVE Written(key)'
    <3>1. key \in SlotKeys /\ key.tick < tick
      BY <1>1, <2>6, <2>8, DueKeys
    <3> QED
      BY <1>2, <1>3, <2>3, <3>1 DEF AtBoundary
  <2> QED
    BY <1>2, <1>4, <1>5, <2>1, <2>5, <2>7, <2>8, Met
<1>8. CASE RecoverAppend
  <2>1. /\ phase = "tick" /\ phase' = "tick" /\ stream' = stream
        /\ slot <= LastSlot /\ Written(CurrentKey)
        /\ expectedVersion' = expectedVersion + 1
        /\ Position(CurrentKey) = expectedVersion + 1
    BY <1>8 DEF RecoverAppend, InTick, Recoverable, files
  <2>2. recovering'
    BY <1>8, Zenon DEF RecoverAppend, Recoverable
  <2>3. /\ expectedVersion + 1 \in 1..Len(stream)
        /\ stream[expectedVersion + 1] = CurrentKey
    <3>1. Position(CurrentKey) \in 1..Len(stream)
          /\ stream[Position(CurrentKey)] = CurrentKey
      BY <2>1 DEF Written, Position
    <3> QED
      BY <2>1, <3>1
  <2>4. \A key \in SlotKeys : Before(key)' <=> Before(key) \/ key = CurrentKey
    BY <1>1, <1>8, BeforeMoves
  <2>5. InStep
    BY <1>3, <2>1 DEF Ticking
  <2>6. ASSUME NEW key \in SlotKeys, NEW n \in 1..Len(stream'), key = stream'[n]
        PROVE  Before(key)' <=> n <= expectedVersion'
    <3>1. key = stream[n] /\ n \in 1..Len(stream)
      BY <2>1, <2>6
    <3>2. CASE n <= expectedVersion
      <4>1. Before(key)
        BY <2>5, <3>1, <3>2 DEF InStep
      <4> QED
        BY <1>1, <2>1, <2>4, <3>2, <4>1
    <3>3. CASE n = expectedVersion + 1
      BY <2>1, <2>3, <2>4, <3>1, <3>3
    <3>4. CASE n > expectedVersion + 1
      <4>1. ~Before(key)
        <5>1. n \in (expectedVersion + 1)..Len(stream)
          BY <1>1, <3>1, <3>4
        <5> QED
          BY <2>5, <3>1, <5>1 DEF InStep
      <4>2. key # CurrentKey
        <5>1. Precedes(CurrentKey, key)
          BY <1>1, <1>3, <2>3, <3>1, <3>4 DEF InOrder
        <5>2. key.tick \in Nat /\ key.slot \in Nat
          BY <1>1, DueKeys
        <5> QED
          BY <5>1, <5>2 DEF Precedes
      <4> QED
        BY <1>1, <2>1, <2>4, <3>4, <4>1, <4>2
    <3> QED
      BY <1>1, <3>2, <3>3, <3>4
  <2>7. ASSUME NEW key \in Due, Before(key)' PROVE Written(key)'
    <3>1. key \in SlotKeys
      BY <1>1, DueKeys
    <3>2. Before(key) \/ key = CurrentKey
      BY <2>4, <2>7, <3>1
    <3> QED
      BY <1>2, <2>1, <2>5, <3>2 DEF InStep
  <2> QED
    BY <1>2, <1>4, <1>5, <2>1, <2>2, <2>6, <2>7, Met
<1>9. CASE AgentIdle
  <2>1. /\ phase = "tick" /\ phase' = "tick" /\ stream' = stream
        /\ slot <= LastSlot /\ slot \in 1..Agents /\ CurrentKey \notin intent
        /\ expectedVersion' = expectedVersion
    BY <1>9 DEF AgentIdle, InTick, IsAgentSlot
  <2>2. recovering' = recovering /\ ~Recoverable
    BY <1>9, Zenon DEF AgentIdle
  <2>3. ~Written(CurrentKey)
    BY <2>1, <2>2, WrittenIsNext DEF Recoverable
  <2>4. \A key \in SlotKeys : Before(key)' <=> Before(key) \/ key = CurrentKey
    BY <1>1, <1>9, BeforeMoves
  <2>5. InStep
    BY <1>3, <2>1 DEF Ticking
  <2>6. CurrentKey \notin Due
    BY <2>1 DEF Due, CurrentKey, SlotKey
  <2>7. ASSUME NEW key \in SlotKeys, NEW n \in 1..Len(stream'), key = stream'[n]
        PROVE  Before(key)' <=> n <= expectedVersion'
    <3>1. key = stream[n] /\ n \in 1..Len(stream)
      BY <2>1, <2>7
    <3>2. key # CurrentKey
      BY <2>3, <3>1 DEF Written
    <3>3. Before(key)' <=> Before(key)
      BY <2>4, <3>2
    <3>4. n <= expectedVersion => Before(key)
      BY <2>5, <3>1 DEF InStep
    <3>5. ~(n <= expectedVersion) => ~Before(key)
      <4>1. ~(n <= expectedVersion) => n \in (expectedVersion + 1)..Len(stream)
        BY <1>1, <3>1
      <4> QED
        BY <2>5, <3>1, <4>1 DEF InStep
    <3> QED
      BY <2>1, <3>3, <3>4, <3>5
  <2>8. ASSUME NEW key \in Due, Before(key)' PROVE Written(key)'
    <3>1. key \in SlotKeys /\ key # CurrentKey
      BY <1>1, <2>6, DueKeys
    <3>2. Before(key)
      BY <2>4, <2>8, <3>1
    <3> QED
      BY <1>2, <2>5, <3>2 DEF InStep
  <2>9. ~recovering' => expectedVersion' = Len(stream')
    BY <2>1, <2>2, <2>5, Zenon DEF InStep
  <2> QED
    BY <1>2, <1>4, <1>5, <2>1, <2>7, <2>8, <2>9, Met
<1>10. CASE AppendSlot
  <2>1. PICK new \in SlotKeys : /\ new = CurrentKey /\ new \in Key
                                /\ stream' = Append(stream, new)
    BY <1>1, <1>10, SlotAppended
  <2>2. /\ phase = "tick" /\ phase' \in {"tick", "cycle"}
        /\ expectedVersion = Len(stream) /\ expectedVersion' = Len(stream) + 1
    BY <1>10 DEF AppendSlot, InTick
  <2>3. /\ Len(stream') = Len(stream) + 1 /\ stream'[Len(stream) + 1] = new
    BY <1>1, <2>1, Appended
  <2>4. \A key \in SlotKeys : Before(key)' <=> Before(key) \/ key = new
    BY <1>1, <1>10, <2>1, BeforeMoves
  <2>5. InStep
    BY <1>3, <2>2 DEF Ticking
  <2>6. ASSUME NEW key \in SlotKeys, NEW n \in 1..Len(stream'), key = stream'[n]
        PROVE  Before(key)' <=> n <= expectedVersion'
    <3>1. CASE n \in 1..Len(stream)
      <4>1. Before(key)
        BY <1>2, <2>2, <2>5, <2>6, <3>1 DEF InStep
      <4> QED
        BY <1>1, <2>2, <2>4, <3>1, <4>1
    <3>2. CASE n = Len(stream) + 1
      BY <2>2, <2>3, <2>4, <2>6, <3>2
    <3> QED
      BY <1>1, <2>3, <3>1, <3>2
  <2>7. ASSUME NEW key \in Due, Before(key)' PROVE Written(key)'
    <3>1. key \in SlotKeys
      BY <1>1, DueKeys
    <3>2. CASE Before(key)
      BY <1>2, <2>5, <3>2 DEF InStep
    <3>3. CASE key = new
      <4>1. Len(stream) + 1 \in 1..Len(stream')
        BY <1>1, <2>3
      <4> QED
        BY <2>3, <3>3, <4>1 DEF Written
    <3> QED
      BY <2>4, <2>7, <3>1, <3>2, <3>3
  <2> QED
    BY <1>2, <1>4, <1>5, <2>2, <2>3, <2>6, <2>7, Met
<1>11. ASSUME UNCHANGED <<stream, expectedVersion, recovering>>, phase \in Ticking,
              \A key \in SlotKeys : Before(key)' <=> Before(key),
              phase' = "boundary" => expectedVersion = Len(stream)
       PROVE  InStep'
  <2>1. stream' = stream /\ expectedVersion' = expectedVersion /\ InStep
    BY <1>3, <1>11
  <2>2. ASSUME NEW key \in SlotKeys, NEW n \in 1..Len(stream'), key = stream'[n]
        PROVE  Before(key)' <=> n <= expectedVersion'
    <3>1. key = stream[n] /\ n \in 1..Len(stream)
      BY <2>1, <2>2
    <3>2. n <= expectedVersion => Before(key)
      BY <2>1, <3>1 DEF InStep
    <3>3. ~(n <= expectedVersion) => ~Before(key)
      <4>1. ~(n <= expectedVersion) => n \in (expectedVersion + 1)..Len(stream)
        BY <1>1, <3>1
      <4> QED
        BY <2>1, <3>1, <4>1 DEF InStep
    <3> QED
      BY <1>11, <2>1, <3>2, <3>3
  <2>3. ASSUME NEW key \in Due, Before(key)' PROVE Written(key)'
    <3>1. key \in SlotKeys
      BY <1>1, DueKeys
    <3> QED
      BY <1>2, <1>11, <2>1, <2>3, <3>1 DEF InStep
  <2>4. ~recovering' => expectedVersion' = Len(stream')
    <3>1. recovering' = recovering
      BY <1>11
    <3> QED
      BY <2>1, <3>1, Zenon DEF InStep
  <2> QED
    BY <1>2, <1>4, <1>5, <1>11, <2>1, <2>2, <2>3, <2>4, Met
<1>12. CASE SaveCycleEffects
  <2>1. /\ phase = "cycle" /\ phase' = "tick"
        /\ UNCHANGED <<stream, expectedVersion>>
    BY <1>12 DEF SaveCycleEffects
  <2>2. recovering' = recovering
    BY <1>12, Zenon DEF SaveCycleEffects
  <2>3. \A key \in SlotKeys : Before(key)' <=> Before(key)
    BY <1>1, <1>12, BeforeMoves
  <2> QED
    BY <1>11, <2>1, <2>2, <2>3 DEF Ticking
<1>13. CASE SaveSnapshot
  <2>1. /\ phase = "tick" /\ slot > LastSlot /\ phase' = "boundary"
        /\ UNCHANGED <<stream, expectedVersion>>
    BY <1>6, <1>13 DEF SaveSnapshot, step
  <2>2. recovering' = recovering
    BY <1>6, <1>13, Zenon DEF SaveSnapshot, step
  <2>3. \A key \in SlotKeys : Before(key)' <=> Before(key)
    BY <1>1, <1>13, <2>1, BeforeMoves
  <2>4. expectedVersion = Len(stream)
    <3> SUFFICES ASSUME expectedVersion # Len(stream) PROVE FALSE
      OBVIOUS
    <3>1. /\ stream[expectedVersion + 1] \in SlotKeys
          /\ slot <= stream[expectedVersion + 1].slot
      BY <2>1, NextAppend
    <3>2. stream[expectedVersion + 1].slot \in 0..LastSlot
      BY <1>1, <3>1, DueKeys
    <3> QED
      BY <1>1, <2>1, <3>1, <3>2, Numbers
  <2> QED
    BY <1>11, <2>1, <2>2, <2>3, <2>4 DEF Ticking
<1>14. CASE /\ ~BeginTick /\ ~RecoverAppend /\ ~AgentIdle /\ ~AppendSlot
            /\ ~SaveCycleEffects /\ ~SaveSnapshot
  <2>1. phase' = phase
    BY <1>14, Phases DEF Ticking
  <2>2. ~Crash /\ ~StartBatch /\ ~CompleteTick /\ ~Hydrate
    BY DEF Crash, StartBatch, CompleteTick, Hydrate, Ticking
  <2>3. /\ UNCHANGED <<completedTicks, tick, recoveryTo>>
        /\ UNCHANGED <<recovering, hydratedTo, drainTo>>
        /\ UNCHANGED slot /\ UNCHANGED expectedVersion
    BY <1>14, <2>2, Frames
  <2>4. stream' = stream
    BY <1>1, <1>14, NotesAppendNothing
  <2>5. recovering' = recovering /\ tick' = tick
    BY <2>3
  <2>6. \A key \in SlotKeys : Before(key)' <=> Before(key)
    BY <2>1, <2>3, <2>5 DEF Before
  <2>7. phase = "boundary" => expectedVersion = Len(stream)
    BY <1>3 DEF InStep, Ticking
  <2> QED
    BY <1>11, <2>1, <2>3, <2>4, <2>5, <2>6, <2>7
<1> QED
  BY <1>7, <1>8, <1>9, <1>10, <1>12, <1>13, <1>14

(* A replay stays exact.                                                   *)
LEMMA ExactReplayStep ==
  ASSUME CommandKinds \subseteq {"note"}, ~Reconsiders, LoopInv, LoopInv',
         ExactBatch, ExactReplay, [Next]_vars, ~Pause, ~Reset
  PROVE  ExactReplay'
<1>1. ~Throw /\ ~Throws
  BY NothingThrows
<1>2. RecoveryIsExact'
  <2>1. ~DrainFails
    BY NotesAppendNothing DEF LoopInv
  <2>2. /\ UNCHANGED outcome \/ StartCompleted \/ StartRefused \/ Throw \/ Saves
        /\ outcome' # "threw" \/ UNCHANGED outcome \/ Throws
    BY Frames, Zenon
  <2>3. Saves => PauseBeforeTick \/ FinishBatch
    BY <2>1 DEF Saves
  <2> QED
    BY <1>1, <2>2, <2>3 DEF ExactReplay, RecoveryIsExact, StartCompleted,
       StartRefused, PauseBeforeTick, FinishBatch, SaveBatch
<1>3. InOrder' /\ AtBoundary' /\ FromBoundary'
  BY InOrderStep, AtBoundaryStep, FromBoundaryStep
<1>4. phase' \in Ticking => InStep'
  BY InStepStep
<1> QED
  BY <1>2, <1>3, <1>4 DEF ExactReplay

(* The first start finds an empty stream.                                  *)
LEMMA ExactReplayInit ==
  ASSUME Init
  PROVE  ExactReplay
<1>1. /\ Len(stream) = 0 /\ stream = << >> /\ phase = "idle" /\ outcome = "none"
      /\ lifecycle.lastApplied = 0 /\ lifecycle.nextTick = 1
  BY DEF Init
<1>2. InOrder
  BY <1>1 DEF InOrder
<1>3. \A key \in Due : ~(key.tick < 1)
  <2> SUFFICES ASSUME NEW key \in Due PROVE ~(key.tick < 1)
    OBVIOUS
  <2>1. key.tick \in 1..Ticks
    BY Keys DEF Due
  <2> QED
    BY <2>1, Numbers
<1>4. AtBoundary
  BY <1>1, <1>3 DEF AtBoundary
<1>5. FromBoundary
  BY <1>1 DEF FromBoundary, Stepping, Handling, Ticking
<1> QED
  BY <1>1, <1>2, <1>4, <1>5 DEF ExactReplay, RecoveryIsExact, Ticking

(* A tick that is run again after a kill meets exactly the appends that it *)
(* made before, in their order, and goes on behind the last of them, if    *)
(* drained commands append nothing, a cycle that is run again decides as   *)
(* it did, and nobody pauses or resets the batch (tickRunner.ts,           *)
(* localRuntimeLoop.ts).                                                   *)
THEOREM ReplaysAreExact ==
  ASSUME CommandKinds \subseteq {"note"}, ~Reconsiders
  PROVE  Spec => []ReplayInv
<1>1. Init => ReplayInv
  BY ExactReplayInit DEF ReplayInv
<1>2. LoopInv /\ LoopInv' /\ BatchInv /\ ReplayInv /\ [Next]_vars => ReplayInv'
  <2> SUFFICES ASSUME LoopInv, LoopInv', BatchInv, ReplayInv, [Next]_vars,
                      pauses' = 0, resets' = 0
               PROVE  ExactReplay'
    BY DEF ReplayInv
  <2>1. pauses = 0 /\ resets = 0 /\ ~Pause /\ ~Reset
    BY CountersGrow
  <2>2. ExactBatch /\ ExactReplay
    BY <2>1 DEF BatchInv, ReplayInv
  <2> QED
    BY <2>1, <2>2, ExactReplayStep
<1> QED
  BY <1>1, <1>2, LoopInvariant, BatchesAreExact, PTL DEF Spec

(* No kill makes a start throw or a drain fail, then                       *)
(* (localRuntimeStep.ts, localCommandDrain.ts, tickRunner.ts).             *)
THEOREM RecoverySucceeds ==
  ASSUME CommandKinds \subseteq {"note"}, ~Reconsiders
  PROVE  Spec => [](pauses = 0 /\ resets = 0 => RecoveryIsExact)
<1>1. ReplayInv => (pauses = 0 /\ resets = 0 => RecoveryIsExact)
  BY DEF ReplayInv, ExactReplay
<1> QED
  BY <1>1, ReplaysAreExact, PTL
=============================================================================
