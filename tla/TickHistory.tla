---------------------------- MODULE TickHistory ----------------------------
(***************************************************************************)
(* What the runtime of one partition promises about the partition's event  *)
(* stream, whatever crashes, retries and recoveries happened: it grows by  *)
(* one append at a time; a tick's appends follow one another in the order  *)
(* of its slots, with nothing in between; a tick begins once, when the one *)
(* before it is finished; the appends of drained commands come in the      *)
(* order of the command stream.  A command that a replayed tick drains may *)
(* come behind the unfinished tick, which then does not go on.             *)
(***************************************************************************)
EXTENDS Naturals, Sequences

CONSTANTS
  Ticks, Commands,  \* how many of each
  Agents,           \* agents per tick
  MarketMetrics     \* whether a tick ends with a market-metrics append

\* Slot 0 advances time, 1..Agents are the agents' cycles, and the market
\* metrics come last.
LastSlot == IF MarketMetrics THEN Agents + 1 ELSE Agents

SlotKey == [tick : 1..Ticks, slot : 0..LastSlot]
CommandKey == [command : 1..Commands]
Key == SlotKey \cup CommandKey

VARIABLE history

Init == history = << >>

\* An agent may have nothing to append; time and market metrics always have.
Skippable(slots) == slots \subseteq 1..Agents

Finished(tick) ==
  tick > 0 => \E n \in 1..Len(history) :
    /\ history[n] \in SlotKey /\ history[n].tick = tick
    /\ Skippable((history[n].slot + 1)..LastSlot)

ContinuesTick(key) ==
  /\ key \in SlotKey
  /\ Len(history) > 0 /\ history[Len(history)] \in SlotKey
  /\ LET last == history[Len(history)]
     IN  /\ last.tick = key.tick /\ last.slot < key.slot
         /\ Skippable((last.slot + 1)..(key.slot - 1))

BeginsTick(key) ==
  /\ key \in SlotKey /\ key.slot = 0
  /\ \A n \in 1..Len(history) :
       history[n] \in SlotKey => history[n].tick < key.tick
  /\ Finished(key.tick - 1)

ContinuesCommands(key) ==
  /\ key \in CommandKey
  /\ \A n \in 1..Len(history) :
       history[n] \in CommandKey => history[n].command < key.command

Follows(key) == ContinuesTick(key) \/ BeginsTick(key) \/ ContinuesCommands(key)

Next == \E key \in Key :
  /\ Follows(key)
  /\ history' = Append(history, key)

Spec == Init /\ [][Next]_history
=============================================================================
