--------------------------- MODULE IdempotentLog ---------------------------
(***************************************************************************)
(* What an event store promises its callers (packages/sim-core/src/        *)
(* eventStore.ts): a family of logs and a table from idempotency keys to   *)
(* the append each key was used for.  An append puts the whole batch at    *)
(* the end of one log and takes its key in one step, or does nothing.      *)
(* A caller is told "appended" only about an append that is in the table.  *)
(***************************************************************************)
EXTENDS Naturals, Sequences

CONSTANTS Stream, Key, Version, Event, Batch, NoRequest

(***************************************************************************)
(* An append request, which is also what the idempotency record keeps of   *)
(* it: the events stand for their fingerprint.                             *)
(***************************************************************************)
Request ==
  [key : Key, stream : Stream, expectedVersion : Version, events : Batch]

VARIABLES
  log,          \* [Stream -> Seq(Event)]
  applied,      \* [Key -> Request \cup {NoRequest}]
  acknowledged  \* the requests some caller was told are in the log

vars == <<log, applied, acknowledged>>

Init ==
  /\ log = [s \in Stream |-> << >>]
  /\ applied = [k \in Key |-> NoRequest]
  /\ acknowledged = {}

(* A batch enters its log whole, at the version its caller expected. *)
Apply(r) ==
  /\ applied[r.key] = NoRequest
  /\ Len(log[r.stream]) = r.expectedVersion
  /\ log' = [log EXCEPT ![r.stream] = @ \o r.events]
  /\ applied' = [applied EXCEPT ![r.key] = r]
  /\ UNCHANGED acknowledged

(* The append, or a later retry of the same request, is answered. *)
Acknowledge(r) ==
  /\ applied[r.key] = r
  /\ acknowledged' = acknowledged \cup {r}
  /\ UNCHANGED <<log, applied>>

Next == \E r \in Request : Apply(r) \/ Acknowledge(r)

Spec == Init /\ [][Next]_vars
=============================================================================
