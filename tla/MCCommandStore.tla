--------------------------- MODULE MCCommandStore ---------------------------
(* An instance of CommandStore for TLC. *)
EXTENDS CommandStore

CONSTANTS s1, s2, k1, k2, k3, c1, c2, c3, c4

\* Two clients of one stream, one of whom expects it to be empty, a third
\* that uses the first one's key for another command in another stream,
\* and a second client of that one.
MCRequest ==
  { [key |-> k1, command |-> c1, stream |-> s1, expectedVersion |-> NoVersion],
    [key |-> k2, command |-> c2, stream |-> s1, expectedVersion |-> 0],
    [key |-> k1, command |-> c3, stream |-> s2, expectedVersion |-> NoVersion],
    [key |-> k3, command |-> c4, stream |-> s2, expectedVersion |-> NoVersion] }
=============================================================================
