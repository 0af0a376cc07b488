----------------------------- MODULE MCAuthority -----------------------------
(* Instances of Authority for TLC. *)
EXTENDS Authority, TLC

CONSTANTS w1, w2, o1, o2, p1, p2

\* The second writer also repeats an operation of the first, with another input.
MCRequests ==
  (w1 :> {[op |-> o1, print |-> p1]})
    @@ (w2 :> {[op |-> o2, print |-> p1], [op |-> o1, print |-> p2]})
=============================================================================
