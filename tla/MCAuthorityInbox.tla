-------------------------- MODULE MCAuthorityInbox --------------------------
(* Instances of AuthorityInbox for TLC. *)
EXTENDS AuthorityInbox, TLC

CONSTANTS p1, p2, a1, a2

\* One agent in each partition.
MCHome == (a1 :> p1) @@ (a2 :> p2)
=============================================================================
