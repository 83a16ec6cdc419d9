--------------------------- MODULE MCConnections ---------------------------
(* Two accounts with a token each, and a repository with an address. *)
EXTENDS Connections, TLC

CONSTANTS a1, a2, t1, t2, x1, r1, r2

MCOwner == t1 :> a1 @@ t2 :> a2
MCLocated == x1 :> r1

Symmetry == Permutations(Requests)

=============================================================================
