------------------------------- MODULE Slices -------------------------------
(***************************************************************************)
(* The loops over slices that several parts of the backend share.          *)
(***************************************************************************)
EXTENDS Naturals, SequencesExt

Join(s, t) == s \o t

(* A loop that appends the elements it accepts, those at the positions in  *)
(* at, to a new slice.                                                     *)
Keep(s, at) == FoldLeft(Join, <<>>, [i \in 1..Len(s) |-> IF i \in at THEN <<s[i]>> ELSE <<>>])

=============================================================================
