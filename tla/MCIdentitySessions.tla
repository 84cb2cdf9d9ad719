------------------------- MODULE MCIdentitySessions -------------------------
(* IdentitySessions on one account with a few sessions and tokens, two     *)
(* requests at a time, and a clock of a few windows.                       *)
EXTENDS IdentitySessions

\* Sessions, tokens and requests are interchangeable.
IdSymmetry == Permutations(SessionIds) \cup Permutations(TokenIds) \cup Permutations(Requests)
=============================================================================
