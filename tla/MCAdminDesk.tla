----------------------------- MODULE MCAdminDesk -----------------------------
(* A small instance of AdminDesk for TLC. *)
EXTENDS AdminDesk, TLC

AdminSymmetry == Permutations(Cases) \cup Permutations(Decisions)
=============================================================================
