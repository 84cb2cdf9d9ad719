---- MODULE MCEventDesk ----
(* Members are interchangeable: no operation of the desk compares them. *)
EXTENDS EventDesk, TLC

MemberSymmetry == Permutations(Users)
====
