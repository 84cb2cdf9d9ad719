----------------------------- MODULE MCCashExpiry -----------------------------
(* Three workers, two of them under one name, race for the jobs of an event   *)
(* with one seat.                                                             *)
EXTENDS CashExpiry

NamesOfWorkers == [w \in Workers |-> IF w = "w3" THEN "spare" ELSE "main"]
=============================================================================
