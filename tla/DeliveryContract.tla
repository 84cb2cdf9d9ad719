--------------------------- MODULE DeliveryContract ---------------------------
(***************************************************************************)
(* What every queue of the platform promises its publishers, whatever its  *)
(* tables look like: an item that is published is claimed, has its effect  *)
(* once, and is settled by a claim after the effect; it may be given back, *)
(* given up for good, reopened by hand, and forgotten once it is settled.  *)
(* The outbox and the e-mail queue are shown to implement it.  Items move  *)
(* independently of each other, several of them in one step.               *)
(***************************************************************************)
CONSTANT Items

VARIABLES
    phase,   \* where the queue has the item
    effect   \* whether the item has had its effect

Phases == {"absent", "open", "claimed", "settled", "abandoned", "forgotten"}

contractVars == <<phase, effect>>

Init ==
    /\ phase = [i \in Items |-> "absent"]
    /\ effect = [i \in Items |-> FALSE]

Moves(i, from, to) == phase[i] \in from /\ phase'[i] = to

Keeps(i) == effect'[i] = effect[i]

Publish(i) == Moves(i, {"absent"}, "open") /\ Keeps(i)

\* A claim whose lease ran out is taken over without leaving the phase.
Claim(i) == Moves(i, {"open"}, "claimed") /\ Keeps(i)

\* The effect may come from a claim that has been taken over meanwhile.
Act(i) ==
    /\ phase[i] \notin {"absent", "settled", "forgotten"}
    /\ phase'[i] = phase[i]
    /\ ~effect[i] /\ effect'[i]

\* The effect precedes the settlement, or is part of its transaction.
Settle(i) == Moves(i, {"claimed"}, "settled") /\ effect'[i]

GiveBack(i) == Moves(i, {"claimed"}, "open") /\ Keeps(i)

GiveUp(i) == Moves(i, {"claimed"}, "abandoned") /\ Keeps(i)

Reopen(i) == Moves(i, {"abandoned"}, "open") /\ Keeps(i)

Forget(i) == Moves(i, {"settled"}, "forgotten") /\ Keeps(i)

ItemStep(i) ==
    \/ phase'[i] = phase[i] /\ Keeps(i)
    \/ Publish(i) \/ Claim(i) \/ Act(i) \/ Settle(i)
    \/ GiveBack(i) \/ GiveUp(i) \/ Reopen(i) \/ Forget(i)

Next == \A i \in Items : ItemStep(i)

Spec == Init /\ [][Next]_contractVars

=============================================================================
