-------------------------- MODULE MCEventPublishing --------------------------
(* EventPublishing on a club and two organizers, two events and two links, *)
(* two requests at a time.                                                 *)
EXTENDS EventPublishing, TLC

\* Organizers, events, links and requests are interchangeable.
EventSymmetry == Permutations(Organizers) \cup Permutations(Events)
                     \cup Permutations(Links) \cup Permutations(Requests)
=============================================================================
