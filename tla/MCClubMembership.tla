-------------------------- MODULE MCClubMembership --------------------------
EXTENDS ClubMembership, TLC

MCSymmetry == Permutations(Users) \cup Permutations(Clubs) \cup Permutations(Connections)

=============================================================================
