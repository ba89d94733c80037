-------------------------------- MODULE MCDAO --------------------------------
EXTENDS DAO, TLC

\* Callers are interchangeable and so are ids.
Symmetry == Permutations(Client) \cup Permutations(Profile)

=============================================================================
