----------------------------- MODULE MCConnector -----------------------------
EXTENDS Connector, TLC

\* Goroutines are interchangeable and so are identities.
Symmetry == Permutations(Request) \cup Permutations(Identity)

=============================================================================
