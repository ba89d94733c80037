---------------------------- MODULE MCJWKSCache -----------------------------
(* JWKSCache for TLC: goroutines and kids are interchangeable. *)
EXTENDS JWKSCache, TLC

Symmetry == Permutations(Caller) \cup Permutations(Kid)

=============================================================================
