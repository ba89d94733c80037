-------------------------- MODULE MCTokenEndpoint ---------------------------
(* TokenEndpoint for TLC: goroutines and source IPs are interchangeable. *)
EXTENDS TokenEndpoint, TLC

Symmetry == Permutations(Req) \cup Permutations(SourceIP)

=============================================================================
