---------------------------- MODULE MCProfileAPI ----------------------------
(* ProfileAPI for TLC: records and goroutines are interchangeable. *)
EXTENDS ProfileAPI, TLC

Symmetry == Permutations(Record) \cup Permutations(Req) \cup Permutations(Sub)

=============================================================================
