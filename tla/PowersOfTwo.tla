----------------------------- MODULE PowersOfTwo -----------------------------
(* 1 << n, before any wrap: written out, so that it can be proved about. *)
EXTENDS Integers

Pow2[n \in Nat] == IF n = 0 THEN 1 ELSE 2 * Pow2[n - 1]

=============================================================================
