----------------------------- MODULE MCMetrics ------------------------------
(* Metrics for TLC: one bound, a value on it and a value above.              *)
EXTENDS Metrics, TLC

Values == {[latency |-> 1, size |-> 2]}
OneBound == <<1>>
Symmetry == Permutations(Requests)

=============================================================================
