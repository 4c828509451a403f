-------------------------- MODULE MCServiceBackends -------------------------
(* ServiceBackends for TLC: addresses are interchangeable, Pods are not: the *)
(* last of a list wins.                                                      *)
EXTENDS ServiceBackends, TLC

Symmetry == Permutations(IPs)

=============================================================================
