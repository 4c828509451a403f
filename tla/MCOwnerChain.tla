---------------------------- MODULE MCOwnerChain ----------------------------
(* OwnerChain for TLC: Pods, and owners of a known kind, are interchangeable.*)
EXTENDS OwnerChain, TLC

Symmetry == Permutations(Pods) \cup Permutations(Known)

=============================================================================
