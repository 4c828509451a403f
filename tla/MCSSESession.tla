---------------------------- MODULE MCSSESession ----------------------------
(* SSESession for TLC: sessions and POSTs as model values, interchangeable.  *)
EXTENDS SSESession, TLC

Symmetry == Permutations(Sessions) \cup Permutations(Posts)

=============================================================================
