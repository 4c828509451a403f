-------------------------- MODULE MCEngineRequest --------------------------
(* EngineRequest for TLC: budgets that run out in a pod's owners, in the     *)
(* Lists of a dump and in its Nodes, and none at all.                        *)
EXTENDS EngineRequest

Budgets == {0, 3, 12, 16}
=============================================================================
