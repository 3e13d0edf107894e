-------------------------- MODULE MCPlanningSelection --------------------------
(* A small instance of PlanningSelection for TLC.                          *)
EXTENDS PlanningSelection

CONSTANTS a, b, a1, a2

(* Record a has two versions, b has none.                                  *)
MCVersionsOf == [r \in Record |-> IF r = a THEN <<a1, a2>> ELSE <<>>]
=============================================================================
