---------------------------- MODULE MCPolicyState ----------------------------
(* A small instance of PolicyState: two requests of the operator at once, of *)
(* which one may ask for a limit of nothing.                                *)
EXTENDS PolicyState, TLC

CONSTANTS h1, h2

Two == {h1, h2}
Alike == Permutations(Handlers)
=============================================================================
