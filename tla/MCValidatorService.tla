------------------------- MODULE MCValidatorService -------------------------
(* Three validators of power 1, 1 and 2: a quorum is 3 of 4, so the third    *)
(* validator and one other.  Two transactions for the same object, one of    *)
(* them with an output for the other shard.                                  *)
EXTENDS ValidatorService, TLC

CONSTANTS t, u, x

MCPower == (0 :> 1) @@ (1 :> 1) @@ (2 :> 2)
MCInput == (t :> x) @@ (u :> x)
=============================================================================
