------------------------------ MODULE MCRounds ------------------------------
(***************************************************************************)
(* Two validators with voting powers 2 and 1: the quorum is 3, both.  One  *)
(* write may fail.                                                         *)
(***************************************************************************)
EXTENDS RoundConsensus

CONSTANTS n1, n2, alice, bob

MCAddresses == {alice, bob}
MCNodes == {n1, n2}
MCValidators == <<n1, n2>>
MCPower == [n \in MCNodes |-> IF n = n1 THEN 2 ELSE 1]
MCMaxRound == [n \in MCNodes |-> 1]
MCTimes == [n \in MCNodes |-> IF n = n1 THEN {1} ELSE {2}]

MCFunded == {[id |-> 1, to |-> alice, amount |-> 1]}
MCQueued == <<[from |-> alice, to |-> bob, amount |-> 1, nonce |-> 1]>>
=============================================================================
