------------------------------ MODULE MCLedger ------------------------------
(***************************************************************************)
(* Two nodes with voting powers 4 and 1, so that the quorum is 4 and the   *)
(* second may restore the first's snapshot.  t1 and t2 are rivals: one     *)
(* sender, one nonce.                                                      *)
(***************************************************************************)
EXTENDS LedgerNode

CONSTANTS n1, n2, alice, bob

MCAddresses == {alice, bob}
MCNodes == {n1, n2}
MCValidators == <<n1, n2>>
MCPower == [n \in MCNodes |-> IF n = n1 THEN 4 ELSE 1]

t1 == [from |-> alice, to |-> bob, amount |-> 1, nonce |-> 1]
t2 == [from |-> alice, to |-> bob, amount |-> 2, nonce |-> 1]
t3 == [from |-> alice, to |-> bob, amount |-> 2, nonce |-> 2]
MCTransactions == {t1, t2, t3}

MCTimes == [n \in MCNodes |-> {1}]
MCQueued == << >>
MCFunded == {[id |-> 1, to |-> alice, amount |-> 3]}
MCFundingRequests == {[id |-> 2, to |-> bob, amount |-> 2]}
=============================================================================
