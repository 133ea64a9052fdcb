--------------------------- MODULE LoanContract ---------------------------
(***************************************************************************)
(* What a loan promises its two parties, whichever shards they live on.    *)
(*                                                                         *)
(* A deal is offered on fixed terms, then withdrawn or accepted; an        *)
(* accepted deal ends once, repaid or defaulted.  lender and borrower are  *)
(* what the contract has handed to each of them when it ends.              *)
(***************************************************************************)
EXTENDS Integers

CONSTANTS Due(_)            \* what a loan on these terms costs to repay
VARIABLES deals, now

Deal(id, terms, stage, lender, borrower) ==
    [id |-> id, terms |-> terms, stage |-> stage, lender |-> lender, borrower |-> borrower]

IDs == {d.id : d \in deals}

Moves(d, stage, lender, borrower) ==
    deals' = (deals \ {d}) \cup {Deal(d.id, d.terms, stage, lender, borrower)}

Offer ==
    \E d \in deals' \ deals :
       /\ d.id \notin IDs
       /\ d = Deal(d.id, d.terms, "offered", 0, 0)
       /\ d.terms.maturity >= now'
       /\ deals' = deals \cup {d}

Withdraw ==
    \E d \in deals :
       d.stage = "offered" /\ Moves(d, "withdrawn", d.terms.principal, 0)

Accept ==
    \E d \in deals :
       /\ d.stage = "offered" /\ now' < d.terms.maturity
       /\ Moves(d, "active", 0, 0)

Repay ==
    \E d \in deals :
       d.stage = "active" /\ Moves(d, "repaid", Due(d.terms), d.terms.collateral)

(* Only a lender whose loan is overdue takes the collateral.               *)
Default ==
    \E d \in deals :
       /\ d.stage = "active" /\ now' > d.terms.maturity
       /\ Moves(d, "defaulted", d.terms.collateral, 0)

Init == deals = {}

Next == Offer \/ Withdraw \/ Accept \/ Repay \/ Default \/ UNCHANGED deals

Spec == Init /\ [][Next]_<<deals, now>>

=============================================================================
