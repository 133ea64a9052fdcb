---------------------------- MODULE MCExecution ---------------------------
(***************************************************************************)
(* Small situations for the engine: accounts 1 and 2 live on shard 0, the   *)
(* others on shard 1.                                                      *)
(***************************************************************************)
EXTENDS EconomicCheckpoint, TLC

MCShards == {0, 1}
MCAccounts == 1..5
MCShardOf == 1 :> 0 @@ 2 :> 0 @@ 3 :> 1 @@ 4 :> 1 @@ 5 :> 1

Genesis(s, k, owner, amount) ==
    Object(ObjectID(<<0, s, k>>, 1, s), CoinSpec(owner, NativeToken, amount, 0))

Base ==
    [name |-> "base", actors |-> 1..3, ops |-> {}, amounts |-> 1..2, fees |-> {0}, coins |-> 1, batch |-> 1, maxHeight |-> 4,
     creates |-> {}, scripts |-> {}, keys |-> {}, terms |-> {}, offers |-> {}, orders |-> {},
     roots |-> {}, receipts |-> {}, start |-> 0, books |-> FALSE, track |-> FALSE, epoch |-> 0,
     posted |-> 0, idle |-> EmptyTracker,
     world |-> (0 :> {Genesis(0, 1, 1, 2), Genesis(0, 2, 2, 1)} @@ 1 :> {Genesis(1, 1, 3, 2)})]

With(f, g) == g @@ f

Token(policy, max, supply) ==
    [policy |-> policy, max |-> max, supply |-> supply, authority |-> 1, burnable |-> TRUE,
     transferable |-> TRUE]

Tokens == With(Base, [name |-> "tokens", ops |-> {"transfer", "createToken", "mint", "burn"},
    fees |-> {0}, maxHeight |-> 4,
    creates |-> {Token("capped", 2, 1), Token("mintable", 0, 1)},
    world |-> (0 :> {Genesis(0, 1, 1, 1)} @@ 1 :> {})])

FixedToken == With(Tokens, [name |-> "fixed", creates |-> {Token("fixed", 1, 1)}, maxHeight |-> 3])

Coins == With(Base, [name |-> "coins", ops |-> {"transfer"}, fees |-> {0, 1}, coins |-> 2, maxHeight |-> 4,
    world |-> (0 :> {Genesis(0, 1, 1, 2)} @@ 1 :> {Genesis(1, 1, 3, 1)})])

Script(runtime, writes) == [runtime |-> runtime, code |-> [steps |-> 1, writes |-> writes],
                            authority |-> 1, initial |-> TRUE]

Contracts == With(Base, [name |-> "contracts", actors |-> {1, 2}, ops |-> {"deploy", "call"}, batch |-> 2, maxHeight |-> 2,
    scripts |-> {Script("script", "all"), Script("script", "none"), Script("wasm", "all")},
    world |-> (0 :> {Genesis(0, 2, 2, 1)} @@ 1 :> {})])

Credentials == With(Base, [name |-> "credentials", ops |-> {"register", "renew", "revoke"}, actors |-> {1}, maxHeight |-> 4,
    keys |-> {[key |-> k, expires |-> e] : k \in {1}, e \in {0, 3}}, fees |-> {0, 1},
    world |-> (0 :> {Genesis(0, 1, 1, 1)} @@ 1 :> {})])

Terms(lender, borrower, principal, collateral, rate, maturity) ==
    [lender |-> lender, borrower |-> borrower, principal |-> principal,
     collateral |-> collateral, rate |-> rate, maturity |-> maturity]

Lending == With(Base, [name |-> "lending",
    ops |-> {"loanOffer", "loanCancel", "loanAccept", "loanRepay", "loanDefault"},
    actors |-> {1, 2}, coins |-> 2, maxHeight |-> 6, amounts |-> 1..3,
    terms |-> {Terms(1, 2, 2, 1, 5, 4), Terms(1, 2, 1, 0, -9, 3), Terms(1, 2, 1, 1, 0, 5)},
    world |-> (0 :> {Genesis(0, 1, 1, 3), Genesis(0, 2, 2, 2)} @@ 1 :> {})])

(* Deadlines that leave room for an acceptance under way (Grace).          *)
CrossLending == With(Base, [name |-> "cross",
    ops |-> {"crossOffer", "crossAccept", "crossRepay", "crossSettle", "crossDefault", "crossExpire"},
    actors |-> {1, 3}, coins |-> 2, maxHeight |-> 10, amounts |-> 1..3,
    terms |-> {Terms(1, 3, 2, 1, 5, 6), Terms(1, 3, 1, 0, -5, 4)},
    world |-> (0 :> {Genesis(0, 1, 1, 2)} @@ 1 :> {Genesis(1, 1, 3, 2)})])

Job(collateral, price, replicas, deadline) ==
    [owner |-> 1, maxPrice |-> price, collateral |-> collateral, mode |-> "replicated",
     replicas |-> replicas, deadline |-> deadline]

Offer(provider, price, collateral) ==
    [provider |-> provider, price |-> price, collateral |-> collateral,
     modes |-> {"replicated"}, until |-> 6]

(* A job and offers posted by the blocks before the menu's start.          *)
JobID == <<2, 0, 9>>
OfferObject(k, o) == Object(ObjectID(<<1, ShardOf[o.provider], k>>, ComputeOfferIndex, ShardOf[o.provider]),
                            [owner |-> o.provider, kind |-> "computeOffer", data |-> o])
JobObject(job, status, providers) ==
    Object(ObjectID(JobID, ComputeJobIndex, 0),
           [owner |-> 1, kind |-> "job",
            data |-> [id |-> JobID, job |-> job, escrow |-> job.maxPrice, status |-> status,
                      assignments |-> {[offer |-> OfferObject(p, Offer(p, 1, 1)).id,
                                        provider |-> p, price |-> 1] : p \in providers},
                      results |-> {}]])

Posting == With(Base, [name |-> "posting", actors |-> 1..2,
    ops |-> {"computeOffer", "computeJob", "computeAccept", "ingestAssignment", "computeExpire"},
    maxHeight |-> 5, amounts |-> {1}, orders |-> {Job(1, 1, 2, 3)}, offers |-> {Offer(2, 1, 1)},
    world |-> (0 :> {Genesis(0, 1, 1, 2), Genesis(0, 2, 2, 1)} @@ 1 :> {})])

Assigning == With(Base, [name |-> "assigning", start |-> 2,
    ops |-> {"computeAccept", "ingestAssignment", "computeExpire"},
    maxHeight |-> 8, amounts |-> {1},
    world |-> (0 :> {JobObject(Job(1, 3, 2, 6), "pending", {}), OfferObject(1, Offer(2, 2, 2))}
               @@ 1 :> {OfferObject(1, Offer(3, 1, 1)), OfferObject(2, Offer(3, 2, 1))})])

(* The lineages of an assigned job: its escrow is as old as the owner's    *)
(* coin, each collateral as old as the provider's.                         *)
Lot(s, k, amount) == {[lineage |-> ObjectID(<<1, s, k>>, 1, s), since |-> 1, amount |-> amount]}

Locked(job, providers) ==
    With(EmptyTracker,
         [objects |-> EscrowID(JobID) :> Lot(0, 1, job.maxPrice)
             @@ [id \in {CollateralID(JobID, p) : p \in providers} |->
                   Lot(1, id.index - 300, job.collateral)]])

Assigned(job, providers) ==
    With(Base, [start |-> 4, books |-> TRUE, track |-> TRUE, posted |-> 1,
                idle |-> Locked(job, providers),
                world |-> (0 :> {JobObject(job, "assigned", providers)} @@ 1 :> {})])

Reporting == With(Assigned(Job(1, 3, 2, 8), {2, 3}), [name |-> "reporting",
    ops |-> {"computeResult", "ingestResult", "computeFinalize", "computeResolve", "computeExpire"},
    maxHeight |-> 9, roots |-> {"a", "b"}])

Report(p, root) ==
    [source |-> 1, dest |-> 0, height |-> 4, tx |-> <<4, 1, 10 + p>>, index |-> ComputeIndex,
     output |-> [owner |-> 1, kind |-> "result",
                 data |-> [jobId |-> JobID, shard |-> 0, owner |-> 1,
                           result |-> [provider |-> p, root |-> root, completed |-> 4]]]]

(* Reports that were imported, and not yet ingested.                       *)
Disagreeing(a, b, c) ==
    LET job == Job(1, 4, 3, 9)
        reports == {Report(3, a), Report(4, b), Report(5, c)}
    IN  With(Assigned(job, {3, 4, 5}), [name |-> "disagreeing", actors |-> {1},
             ops |-> {"ingestResult", "computeFinalize", "computeResolve", "computeExpire"},
             start |-> 5, maxHeight |-> 10, receipts |-> reports,
             world |-> (0 :> {JobObject(job, "assigned", {3, 4, 5})} \cup Imported(reports) @@ 1 :> {})])

Disagreements == {Disagreeing("a", "a", "a"), Disagreeing("a", "b", "a"), Disagreeing("a", "b", "c")}

(* The books: coins of the first block have a known age.                   *)
Coin(s, k, owner, amount) ==
    Object(ObjectID(<<1, s, k>>, 1, s), CoinSpec(owner, NativeToken, amount, 1))

Booked == With(Base, [name |-> "booked", actors |-> {1, 3}, ops |-> {"transfer"}, fees |-> {0, 1},
    maxHeight |-> 5, books |-> TRUE, track |-> TRUE, epoch |-> 2,
    world |-> (0 :> {Genesis(0, 1, 1, 2), Genesis(0, 2, 2, 1)} @@ 1 :> {})])

Aging == With(Base, [name |-> "aging", actors |-> {1, 3}, ops |-> {"transfer"}, fees |-> {0, 1},
    coins |-> 2, maxHeight |-> 4, start |-> 1, books |-> TRUE, track |-> TRUE,
    world |-> (0 :> {Coin(0, 1, 1, 2)} @@ 1 :> {Coin(1, 1, 3, 1)})])

AgingLoans == With(CrossLending, [name |-> "aging loans", start |-> 1, books |-> TRUE, track |-> TRUE,
    world |-> (0 :> {Coin(0, 1, 1, 2)} @@ 1 :> {Coin(1, 1, 3, 2)})])

AgingJobs == With(Base, [name |-> "aging jobs", start |-> 1, maxHeight |-> 7,
    books |-> TRUE, track |-> TRUE, batch |-> 2, amounts |-> {1},
    ops |-> {"computeOffer", "computeJob", "computeAccept", "ingestAssignment", "computeExpire"},
    orders |-> {Job(1, 2, 2, 6)}, offers |-> {Offer(2, 1, 2), Offer(3, 1, 1)},
    world |-> (0 :> {Coin(0, 1, 1, 3), Coin(0, 2, 2, 2)} @@ 1 :> {Coin(1, 1, 3, 1)})])

MCMenus == {Tokens, FixedToken, Coins, Contracts, Credentials, Lending, CrossLending, Posting, Assigning,
            Reporting, Booked, Aging, AgingLoans, AgingJobs} \cup Disagreements

(* A job that asks for no collateral.                                      *)
Unsecured == With(Assigning, [name |-> "unsecured",
    world |-> (0 :> {JobObject(Job(0, 2, 2, 6), "pending", {}), OfferObject(1, Offer(2, 1, 0))}
               @@ 1 :> {OfferObject(1, Offer(3, 1, 0))})])

MCUnsecured == {Unsecured}
MCPosting == {With(Posting, [orders |-> {Job(1, 1, 2, 4)}, maxHeight |-> 6])}

=============================================================================
