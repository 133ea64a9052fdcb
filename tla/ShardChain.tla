---------------------------- MODULE ShardChain ----------------------------
(***************************************************************************)
(* The chain of finalized blocks over all shards, seen from its state: at  *)
(* every height each shard executes a batch of transactions and imports    *)
(* receipts of earlier blocks (Runtime.buildShardCandidate).  The step     *)
(* that finalizes a block is EconomicRuntime's Commit.                     *)
(*                                                                         *)
(* Which validator proposes and how blocks become final is GlobalCommit's  *)
(* subject; here every block that can be built can be the next one.        *)
(***************************************************************************)
EXTENDS Wallets

CONSTANTS Menus             \* the situations explored, each with its bounds

VARIABLES
    menu,       \* the situation of this behaviour
    height,     \* finalized height
    world,      \* [Shards -> set of objects]
    receipts,   \* every receipt a finalized block exported
    burned,     \* fees taken out of circulation
    closed      \* loans that ended, with what each party was handed

chain == <<menu, height, world, receipts, burned, closed>>

ChainInit ==
    /\ menu \in Menus
    /\ height = menu.start
    /\ world = menu.world
    /\ receipts = menu.receipts
    /\ burned = 0
    /\ closed = {}

(* Batches of at most menu.batch transactions, in the order they arrived.  *)
Batches(ready) ==
    {<<>>} \cup {<<t>> : t \in ready}
      \cup (IF menu.batch > 1 THEN {<<t, u>> : t, u \in ready} ELSE {})

Ready == UNION {Submissions(menu, world, a, height + 1) : a \in menu.actors}

Arrivals == Batches(Ready)

OnShard(batch, s) == SelectSeq(batch, LAMBDA t : HomeShard(t) = s)

Candidates(batch, imports) ==
    [s \in Shards |-> buildShardCandidate(world[s], OnShard(batch, s),
                                          {r \in imports : r.dest = s}, height + 1, s)]

Fees(cands) ==
    LET charged(s) == F!MapThenSumSet(LAMBDA k : FeeCharged(cands[s].batch[k]), DOMAIN cands[s].batch)
    IN  F!MapThenSumSet(charged, Shards)

-----------------------------------------------------------------------------
(* Loans: which deal an object belongs to, and how a transaction ends it.  *)

DealOf(o) ==
    IF o.kind \in {"loanOffer", "crossOffer"} THEN o.id.tx ELSE o.data.offer.tx

TermsOf(o) == IF o.kind = "loanOffer" THEN o.data ELSE o.data.terms

ClosingOps == [ loanCancel |-> "withdrawn", crossExpire |-> "withdrawn",
                loanRepay |-> "repaid", crossSettle |-> "repaid",
                loanDefault |-> "defaulted", crossDefault |-> "defaulted" ]

(* What the engine itself hands an account in a result, change left out.   *)
HandedTo(result, account) ==
    TotalNative({o \in result.created : o.owner = account /\ o.id.index >= PayoutIndex})
      + F!MapThenSumSet(LAMBDA o : IF o.output.owner = account THEN NativeValue(o.output) ELSE 0,
                        {o \in result.outbound : o.index >= PayoutIndex})

Closing(t, result) ==
    LET o == InputByID(t, t.arg.object)
        terms == TermsOf(o)
    IN  [id |-> DealOf(o), terms |-> terms, stage |-> ClosingOps[t.op],
         lender |-> HandedTo(result, terms.lender),
         borrower |-> HandedTo(result, terms.borrower)]

Closings(cands) ==
    UNION { { Closing(cands[s].batch[k], cands[s].results[k]) :
              k \in {j \in DOMAIN cands[s].batch : cands[s].batch[j].op \in DOMAIN ClosingOps} } :
            s \in Shards }

-----------------------------------------------------------------------------

Finalize(cands) ==
    /\ \A s \in Shards : cands[s].ok
    /\ height' = height + 1
    /\ world' = [s \in Shards |-> cands[s].objects]
    /\ receipts' = receipts \cup UNION {cands[s].exports : s \in Shards}
    /\ burned' = burned + Fees(cands)
    /\ closed' = closed \cup Closings(cands)
    /\ UNCHANGED menu

Imports == {{}} \cup {{r} : r \in receipts}

-----------------------------------------------------------------------------
(* What the state promises.                                                *)

Everything == UNION {world[s] : s \in Shards}

InFlight == {r \in receipts : ReceiptMarker(r) \notin world[r.dest]}

Pending == {DestinationObject(r) : r \in InFlight}

(* Native value is neither made nor lost: what the shards hold, locked in  *)
(* contracts or not, plus what travels between them and what fees burned   *)
(* is what genesis issued.  (Engine.Execute, buildShardCandidate: a batch, *)
(* an import and an escrow each see only one side of a movement.)          *)
NativeConserved ==
    TotalNative(Everything) + TotalNative(Pending) + burned
        = F!MapThenSumSet(LAMBDA s : TotalNative(menu.world[s]), Shards)
            + TotalNative({DestinationObject(r) : r \in menu.receipts})

(* A token's definition states the units that exist, and never more than   *)
(* its cap, however mints, burns and transfers follow each other.          *)
(* (executeMintToken, executeBurnToken, executeTransfer.)                  *)
SupplyMatches ==
    \A d \in OfKind(Everything, "definition") :
       /\ d.data.supply = TokenAmount(Everything, d.data.token)
       /\ d.data.policy # "mintable" => d.data.supply <= d.data.max

After(t, result) == Applied(world[HomeShard(t)], result.consumed, result.created)

Undisturbed(ready) ==
    \A t, u \in ready :
       HomeShard(t) = HomeShard(u) /\ Independent(t, u) =>
         u.inputs \subseteq After(t, Execute(t, height + 1, <<height + 1, HomeShard(t), 1>>))

(* Two transactions the batch rules call independent leave each other's    *)
(* witnesses as they are, so a parallel batch equals both serial orders.   *)
(* (validateIndependentBatch, transactionAccesses.)                        *)
BatchSerializable ==
    menu.batch > 1 => Undisturbed(Ready)

(* The deals of the lending operations, for LoanContract.                  *)
Open(o, stage) ==
    [id |-> DealOf(o), terms |-> TermsOf(o), stage |-> stage, lender |-> 0, borrower |-> 0]

Deals ==
    closed
      \cup {Open(o, "offered") : o \in {x \in Everything \cup Pending :
                                             x.kind \in {"loanOffer", "crossOffer"}}}
      \cup {Open(o, "active") :
              o \in {x \in Everything \cup Pending : x.kind \in {"loan", "crossAcceptance"}}}

Loans == INSTANCE LoanContract WITH Due <- RepaymentDue, deals <- Deals, now <- height

(* Same-shard and cross-shard loans keep LoanContract's promise: every     *)
(* deal ends at most once, nobody defaults a loan that is not overdue, and *)
(* each party is handed exactly what the terms say.                        *)
LoansKeepContract == Loans!Spec

(* The settlement objects, and whether a receipt carried a provider's root.  *)
Settled == {o \in Everything : o.kind = "system" /\ "slashed" \in DOMAIN o.data}

Reported(job, provider) ==
    {r.output.data.result.root : r \in {x \in receipts : /\ x.output.kind = "result"
                                                        /\ x.output.data.jobId = job
                                                        /\ x.output.data.result.provider = provider}}

(* A settled job paid exactly the providers whose reported root won, more  *)
(* than half of those assigned, and it left nothing behind that could be   *)
(* settled again.  (ResolveReplicatedMajority, executeComputeFinalize.)    *)
SettledByMajority ==
    \A o \in Settled :
       LET s == o.data IN
       /\ ~\E j \in OfKind(Everything, "job") : j.data.id = s.job
       /\ ~\E p \in Settled : p # o /\ p.data.job = s.job
       /\ ~s.expired =>
             /\ \A a \in s.paid : ShardOf[a.provider] = o.id.shard
                                    \/ s.root \in Reported(s.job, a.provider)
             /\ \A a \in s.slashed : ShardOf[a.provider] = o.id.shard
                                    \/ \E root \in Reported(s.job, a.provider) : root # s.root
             /\ Cardinality(s.paid) > Cardinality(s.slashed)

(* "CreatedHeight is not trusted from the wallet": a coin a block created  *)
(* carries that block's height.  (stampCoinOutput; accountNativeValue and  *)
(* settlementOutputs create coins without it.)                             *)
CoinsStamped ==
    \A o \in OfKind(Everything, "coin") : o.data.created = o.id.tx[1]

(* Past its deadline a job's owner can expire it and get the escrow back,  *)
(* whoever was assigned and whatever arrived.  (executeComputeExpire,      *)
(* settlementOutputs.)                                                     *)
ExpiryReturnsCapital ==
    \A j \in OfKind(Everything, "job") :
       LET h == height + 1
           expire == [op |-> "computeExpire", sender |-> j.owner, arg |-> [object |-> j.id],
                      inputs |-> {j}, outputs |-> <<>>, fee |-> 0]
       IN  h > j.data.job.deadline => Execute(expire, h, <<h, j.id.shard, 1>>).ok

=============================================================================
