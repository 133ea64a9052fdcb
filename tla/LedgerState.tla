---------------------------- MODULE LedgerState ----------------------------
(***************************************************************************)
(* The state a v1 node persists (internal/ledger, persistedState) and the  *)
(* pure functions the store's methods are made of.  Each method clones the *)
(* state, computes the next one with these functions, writes it and then   *)
(* puts it in memory; LedgerNode and RoundConsensus model the methods.     *)
(*                                                                         *)
(* Hashes are injective here: a block's hash is the block, and a state     *)
(* root is the record of what stateRootWithFundingIDs hashes.              *)
(***************************************************************************)
EXTENDS ConsensusLog, FiniteSets

CONSTANTS Addresses,    \* account addresses
          Nodes,        \* the nodes, each with its validator address
          Validators,   \* the elected validators, in schedule order
          Power,        \* voting power of each validator
          MaxUint,      \* the largest uint64
          NoHash        \* the empty previous hash of block 1

ASSUME LedgerAssumption ==
    /\ MaxUint \in Nat
    /\ Power \in [Nodes -> Nat]
    /\ Validators \in Seq(Nodes)

-----------------------------------------------------------------------------
(* Saturating and checked arithmetic (arithmetic.go).                      *)

AddFits(left, right) == right <= MaxUint - left
SaturatingAdd(left, right) ==
    IF AddFits(left, right) THEN left + right ELSE MaxUint
NextFits(value) == value # MaxUint

SumPower(vs) ==
    LET sum[i \in 0..Len(vs)] ==
          IF i = 0 THEN 0 ELSE SaturatingAdd(sum[i - 1], Power[vs[i]])
    IN  sum[Len(vs)]

quorumVotingPower(total) ==
    IF total = 0 THEN 0 ELSE (total \div 3) * 2 + ((total % 3) * 2) \div 3 + 1

proposerForHeightRound(height, round) ==
    Validators[((height - 1 + round) % Len(Validators)) + 1]

-----------------------------------------------------------------------------
Height(st) == Len(st.chain)
Tip(st) == IF st.chain = << >> THEN NoHash ELSE st.chain[Len(st.chain)]

(* What the state root commits to: accounts, applied funding requests and  *)
(* the validator set, here by its version.                                 *)
stateRoot(st, accounts) ==
    [accounts |-> accounts, funded |-> st.funded, version |-> st.version]

(* One transfer: the sender's next nonce, a covered amount and no overflow *)
(* at the receiver (who may be the sender).                                *)
TransferFits(accounts, tx) ==
    /\ NextFits(accounts[tx.from].nonce)
    /\ accounts[tx.from].balance >= tx.amount
    /\ tx.nonce = accounts[tx.from].nonce + 1
    /\ LET sent == IF tx.to = tx.from THEN tx.amount ELSE 0
       IN  AddFits(accounts[tx.to].balance - sent, tx.amount)

Transfer(accounts, tx) ==
    LET sent == [accounts EXCEPT
                   ![tx.from] = [balance |-> @.balance - tx.amount,
                                 nonce   |-> tx.nonce]]
    IN  [sent EXCEPT ![tx.to].balance = @ + tx.amount]

(* The accounts after the longest prefix of a list of transactions that    *)
(* fits; every caller answers a shorter prefix with ErrBlockInvariant.     *)
Execute(accounts, txs) ==
    LET run[i \in 0..Len(txs)] ==
          IF i = 0 THEN [done |-> 0, accounts |-> accounts]
          ELSE LET before == run[i - 1]
               IN  IF before.done = i - 1 /\ TransferFits(before.accounts, txs[i])
                   THEN [done |-> i,
                         accounts |-> Transfer(before.accounts, txs[i])]
                   ELSE before
    IN  run[Len(txs)]

Executes(accounts, txs) == Execute(accounts, txs).done = Len(txs)

-----------------------------------------------------------------------------
(* rebuildPendingState, for one sender: what its queued transactions take. *)

PendingOf(st, a) == Only(st.pool, {tx \in Elements(st.pool) : tx.from = a})

ReservedBalance(st, a) ==
    LET mine == PendingOf(st, a)
        sum[i \in 0..Len(mine)] ==
          IF i = 0 THEN 0 ELSE SaturatingAdd(sum[i - 1], mine[i].amount)
    IN  sum[Len(mine)]

(* The nonce that may follow, 0 when the nonces are exhausted.             *)
ExpectedNonce(st, a) ==
    LET mine == PendingOf(st, a)
        last == IF mine = << >> THEN st.accounts[a].nonce
                                ELSE mine[Len(mine)].nonce
    IN  IF NextFits(st.accounts[a].nonce) /\ NextFits(last) THEN last + 1 ELSE 0

AvailableBalance(st, a) ==
    IF ReservedBalance(st, a) > st.accounts[a].balance THEN 0
    ELSE st.accounts[a].balance - ReservedBalance(st, a)

(* Mutant: what the sender has already queued is not reserved.             *)
AcceptableUnreserved(st, tx) ==
    /\ tx \notin st.committed
    /\ tx \notin Elements(st.pool)
    /\ tx.nonce = ExpectedNonce(st, tx.from)
    /\ tx.amount <= st.accounts[tx.from].balance

Acceptable(st, tx) ==
    /\ tx \notin st.committed
    /\ tx \notin Elements(st.pool)
    /\ tx.nonce = ExpectedNonce(st, tx.from)
    /\ tx.amount <= AvailableBalance(st, tx.from)

-----------------------------------------------------------------------------
(* Blocks.  produceBlockFromState takes a prefix of the pool.              *)

BlockOf(st, txs, at) ==
    [height |-> Height(st) + 1, prev |-> Tip(st), txs |-> txs, at |-> at,
     root |-> stateRoot(st, Execute(st.accounts, txs).accounts)]

Selected(st, max) == SubSeq(st.pool, 1, IF max < Len(st.pool) THEN max
                                                             ELSE Len(st.pool))

CanBuild(st, max) ==
    /\ st.pool # << >>
    /\ Executes(st.accounts, Selected(st, max))

BuildBlock(st, max, at) == BlockOf(st, Selected(st, max), at)

(* A new height forgets the round (normalizeConsensusRoundState).          *)
AppendBlock(st, block) ==
    [st EXCEPT
       !.accounts  = Execute(st.accounts, block.txs).accounts,
       !.pool      = Only(st.pool, Elements(st.pool) \ Elements(block.txs)),
       !.chain     = Append(st.chain, block),
       !.committed = st.committed \cup Elements(block.txs),
       !.round     = 0,
       !.started   = FALSE]

(* importBlockIntoState: the verdict, and the state it leads to.           *)
ImportVerdict(st, block) ==
    CASE block.height <= Height(st) ->
           IF st.chain[block.height] = block THEN "known" ELSE "conflict"
      [] block.height > Height(st) + 1 -> "out of sequence"
      [] block.prev # Tip(st) -> "out of sequence"
      [] \E i \in 1..Len(block.txs) :
            /\ block.txs[i] \in st.committed
            /\ i <= Execute(st.accounts, block.txs).done + 1 -> "conflict"
      [] ~ Executes(st.accounts, block.txs) -> "invariant"
      [] block.root # stateRoot(st, Execute(st.accounts, block.txs).accounts) ->
           "invariant"
      [] OTHER -> "ok"

ImportBlock(st, block) ==
    IF ImportVerdict(st, block) = "ok" THEN AppendBlock(st, block) ELSE st

-----------------------------------------------------------------------------
(* ValidateSnapshotCommittedState: the accounts of a served state must be  *)
(* the ones its last block commits to.                                     *)
ServableSnapshot(st) ==
    /\ st.chain # << >>
    /\ Tip(st).root = stateRoot(st, st.accounts)

(* RestoreQuorumSnapshot: the peer's committed state, an empty pool, round *)
(* 0 and no proposals, votes or certificates; the local action log stays.  *)
RestoredState(local, snapshot) ==
    [snapshot EXCEPT
       !.pool      = << >>,
       !.committed = UNION {Elements(snapshot.chain[h].txs) :
                              h \in 1..Len(snapshot.chain)},
       !.round     = 0,
       !.started   = FALSE,
       !.proposals = << >>,
       !.votes     = {},
       !.certs     = {},
       !.actions   = local.actions]
=============================================================================
