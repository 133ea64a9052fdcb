----------------------------- MODULE LedgerNode -----------------------------
(***************************************************************************)
(* The v1 node without certificates (internal/ledger/store.go and the      *)
(* handlers and loops of internal/api that call it): funding, submission   *)
(* of transactions, block production and import, peer synchronisation,     *)
(* quorum snapshots, failing writes and restarts.                          *)
(*                                                                         *)
(* A store method holds the store's lock from its first read to its last   *)
(* assignment, so it is one action.  It computes the next state, replaces  *)
(* the state file and only then the state in memory.  A failing write is   *)
(* reported to the caller and leaves memory as it was; the file is the old *)
(* one or, when the error comes after the rename, the new one.             *)
(***************************************************************************)
EXTENDS ConsensusState

CONSTANTS Transactions,          \* [from, to, amount, nonce] clients may submit
          FundingRequests,       \* [id, to, amount] clients may submit
          Funded,                \* the requests applied everywhere before
          Queued,                \* the pool every node starts with
          Started,               \* the nodes whose first round is running
          Times,                 \* clock readings each node may produce at
          MaxTransactionsPerBlock,
          Producers,             \* the nodes with EnableBlockProduction
          Syncing,               \* the nodes with EnablePeerSync
          RequireCertificates,   \* RequireConsensusCertificates
          MaxHeight,             \* bound on the chain
          MaxFaults,             \* bound on failing writes
          None                   \* no snapshot fetched

Transfers == [from : Addresses, to : Addresses,
              amount : 0..MaxUint, nonce : 0..MaxUint]

ASSUME NodeAssumption ==
    /\ Transactions \subseteq Transfers /\ Queued \in Seq(Transfers)
    /\ IsFiniteSet(Funded)
    /\ \A request \in Funded \cup FundingRequests :
          request.to \in Addresses /\ request.amount \in 0..MaxUint
    /\ MaxTransactionsPerBlock \in Nat \ {0}

VARIABLES mem,      \* the state each node has in memory
          disk,     \* the state in each node's file
          sent,     \* blocks broadcast to the peers
          acked,    \* written and acknowledged since the last restore
          fetched,  \* the verified snapshot a node is about to restore
          faults    \* failing writes so far

ledgerVars == <<mem, disk, sent, acked, fetched, faults>>

SumAmounts(S) ==
    LET sum[T \in SUBSET S] ==
          IF T = {} THEN 0
          ELSE LET one == CHOOSE x \in T : TRUE
               IN  one.amount + sum[T \ {one}]
    IN  sum[S]

NewState(n) ==
    [accounts |-> [a \in Addresses |->
                     [balance |-> SumAmounts({r \in Funded : r.to = a}),
                      nonce |-> 0]],
     pool |-> Queued, chain |-> << >>, committed |-> {}, funded |-> Funded,
     version |-> 1, round |-> 0, started |-> n \in Started,
     proposals |-> << >>, votes |-> {}, certs |-> {}, actions |-> << >>]

NothingAcked == [funded |-> {}, txs |-> {}, votes |-> {}]

LedgerInit ==
    /\ mem = [n \in Nodes |-> NewState(n)]
    /\ disk = mem
    /\ sent = {}
    /\ acked = [n \in Nodes |-> NothingAcked]
    /\ fetched = [n \in Nodes |-> None]
    /\ faults = 0

(* Mutant: memory is updated and the file is left for later.               *)
WrittenLater(n, next) ==
    /\ mem' = [mem EXCEPT ![n] = next]
    /\ UNCHANGED <<disk, faults>>

(* writeState and applyStateLocked.                                        *)
Written(n, next) ==
    /\ mem' = [mem EXCEPT ![n] = next]
    /\ disk' = [disk EXCEPT ![n] = next]
    /\ faults' = faults

WriteFails(n, next) ==
    /\ faults < MaxFaults
    /\ faults' = faults + 1
    /\ UNCHANGED mem
    /\ \E file \in {disk[n], next} : disk' = [disk EXCEPT ![n] = file]

-----------------------------------------------------------------------------
(* Mutant: a request delivered twice is applied twice.                     *)
CreditAgain(n, request) ==
    LET st      == mem[n]
        applied == [st EXCEPT
                      !.accounts[request.to].balance = @ + request.amount,
                      !.funded = @ \cup {request}]
    IN  /\ AddFits(st.accounts[request.to].balance, request.amount)
        /\ UNCHANGED <<sent, fetched>>
        /\ \/ /\ Written(n, applied)
              /\ acked' = [acked EXCEPT ![n].funded = @ \cup {request}]
           \/ WriteFails(n, applied) /\ UNCHANGED acked

(* handleFaucet.  A request already applied is answered from memory and    *)
(* changes nothing.                                                        *)
Credit(n, request) ==
    LET st      == mem[n]
        applied == [st EXCEPT
                      !.accounts[request.to].balance = @ + request.amount,
                      !.funded = @ \cup {request}]
    IN  /\ request \notin st.funded
        /\ AddFits(st.accounts[request.to].balance, request.amount)
        /\ UNCHANGED <<sent, fetched>>
        /\ \/ /\ Written(n, applied)
              /\ acked' = [acked EXCEPT ![n].funded = @ \cup {request}]
           \/ WriteFails(n, applied) /\ UNCHANGED acked

(* handleBroadcastTransaction, from a client or from a peer.               *)
Accept(n, tx) ==
    LET queued == [mem[n] EXCEPT !.pool = Append(@, tx)]
    IN  /\ Acceptable(mem[n], tx)
        /\ UNCHANGED <<sent, fetched>>
        /\ \/ /\ Written(n, queued)
              /\ acked' = [acked EXCEPT ![n].txs = @ \cup {tx}]
           \/ WriteFails(n, queued) /\ UNCHANGED acked

(* produceLocalBlock without certificates; the block is broadcast.         *)
Produce(n, at) ==
    LET block == BuildBlock(mem[n], MaxTransactionsPerBlock, at)
        built == AppendBlock(mem[n], block)
        next  == [built EXCEPT !.actions = completeUpTo(@, block.height)]
    IN  /\ ~ RequireCertificates /\ n \in Producers
        /\ Height(mem[n]) < MaxHeight
        /\ CanBuild(mem[n], MaxTransactionsPerBlock)
        /\ UNCHANGED <<acked, fetched>>
        /\ \/ Written(n, next) /\ sent' = sent \cup {block}
           \/ WriteFails(n, next) /\ UNCHANGED sent

(* ImportBlockWithOptions: importBlockIntoState, then the certificate.     *)
Importable(st, block) ==
    /\ ImportVerdict(st, block) \in {"ok", "known"}
    /\ RequireCertificates => BlockCertified(st, block)

Imported(st, block) ==
    LET next == ImportBlock(st, block)
    IN  [next EXCEPT !.actions = completeUpTo(@, block.height)]

(* recordBlockImportFailure: most refusals are remembered as pending work. *)
ImportTracked(st, block) ==
    \/ ImportVerdict(st, block) \in {"conflict", "out of sequence"}
    \/ ImportVerdict(st, block) \in {"ok", "known"}

ImportFailed(st, block) ==
    LET context == ContextOf(st, block)
        action  == NewAction("block_import", block.height, context.round, block,
                             context.validator)
    IN  [st EXCEPT !.actions = recordAction(@, action)]

Import(n, block) ==
    LET next == IF Importable(mem[n], block) THEN Imported(mem[n], block)
                                             ELSE ImportFailed(mem[n], block)
    IN  /\ Importable(mem[n], block) \/ ImportTracked(mem[n], block)
        /\ UNCHANGED <<sent, acked, fetched>>
        /\ Written(n, next) \/ WriteFails(n, next)

(* handleImportBlock.                                                      *)
ReceiveBlock(n) == \E block \in sent : Import(n, block)

(* syncFromPeer, one height of its loop.                                   *)
SyncBlock(n, p) ==
    /\ Height(mem[p]) > Height(mem[n])
    /\ Import(n, mem[p].chain[Height(mem[n]) + 1])

(* derivePeerSyncState: when a peer's state is worth fetching.  A peer     *)
(* ahead is asked for its snapshot when a block of it cannot be fetched or *)
(* imported.                                                               *)
NeedsSnapshot(st, peer) ==
    \/ Height(peer) > Height(st)
    \/ /\ Height(peer) = Height(st)
       /\ \/ Height(peer) > 0 /\ Tip(peer) # Tip(st)
          \/ Len(peer.pool) > Len(st.pool)

(* The peers whose signature covers the same snapshot.                     *)
SnapshotSigners(n, snapshot) ==
    {q \in Nodes \ {n} : /\ ServableSnapshot(mem[q])
                         /\ Tip(mem[q]) = Tip(snapshot)
                         /\ mem[q].version = snapshot.version}

(* restoreSnapshotFromPeer up to the quorum check: the local height is     *)
(* compared before the proofs are collected, without the store's lock.     *)
FetchSnapshot(n, p) ==
    /\ fetched[n] = None
    /\ NeedsSnapshot(mem[n], mem[p])
    /\ ServableSnapshot(mem[p])
    /\ \E others \in SUBSET SnapshotSigners(n, mem[p]) :
          QuorumReached({p} \cup others)
    /\ fetched' = [fetched EXCEPT ![n] = mem[p]]
    /\ UNCHANGED <<mem, disk, sent, acked, faults>>

(* RestoreQuorumSnapshot and recordSnapshotRestore.                        *)
RestoreSnapshot(n) ==
    LET height   == Height(fetched[n])
        restored == RestoredState(mem[n], fetched[n])
        note     == NewAction("snapshot_sync", height, 0, Tip(fetched[n]), "")
        next     == [restored EXCEPT
                       !.actions = recordAction(completeUpTo(@, height), note)]
    IN  /\ fetched[n] # None
        /\ fetched' = [fetched EXCEPT ![n] = None]
        /\ acked' = [acked EXCEPT ![n] = NothingAcked]
        /\ UNCHANGED sent
        /\ Written(n, next) \/ WriteFails(n, next)

(* Mutant: proposals and votes are not read back.                          *)
RestartForgets(n) ==
    /\ mem' = [mem EXCEPT ![n] = [disk[n] EXCEPT !.proposals = << >>, !.votes = {}]]
    /\ fetched' = [fetched EXCEPT ![n] = None]
    /\ UNCHANGED <<disk, sent, acked, faults>>

(* The process dies and load reads the file back.                          *)
Restart(n) ==
    /\ mem' = [mem EXCEPT ![n] = disk[n]]
    /\ fetched' = [fetched EXCEPT ![n] = None]
    /\ UNCHANGED <<disk, sent, acked, faults>>

NodeStep(n) ==
    \/ \E request \in FundingRequests : Credit(n, request)
    \/ \E tx \in Transactions : Accept(n, tx)
    \/ \E at \in Times[n] : Produce(n, at)
    \/ ReceiveBlock(n)
    \/ /\ n \in Syncing
       /\ \E p \in Nodes \ {n} : SyncBlock(n, p) \/ FetchSnapshot(n, p)
    \/ RestoreSnapshot(n)

LedgerNext == \E n \in Nodes : NodeStep(n) \/ Restart(n)

LedgerSpec == LedgerInit /\ [][LedgerNext]_ledgerVars

-----------------------------------------------------------------------------
(* Properties.                                                             *)

ChainTxs(st) == UNION {Elements(st.chain[h].txs) : h \in 1..Height(st)}

(* What the funding requests and the blocks of a state make of an account. *)
ReplayedAccount(st, a) ==
    LET credits  == {r \in st.funded : r.to = a}
        outgoing == {tx \in ChainTxs(st) : tx.from = a}
        incoming == {tx \in ChainTxs(st) : tx.to = a}
    IN  [balance |-> SumAmounts(credits) + SumAmounts(incoming)
                                         - SumAmounts(outgoing),
         nonce |-> Cardinality(outgoing)]

StateConsistent(st) ==
    /\ \A a \in Addresses : st.accounts[a] = ReplayedAccount(st, a)
    /\ st.committed = ChainTxs(st)
    /\ st.committed \cap Elements(st.pool) = {}
    /\ \A h \in 1..Height(st) :
          /\ st.chain[h].height = h
          /\ st.chain[h].prev = IF h = 1 THEN NoHash ELSE st.chain[h - 1]

(* In memory and in the file, after any order of funding, production,      *)
(* imports, restores, failing writes and restarts, every account is what   *)
(* the applied funding requests and the transactions of the chain make of  *)
(* it, each counted once; the chain is linked, and nothing committed is    *)
(* still queued.                                                           *)
AccountsReplay ==
    \A n \in Nodes : StateConsistent(mem[n]) /\ StateConsistent(disk[n])

(* A credit or a submission a node has applied and acknowledged is in its  *)
(* memory and in its file until the node replaces its state by a peer's    *)
(* snapshot, whatever write fails afterwards and wherever it restarts.     *)
AckedSurvives ==
    \A n \in Nodes : \A st \in {mem[n], disk[n]} :
       /\ acked[n].funded \subseteq st.funded
       /\ acked[n].txs \subseteq Elements(st.pool) \cup st.committed

(* Production of a non-empty pool fails only because an entry of it can    *)
(* never run again, another transaction of its sender having taken its     *)
(* nonce in an imported block, or because a receiver's balance would       *)
(* overflow.                                                               *)
StuckPoolHasReason ==
    \A n \in Nodes :
       LET st   == mem[n]
           picked == Selected(st, MaxTransactionsPerBlock)
           done == Execute(st.accounts, picked)
       IN  (st.pool # << >> /\ ~ CanBuild(st, MaxTransactionsPerBlock)) =>
             LET tx == picked[done.done + 1]
             IN  \/ /\ tx.nonce <= st.accounts[tx.from].nonce
                    /\ \E rival \in st.committed :
                          /\ rival # tx
                          /\ rival.from = tx.from /\ rival.nonce = tx.nonce
                 \/ ~ AddFits(done.accounts[tx.to].balance, tx.amount)
=============================================================================
