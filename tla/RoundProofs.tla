---------------------------- MODULE RoundProofs ----------------------------
(***************************************************************************)
(* Proofs about RoundConsensus.  The inductive invariant RoundInv puts     *)
(* together what HandlerProofs says of the states of one node: memory and  *)
(* file of every node are in order, messages and snapshots on their way    *)
(* too, and what a node has acknowledged is remembered by both.            *)
(***************************************************************************)
EXTENDS HandlerProofs

AckFields == {"funded", "txs", "votes"}

BooksOK ==
    /\ DOMAIN fetched = Nodes /\ DOMAIN acked = Nodes
    /\ \A n \in Nodes : DOMAIN acked[n] = AckFields

(* Votes sent were signed, and every message is of the kind it should be.  *)
MessagesOK ==
    /\ voted \subseteq signed /\ VotesOK(signed)
    /\ \A p \in proposed : ProposalOK(p)
    /\ \A block \in sent : block.height \in Nat

(* What a node holds.                                                      *)
HolderOK(n) ==
    /\ NodeOK(mem[n], n, signed, acked[n].votes)
    /\ NodeOK(disk[n], n, signed, acked[n].votes)
    /\ fetched[n] # None => CommittedOK(fetched[n], signed)
    /\ \A v \in acked[n].votes : v \in signed /\ v.voter = n

(* The inductive invariant.                                                *)
RoundInv ==
    /\ DOMAIN mem = Nodes /\ DOMAIN disk = Nodes /\ BooksOK
    /\ MessagesOK
    /\ \A n \in Nodes : HolderOK(n)
    /\ VotesOnce

-----------------------------------------------------------------------------
(* Writes.                                                                 *)

(* What a write does to memory and file.                                   *)
LEMMA WriteEffect ==
    ASSUME DOMAIN mem = Nodes, DOMAIN disk = Nodes, NEW n \in Nodes, NEW next,
           Written(n, next) \/ WriteFails(n, next)
    PROVE  /\ DOMAIN mem' = Nodes /\ DOMAIN disk' = Nodes
           /\ \A m \in Nodes \ {n} : mem'[m] = mem[m] /\ disk'[m] = disk[m]
           /\ Written(n, next) => mem'[n] = next /\ disk'[n] = next
           /\ mem'[n] \in {mem[n], next} /\ disk'[n] \in {disk[n], next}
<1>1. CASE Written(n, next)
  BY <1>1, Zenon DEF Written
<1>2. CASE ~ Written(n, next) /\ WriteFails(n, next)
  BY <1>2, Zenon DEF WriteFails
<1> QED BY <1>1, <1>2, Zenon

(* More votes may be signed.                                               *)
LEMMA NodeGrow ==
    ASSUME NEW st, NEW n, NEW S, NEW A, NodeOK(st, n, S, A), NEW T, S \subseteq T,
           NEW B, Remembers(st, B)
    PROVE  NodeOK(st, n, T, B)
BY RecordsGrow, Zenon DEF NodeOK

(* A handler that writes a state in order.                                 *)
LEMMA RoundWrite ==
    ASSUME RoundInv, NEW n \in Nodes, NEW next, Written(n, next) \/ WriteFails(n, next),
           BooksOK', MessagesOK', VotesOnce', signed \subseteq signed',
           NodeOK(next, n, signed', acked'[n].votes),
           \/ Written(n, next)
           \/ Remembers(mem[n], acked'[n].votes) /\ Remembers(disk[n], acked'[n].votes),
           \A m \in Nodes \ {n} : acked'[m].votes = acked[m].votes,
           \A m \in Nodes : fetched'[m] \in {fetched[m], None},
           \A v \in acked'[n].votes : v \in signed' /\ v.voter = n
    PROVE  RoundInv'
<1>1. DOMAIN mem = Nodes /\ DOMAIN disk = Nodes
  BY Zenon DEF RoundInv
<1>2. /\ DOMAIN mem' = Nodes /\ DOMAIN disk' = Nodes
      /\ \A m \in Nodes \ {n} : mem'[m] = mem[m] /\ disk'[m] = disk[m]
      /\ Written(n, next) => mem'[n] = next /\ disk'[n] = next
      /\ mem'[n] \in {mem[n], next} /\ disk'[n] \in {disk[n], next}
  BY <1>1, WriteEffect, Zenon
<1>3. ASSUME NEW m \in Nodes PROVE HolderOK(m)'
  <2>1. /\ NodeOK(mem[m], m, signed, acked[m].votes) /\ NodeOK(disk[m], m, signed, acked[m].votes)
        /\ fetched[m] # None => CommittedOK(fetched[m], signed)
        /\ \A v \in acked[m].votes : v \in signed /\ v.voter = m
    BY Zenon DEF RoundInv, HolderOK
  <2>2. fetched'[m] # None => CommittedOK(fetched'[m], signed')
    BY <2>1, RecordsGrow, Zenon
  <2>3. \A v \in acked'[m].votes : v \in signed' /\ v.voter = m
    BY <2>1, Zenon
  <2>4. NodeOK(mem'[m], m, signed', acked'[m].votes) /\ NodeOK(disk'[m], m, signed', acked'[m].votes)
    <3>1. ASSUME Remembers(mem[m], acked'[m].votes), Remembers(disk[m], acked'[m].votes)
          PROVE  NodeOK(mem[m], m, signed', acked'[m].votes) /\ NodeOK(disk[m], m, signed', acked'[m].votes)
      BY <2>1, <3>1, NodeGrow, Zenon
    <3>2. CASE m # n
      <4>1. mem'[m] = mem[m] /\ disk'[m] = disk[m] /\ acked'[m].votes = acked[m].votes
        BY <1>2, <3>2, Zenon
      <4>2. Remembers(mem[m], acked'[m].votes) /\ Remembers(disk[m], acked'[m].votes)
        BY <2>1, <4>1, Zenon DEF NodeOK
      <4> QED BY <3>1, <4>1, <4>2, Zenon
    <3>3. CASE m = n /\ Written(n, next)
      BY <1>2, <3>3, Zenon
    <3>4. CASE m = n /\ ~ Written(n, next)
      BY <1>2, <3>1, <3>4, Zenon
    <3> QED BY <3>2, <3>3, <3>4, Zenon
  <2> QED BY <2>2, <2>3, <2>4, Zenon DEF HolderOK
<1> QED BY <1>2, <1>3, Zenon DEF RoundInv

(* The acknowledged votes are the same.                                    *)
AckKept ==
    /\ DOMAIN acked' = Nodes
    /\ \A m \in Nodes : DOMAIN acked'[m] = AckFields /\ acked'[m].votes = acked[m].votes

(* The same where no vote of the node's own is written.                    *)
LEMMA QuietRoundWrite ==
    ASSUME RoundInv, NEW n \in Nodes, NEW next, Written(n, next) \/ WriteFails(n, next),
           MessagesOK', AckKept, signed' = signed, fetched' = fetched,
           NodeOK(next, n, signed, acked[n].votes)
    PROVE  RoundInv'
<1>1. HolderOK(n) /\ BooksOK /\ VotesOnce
  BY Zenon DEF RoundInv
<1>2. \A m \in Nodes : acked'[m].votes = acked[m].votes
  BY Zenon DEF AckKept
<1>3. BooksOK'
  BY <1>1, Zenon DEF BooksOK, AckKept
<1>4. VotesOnce'
  BY <1>1, <1>2, Zenon DEF VotesOnce
<1>5. /\ Remembers(mem[n], acked'[n].votes) /\ Remembers(disk[n], acked'[n].votes)
      /\ \A v \in acked'[n].votes : v \in signed' /\ v.voter = n
  BY <1>1, <1>2, Zenon DEF HolderOK, NodeOK
<1>6. NodeOK(next, n, signed', acked'[n].votes) /\ signed \subseteq signed'
  BY <1>2, Zenon
<1> QED BY <1>2, <1>3, <1>4, <1>5, <1>6, RoundWrite, Zenon

(* No message is sent, nothing acknowledged.                               *)
Silent ==
    /\ sent' = sent /\ acked' = acked /\ fetched' = fetched
    /\ proposed' = proposed /\ signed' = signed /\ voted' = voted

(* A write and nothing else.                                               *)
LEMMA SilentWrite ==
    ASSUME RoundInv, NEW n \in Nodes, NEW next, Written(n, next) \/ WriteFails(n, next), Silent,
           NodeOK(next, n, signed, acked[n].votes)
    PROVE  RoundInv'
<1>1. MessagesOK /\ BooksOK
  BY Zenon DEF RoundInv
<1>2. MessagesOK'
  BY <1>1, Zenon DEF MessagesOK, Silent
<1>3. AckKept /\ signed' = signed /\ fetched' = fetched
  BY <1>1, Zenon DEF AckKept, BooksOK, Silent
<1> QED BY <1>2, <1>3, QuietRoundWrite, Zenon

(* No node's state changes.                                                *)
LEMMA NoWrite ==
    ASSUME RoundInv, mem' = mem, disk' = disk, acked' = acked, fetched' = fetched,
           signed' = signed, MessagesOK'
    PROVE  RoundInv'
<1>1. \A n \in Nodes : HolderOK(n)'
  BY Zenon DEF RoundInv, HolderOK
<1>2. VotesOnce' /\ BooksOK'
  BY Zenon DEF RoundInv, VotesOnce, BooksOK
<1> QED BY <1>1, <1>2, Zenon DEF RoundInv

(* What the invariant says of one node.                                    *)
LEMMA NodeFacts ==
    ASSUME RoundInv, NEW n \in Nodes
    PROVE  /\ NodeOK(mem[n], n, signed, acked[n].votes) /\ VotesOK(signed)
           /\ RecordsOK(mem[n], signed) /\ CommittedOK(mem[n], signed)
           /\ DOMAIN mem[n] = StateFields /\ Height(mem[n]) \in Nat
           /\ mem[n].round \in Nat /\ acked[n].votes \subseteq signed
<1>1. HolderOK(n) /\ VotesOK(signed)
  BY Zenon DEF RoundInv, MessagesOK
<1>2. NodeOK(mem[n], n, signed, acked[n].votes) /\ acked[n].votes \subseteq signed
  BY <1>1, Zenon DEF HolderOK
<1>3. /\ RecordsOK(mem[n], signed) /\ CommittedOK(mem[n], signed)
      /\ DOMAIN mem[n] = StateFields /\ mem[n].round \in Nat
  BY <1>2, Zenon DEF NodeOK, RecordsOK, CommittedOK
<1>4. Height(mem[n]) \in Nat
  BY <1>3, HeightNat, Zenon
<1> QED BY <1>1, <1>2, <1>3, <1>4, Zenon

-----------------------------------------------------------------------------
(* The handlers of the ledger.                                             *)

(* handleFaucet leaves the records alone.                                  *)
LEMMA CreditRound ==
    ASSUME RoundInv, NEW n \in Nodes, NEW request \in FundingRequests, Credit(n, request),
           proposed' = proposed, signed' = signed, voted' = voted
    PROVE  RoundInv'
<1> DEFINE st == mem[n]
           accounts == [st.accounts EXCEPT ![request.to].balance = @ + request.amount]
           next == [st EXCEPT !.accounts = accounts, !.funded = @ \cup {request}]
<1>1. NodeOK(st, n, signed, acked[n].votes) /\ DOMAIN st = StateFields /\ VotesOK(signed)
  BY NodeFacts, Zenon
<1>2. /\ fetched' = fetched /\ sent' = sent
      /\ Written(n, next) \/ WriteFails(n, next)
      /\ acked' = acked \/ acked' = [acked EXCEPT ![n].funded = @ \cup {request}]
  BY Zenon DEF Credit
<1> HIDE DEF accounts
<1>3. SameRecords(next, st) /\ next.round = st.round /\ next.actions = st.actions
  BY <1>1, Zenon DEF StateFields, SameRecords
<1> HIDE DEF next
<1>4. NodeOK(next, n, signed, acked[n].votes)
  BY <1>1, <1>3, NodeSame, Zenon
<1>5. BooksOK /\ MessagesOK
  BY Zenon DEF RoundInv
<1>6. AckKept
  BY <1>2, <1>5, Zenon DEF AckKept, BooksOK, AckFields
<1>7. MessagesOK'
  BY <1>2, <1>5, Zenon DEF MessagesOK
<1> QED BY <1>2, <1>4, <1>6, <1>7, QuietRoundWrite, Zenon

(* handleBroadcastTransaction leaves the records alone.                    *)
LEMMA AcceptRound ==
    ASSUME RoundInv, NEW n \in Nodes, NEW tx \in Transactions, Accept(n, tx),
           proposed' = proposed, signed' = signed, voted' = voted
    PROVE  RoundInv'
<1> DEFINE st == mem[n]
           next == [st EXCEPT !.pool = Append(@, tx)]
<1>1. NodeOK(st, n, signed, acked[n].votes) /\ DOMAIN st = StateFields /\ VotesOK(signed)
  BY NodeFacts, Zenon
<1>2. /\ fetched' = fetched /\ sent' = sent
      /\ Written(n, next) \/ WriteFails(n, next)
      /\ acked' = acked \/ acked' = [acked EXCEPT ![n].txs = @ \cup {tx}]
  BY Zenon DEF Accept
<1>3. SameRecords(next, st) /\ next.round = st.round /\ next.actions = st.actions
  BY <1>1, Zenon DEF StateFields, SameRecords
<1> HIDE DEF next
<1>4. NodeOK(next, n, signed, acked[n].votes)
  BY <1>1, <1>3, NodeSame, Zenon
<1>5. BooksOK /\ MessagesOK
  BY Zenon DEF RoundInv
<1>6. AckKept
  BY <1>2, <1>5 DEF AckKept, BooksOK, AckFields
<1>7. MessagesOK'
  BY <1>2, <1>5, Zenon DEF MessagesOK
<1> QED BY <1>2, <1>4, <1>6, <1>7, QuietRoundWrite, Zenon

(* produceLocalBlock, where no certificates are required.                  *)
LEMMA ProduceRound ==
    ASSUME RoundInv, NEW n \in Nodes, NEW at, Produce(n, at),
           proposed' = proposed, signed' = signed, voted' = voted
    PROVE  RoundInv'
<1> DEFINE st == mem[n]
           block == BuildBlock(st, MaxTransactionsPerBlock, at)
           actions == completeUpTo(st.actions, block.height)
           next == WithLog(AppendBlock(st, block), actions)
<1>1. /\ NodeOK(st, n, signed, acked[n].votes) /\ DOMAIN st = StateFields /\ VotesOK(signed)
      /\ acked[n].votes \subseteq signed /\ Height(st) \in Nat
  BY NodeFacts, Zenon
<1>2. RecordsOK(st, signed) /\ Remembers(st, acked[n].votes) /\ LogOK(st.actions)
  BY <1>1, Zenon DEF NodeOK, Logged, PendingAbove
<1>3. block.height = Height(st) + 1 /\ block.height \in Nat
  BY <1>1 DEF BuildBlock, BlockOf
<1>4. AppendBlock(st, block).actions = st.actions
  BY <1>1, AppendBlockFields, Zenon
<1>5. /\ ~ RequireCertificates /\ acked' = acked /\ fetched' = fetched
      /\ Written(n, next) \/ WriteFails(n, next)
      /\ sent' \subseteq sent \cup {block}
  BY <1>4, Zenon DEF Produce, WithLog
<1> HIDE DEF block
<1>6. PendingAbove(actions, Height(st) + 1) /\ Admitted(block, signed)
  BY <1>2, <1>3, <1>5, CompletedLog, Zenon DEF Admitted
<1> HIDE DEF actions
<1>7. NodeOK(next, n, signed, acked[n].votes)
  BY <1>1, <1>2, <1>3, <1>6, NodeAppends, Zenon
<1> HIDE DEF next
<1>8. BooksOK /\ MessagesOK
  BY Zenon DEF RoundInv
<1>9. AckKept
  BY <1>5, <1>8, Zenon DEF AckKept, BooksOK
<1>10. MessagesOK'
  BY <1>3, <1>5, <1>8, Zenon DEF MessagesOK
<1> QED BY <1>5, <1>7, <1>9, <1>10, QuietRoundWrite, Zenon

(* ImportBlockWithOptions.                                                 *)
LEMMA ImportRound ==
    ASSUME RoundInv, NEW n \in Nodes, NEW block, block.height \in Nat, Import(n, block),
           proposed' = proposed, signed' = signed, voted' = voted
    PROVE  RoundInv'
<1> DEFINE st == mem[n]
           next == IF Importable(st, block) THEN Imported(st, block) ELSE ImportFailed(st, block)
<1>1. /\ NodeOK(st, n, signed, acked[n].votes) /\ VotesOK(signed) /\ acked[n].votes \subseteq signed
  BY NodeFacts, Zenon
<1>2. Silent /\ (Written(n, next) \/ WriteFails(n, next))
  BY Zenon DEF Import, Silent
<1>3. /\ Importable(st, block) => NodeOK(Imported(st, block), n, signed, acked[n].votes)
      /\ NodeOK(ImportFailed(st, block), n, signed, acked[n].votes)
  BY <1>1, NodeDecides, Zenon
<1>4. NodeOK(next, n, signed, acked[n].votes)
  BY <1>3, Zenon
<1> HIDE DEF next
<1> QED BY <1>2, <1>4, SilentWrite, Zenon

(* A block of a peer's chain has its height.                               *)
LEMMA PeerBlock ==
    ASSUME RoundInv, NEW n \in Nodes, NEW q \in Nodes, Height(mem[q]) > Height(mem[n])
    PROVE  mem[q].chain[Height(mem[n]) + 1].height \in Nat
<1>1. Height(mem[n]) \in Nat /\ Height(mem[q]) \in Nat /\ CommittedOK(mem[q], signed)
  BY NodeFacts, Zenon
<1>2. Height(mem[n]) + 1 \in 1..Height(mem[q]) /\ Height(mem[n]) + 1 \in Nat
  BY <1>1
<1> QED BY <1>1, <1>2, Zenon DEF CommittedOK

(* A snapshot has a chain of certified blocks.                             *)
LEMMA FetchRound ==
    ASSUME RoundInv, NEW n \in Nodes, NEW q \in Nodes, FetchSnapshot(n, q),
           proposed' = proposed, signed' = signed, voted' = voted
    PROVE  RoundInv'
<1>1. /\ mem' = mem /\ disk' = disk /\ acked' = acked /\ sent' = sent
      /\ fetched' = [fetched EXCEPT ![n] = mem[q]]
  BY Zenon DEF FetchSnapshot
<1>2. CommittedOK(mem[q], signed)
  BY NodeFacts, Zenon
<1>3. BooksOK /\ MessagesOK /\ VotesOnce
  BY Zenon DEF RoundInv
<1>4. BooksOK' /\ \A m \in Nodes : fetched'[m] \in {fetched[m], mem[q]}
  BY <1>1, <1>3, Zenon DEF BooksOK
<1>5. \A m \in Nodes : HolderOK(m)'
  BY <1>1, <1>2, <1>4, Zenon DEF RoundInv, HolderOK
<1>6. MessagesOK' /\ VotesOnce'
  BY <1>1, <1>3, Zenon DEF MessagesOK, VotesOnce
<1> QED BY <1>1, <1>4, <1>5, <1>6, Zenon DEF RoundInv

(* RestoreQuorumSnapshot drops the records with what was acknowledged.     *)
LEMMA RestoreRound ==
    ASSUME RoundInv, NEW n \in Nodes, RestoreSnapshot(n),
           proposed' = proposed, signed' = signed, voted' = voted
    PROVE  RoundInv'
<1> DEFINE snapshot == fetched[n]
           next == SnapshotState(mem[n], snapshot, Tip(snapshot), "")
<1>1. /\ snapshot # None /\ sent' = sent
      /\ fetched' = [fetched EXCEPT ![n] = None] /\ acked' = [acked EXCEPT ![n] = NothingAcked]
      /\ Written(n, next) \/ WriteFails(n, next)
  BY Zenon DEF RestoreSnapshot, SnapshotState
<1>2. HolderOK(n) /\ BooksOK /\ MessagesOK /\ VotesOnce
  BY Zenon DEF RoundInv
<1>3. CommittedOK(snapshot, signed) /\ LogOK(mem[n].actions)
  BY <1>1, <1>2, Zenon DEF HolderOK, NodeOK, Logged, PendingAbove
<1>4. NodeOK(next, n, signed, {})
  <2>1. \A b, v : NodeOK(SnapshotState(mem[n], snapshot, b, v), n, signed, {})
    BY <1>3, NodeRestores, Zenon
  <2> QED BY <2>1, Zenon
<1> HIDE DEF next
<1>5. /\ BooksOK' /\ acked'[n].votes = {}
      /\ \A m \in Nodes \ {n} : acked'[m] = acked[m]
      /\ \A m \in Nodes : fetched'[m] \in {fetched[m], None}
  BY <1>1, <1>2, Zenon DEF BooksOK, NothingAcked, AckFields
<1>6. MessagesOK'
  BY <1>1, <1>2, Zenon DEF MessagesOK
<1>7. VotesOnce'
  BY <1>2, <1>5, Zenon DEF VotesOnce
<1>8. Remembers(mem[n], {}) /\ Remembers(disk[n], {})
  BY Zenon DEF Remembers
<1> QED BY <1>1, <1>4, <1>5, <1>6, <1>7, <1>8, RoundWrite, Zenon

(* load reads records back that are in order.                              *)
LEMMA RestartRound ==
    ASSUME RoundInv, NEW n \in Nodes, Restart(n),
           proposed' = proposed, signed' = signed, voted' = voted
    PROVE  RoundInv'
<1>1. /\ mem' = [mem EXCEPT ![n] = disk[n]] /\ fetched' = [fetched EXCEPT ![n] = None]
      /\ disk' = disk /\ acked' = acked /\ sent' = sent
  BY Zenon DEF Restart
<1>2. DOMAIN mem = Nodes /\ BooksOK /\ MessagesOK /\ VotesOnce
  BY Zenon DEF RoundInv
<1>3. /\ DOMAIN mem' = Nodes /\ BooksOK'
      /\ \A m \in Nodes : mem'[m] \in {mem[m], disk[m]} /\ fetched'[m] \in {fetched[m], None}
  BY <1>1, <1>2, Zenon DEF BooksOK
<1>4. \A m \in Nodes : HolderOK(m)'
  BY <1>1, <1>3 DEF RoundInv, HolderOK
<1>5. MessagesOK' /\ VotesOnce'
  BY <1>1, <1>2, Zenon DEF MessagesOK, VotesOnce
<1> QED BY <1>1, <1>3, <1>4, <1>5, Zenon DEF RoundInv

(* The handlers of the ledger, with the consensus records.                 *)
LEMMA NodeStepRound ==
    ASSUME RoundInv, NEW n \in Nodes, NodeStep(n),
           proposed' = proposed, signed' = signed, voted' = voted
    PROVE  RoundInv'
<1>1. ASSUME NEW request \in FundingRequests, Credit(n, request) PROVE RoundInv'
  BY <1>1, CreditRound, Zenon
<1>2. ASSUME NEW tx \in Transactions, Accept(n, tx) PROVE RoundInv'
  BY <1>2, AcceptRound, Zenon
<1>3. ASSUME NEW at \in Times[n], Produce(n, at) PROVE RoundInv'
  BY <1>3, ProduceRound, Zenon
<1>4. CASE ReceiveBlock(n)
  <2>1. PICK block \in sent : Import(n, block)
    BY <1>4, Zenon DEF ReceiveBlock
  <2>2. block.height \in Nat
    BY Zenon DEF RoundInv, MessagesOK
  <2> QED BY <2>1, <2>2, ImportRound, Zenon
<1>5. ASSUME NEW q \in Nodes, SyncBlock(n, q) PROVE RoundInv'
  <2> DEFINE block == mem[q].chain[Height(mem[n]) + 1]
  <2>1. Height(mem[q]) > Height(mem[n]) /\ Import(n, block)
    BY <1>5, Zenon DEF SyncBlock
  <2>2. block.height \in Nat
    BY <2>1, PeerBlock, Zenon
  <2> HIDE DEF block
  <2> QED BY <2>1, <2>2, ImportRound, Zenon
<1>6. ASSUME NEW q \in Nodes, FetchSnapshot(n, q) PROVE RoundInv'
  BY <1>6, FetchRound, Zenon
<1>7. CASE RestoreSnapshot(n)
  BY <1>7, RestoreRound, Zenon
<1> QED BY <1>1, <1>2, <1>3, <1>4, <1>5, <1>6, <1>7, Zenon DEF NodeStep

-----------------------------------------------------------------------------
(* The automation, the peers and elections.                                *)

(* EnsureRoundStarted changes no record.                                   *)
LEMMA EnsureRound ==
    ASSUME RoundInv, NEW n \in Nodes, EnsureRoundStarted(n), signed' = signed
    PROVE  RoundInv'
<1> DEFINE st == mem[n]
           next == [st EXCEPT !.started = TRUE]
<1>1. NodeOK(st, n, signed, acked[n].votes) /\ DOMAIN st = StateFields /\ VotesOK(signed)
  BY NodeFacts, Zenon
<1>2. Silent /\ (Written(n, next) \/ WriteFails(n, next))
  BY Zenon DEF EnsureRoundStarted, quiet, Silent
<1>3. SameRecords(next, st) /\ next.round = st.round /\ next.actions = st.actions
  BY <1>1, Zenon DEF StateFields, SameRecords
<1> HIDE DEF next
<1>4. NodeOK(next, n, signed, acked[n].votes)
  BY <1>1, <1>3, NodeSame, Zenon
<1> QED BY <1>2, <1>4, SilentWrite, Zenon

(* AdvanceRound: the round grows.                                          *)
LEMMA AdvanceRoundStep ==
    ASSUME RoundInv, NEW n \in Nodes, AdvanceRound(n), signed' = signed
    PROVE  RoundInv'
<1> DEFINE st == mem[n]
           round == st.round + 1
           h == NextHeight(n)
           actions == recordAction(st.actions, NewAction("round_advance", h, round, NoHash, n))
           next == WithLog(alignRound(st, round), actions)
<1>1. /\ NodeOK(st, n, signed, acked[n].votes) /\ DOMAIN st = StateFields /\ VotesOK(signed)
      /\ st.round \in Nat /\ Height(st) \in Nat
  BY NodeFacts, Zenon
<1>2. round \in Nat /\ st.round <= round /\ h \in Nat
  BY <1>1 DEF NextHeight
<1>3. alignRound(st, round).actions = st.actions
  BY <1>1, Zenon DEF alignRound, StateFields
<1>4. Silent /\ (Written(n, next) \/ WriteFails(n, next))
  BY <1>3, Zenon DEF AdvanceRound, quiet, Silent, WithLog
<1> HIDE DEF round, h
<1>5. SameRecords(next, st) /\ next.round = round /\ next.actions = actions
  <2> HIDE DEF actions
  <2> QED BY <1>1, Zenon DEF StateFields, alignRound, SameRecords, WithLog
<1> HIDE DEF next
<1>6. NodeOK(next, n, signed, acked[n].votes)
  BY <1>1, <1>2, <1>5, NodeNotes, Zenon
<1> QED BY <1>4, <1>6, SilentWrite, Zenon

(* What a node proposes is a block of the next height.                     *)
LEMMA CandidatesOK ==
    ASSUME RoundInv, NEW n \in Nodes, NEW block \in Candidates(n)
    PROVE  block.height = NextHeight(n)
<1> DEFINE st == mem[n]
           all == proposalsForHeight(st, NextHeight(n))
<1>1. RecordsOK(st, signed) /\ IsSeq(st.proposals)
  BY NodeFacts, Zenon DEF RecordsOK
<1>2. IsSeq(all) /\ Elements(all) = {q \in Elements(st.proposals) : q.height = NextHeight(n)}
  BY <1>1, OnlyFacts DEF proposalsForHeight
<1>3. \/ all # << >> /\ block = all[Len(all)].block
      \/ \E at \in Times[n] : block = BuildBlock(st, MaxTransactionsPerBlock, at)
  BY Zenon DEF Candidates
<1> HIDE DEF all
<1>4. CASE all # << >> /\ block = all[Len(all)].block
  <2>1. Len(all) \in 1..Len(all)
    BY <1>2, <1>4 DEF IsSeq
  <2>2. all[Len(all)] \in Elements(all)
    BY <2>1, Zenon DEF Elements
  <2> QED BY <1>1, <1>2, <1>4, <2>2, Zenon DEF RecordsOK, ProposalOK
<1>5. CASE \E at \in Times[n] : block = BuildBlock(st, MaxTransactionsPerBlock, at)
  BY <1>5 DEF NextHeight, BuildBlock, BlockOf
<1> QED BY <1>3, <1>4, <1>5, Zenon

(* The proposal of a node at its round.                                    *)
Proposal(n, block) ==
    [height |-> NextHeight(n), round |-> mem[n].round, proposer |-> n, block |-> block]

(* What Propose does, once the block is known.                             *)
ProposeBlock(n, p) ==
    /\ ProposalAccepted(mem[n], p)
    /\ Written(n, ProposedState(mem[n], p, n)) \/ WriteFails(n, ProposedState(mem[n], p, n))
    /\ proposed' \subseteq proposed \cup {p}

(* Propose is one of these.                                                *)
LEMMA ProposeChoice ==
    ASSUME NEW n \in Nodes, Propose(n)
    PROVE  \E block \in Candidates(n) : ProposeBlock(n, Proposal(n, block))
<1> DEFINE msg(block) == [height |-> NextHeight(n), round |-> mem[n].round, proposer |-> n, block |-> block]
           next(block) == [recordProposal(mem[n], msg(block)) EXCEPT
                             !.actions = recordAction(@, NewAction("proposal", msg(block).height,
                                            msg(block).round, block, n))]
<1>1. PICK block \in Candidates(n) :
         /\ ProposalAccepted(mem[n], msg(block))
         /\ \/ Written(n, next(block)) /\ proposed' = proposed \cup {msg(block)}
            \/ WriteFails(n, next(block)) /\ UNCHANGED proposed
  BY Zenon DEF Propose
<1>2. Proposal(n, block) = msg(block) /\ msg(block).block = block
  BY Zenon DEF Proposal
<1>3. ProposedState(mem[n], msg(block), n) = next(block)
  BY <1>2, Zenon DEF ProposedState
<1> HIDE DEF next, msg
<1> QED BY <1>1, <1>2, <1>3, Zenon DEF ProposeBlock

(* maybeAutomateProposal.                                                  *)
LEMMA ProposeRound ==
    ASSUME RoundInv, NEW n \in Nodes, Propose(n), signed' = signed
    PROVE  RoundInv'
<1> DEFINE st == mem[n]
<1>1. /\ NodeOK(st, n, signed, acked[n].votes) /\ VotesOK(signed)
      /\ st.round \in Nat /\ Height(st) \in Nat
  BY NodeFacts, Zenon
<1>2. PICK block \in Candidates(n) : ProposeBlock(n, Proposal(n, block))
  BY ProposeChoice, Zenon
<1>3. /\ sent' = sent /\ acked' = acked /\ fetched' = fetched /\ voted' = voted
      /\ ~ HasProposalAt(st, NextHeight(n), st.round)
  BY Zenon DEF Propose, quiet
<1> DEFINE p == Proposal(n, block)
<1>4. p.height = NextHeight(n) /\ p.round = st.round /\ p.block = block /\ p.proposer = n
  BY Zenon DEF Proposal
<1> HIDE DEF p
<1>5. block.height = NextHeight(n)
  BY CandidatesOK, Zenon
<1>6. ProposalOK(p)
  BY <1>1, <1>4, <1>5 DEF ProposalOK, NextHeight
<1>7. p \notin Elements(st.proposals)
  BY <1>3, <1>4, Zenon DEF HasProposalAt, ProposalsAt
<1>8. /\ ProposalAccepted(st, p) /\ proposed' \subseteq proposed \cup {p}
      /\ Written(n, ProposedState(mem[n], p, n)) \/ WriteFails(n, ProposedState(mem[n], p, n))
  BY <1>2, Zenon DEF ProposeBlock, p
<1>9. NodeOK(ProposedState(mem[n], p, n), n, signed, acked[n].votes)
  BY <1>1, <1>6, <1>7, <1>8, NodeProposes, Zenon
<1>10. BooksOK /\ MessagesOK
  BY Zenon DEF RoundInv
<1>11. AckKept
  BY <1>3, <1>10, Zenon DEF AckKept, BooksOK
<1>12. MessagesOK'
  BY <1>3, <1>6, <1>8, <1>10, Zenon DEF MessagesOK
<1> QED BY <1>3, <1>8, <1>9, <1>11, <1>12, QuietRoundWrite, Zenon

(* handleConsensusProposal.                                                *)
LEMMA ReceiveProposalRound ==
    ASSUME RoundInv, NEW n \in Nodes, ReceiveProposal(n), signed' = signed
    PROVE  RoundInv'
<1>1. NodeOK(mem[n], n, signed, acked[n].votes) /\ VotesOK(signed)
  BY NodeFacts, Zenon
<1>2. PICK p \in {q \in proposed : q.proposer # n} :
         /\ ProposalAccepted(mem[n], p)
         /\ Written(n, recordProposal(mem[n], p)) \/ WriteFails(n, recordProposal(mem[n], p))
  BY Zenon DEF ReceiveProposal
<1>3. Silent
  BY Zenon DEF ReceiveProposal, quiet, Silent
<1>4. ProposalOK(p) /\ p.proposer # n
  BY Zenon DEF RoundInv, MessagesOK
<1>5. NodeOK(recordProposal(mem[n], p), n, signed, acked[n].votes)
  BY <1>1, <1>2, <1>4, NodeHearsProposal, Zenon
<1> QED BY <1>2, <1>3, <1>5, SilentWrite, Zenon

(* handleConsensusVote.                                                    *)
LEMMA ReceiveVoteRound ==
    ASSUME RoundInv, NEW n \in Nodes, ReceiveVote(n), signed' = signed
    PROVE  RoundInv'
<1>1. NodeOK(mem[n], n, signed, acked[n].votes) /\ VotesOK(signed)
  BY NodeFacts, Zenon
<1>2. PICK v \in {w \in voted : w.voter # n} :
         /\ VoteAccepted(mem[n], v)
         /\ Written(n, recordVote(mem[n], v)) \/ WriteFails(n, recordVote(mem[n], v))
  BY Zenon DEF ReceiveVote
<1>3. Silent
  BY Zenon DEF ReceiveVote, quiet, Silent
<1>4. v \in signed /\ v.voter # n
  BY Zenon DEF RoundInv, MessagesOK
<1>5. NodeOK(recordVote(mem[n], v), n, signed, acked[n].votes)
  BY <1>1, <1>2, <1>4, NodeHearsVote, Zenon
<1> QED BY <1>2, <1>3, <1>5, SilentWrite, Zenon

(* What Vote does, once the vote is known.                                 *)
CastVote(n, v) ==
    /\ VoteAccepted(mem[n], v) /\ OwnVote(mem[n], n, v) /\ signed' = signed \cup {v}
    /\ \/ /\ Written(n, VotedState(mem[n], v, n)) /\ voted' = voted \cup {v}
          /\ acked' = [acked EXCEPT ![n].votes = @ \cup {v}]
       \/ WriteFails(n, VotedState(mem[n], v, n)) /\ voted' = voted /\ acked' = acked

(* Vote casts one of the node's own.                                       *)
LEMMA VoteChoice ==
    ASSUME NEW n \in Nodes, Vote(n)
    PROVE  \E v : CastVote(n, v)
<1> DEFINE st == mem[n]
           h == NextHeight(n)
           p == ProposalAt(st, h, st.round)
           v == [height |-> p.height, round |-> p.round, block |-> p.block, voter |-> n]
           next == [recordVote(st, v) EXCEPT
                      !.actions = recordAction(@, NewAction("vote", v.height, v.round, v.block, n))]
<1>1. /\ HasProposalAt(st, h, st.round) /\ ~ HasVote(st, h, st.round, n)
      /\ VoteAccepted(st, v) /\ signed' = signed \cup {v}
      /\ \/ /\ Written(n, next) /\ voted' = voted \cup {v}
            /\ acked' = [acked EXCEPT ![n].votes = @ \cup {v}]
         \/ WriteFails(n, next) /\ voted' = voted /\ acked' = acked
  BY Zenon DEF Vote
<1>2. next = VotedState(mem[n], v, n)
  BY Zenon DEF VotedState
<1> HIDE DEF next
<1>3. p \in Elements(st.proposals) /\ p.height = h /\ p.round = st.round
  <2>1. p \in ProposalsAt(st, h, st.round)
    BY <1>1, Zenon DEF ProposalAt, HasProposalAt
  <2> QED BY <2>1, Zenon DEF ProposalsAt
<1>4. v.height = p.height /\ v.round = p.round /\ v.block = p.block /\ v.voter = n
  BY Zenon
<1> HIDE DEF v, p
<1>5. OwnVote(st, n, v)
  BY <1>1, <1>3, <1>4, Zenon DEF OwnVote, NextHeight
<1>6. CastVote(n, v)
  BY <1>1, <1>2, <1>5, Zenon DEF CastVote
<1> QED BY <1>6, Zenon

(* The votes a node has written stay one per height, round and set.        *)
LEMMA VoteOnce ==
    ASSUME RoundInv, NEW n \in Nodes, NEW v, OwnVote(mem[n], n, v),
           \A m \in Nodes \ {n} : acked'[m].votes = acked[m].votes,
           acked'[n].votes = acked[n].votes \cup {v}
    PROVE  VotesOnce'
<1>1. HolderOK(n) /\ VotesOnce
  BY Zenon DEF RoundInv
<1>2. /\ RecordsOK(mem[n], signed) /\ Remembers(mem[n], acked[n].votes)
      /\ \A w \in acked[n].votes : w.voter = n
  BY <1>1, Zenon DEF HolderOK, NodeOK
<1>3. \A w \in acked[n].votes : ~(/\ w.height = v.height /\ w.round = v.round
                                  /\ w.block.root.version = v.block.root.version)
  BY <1>2, OwnVoteNew
<1> SUFFICES ASSUME NEW m \in Nodes, NEW x \in acked'[m].votes, NEW y \in acked'[m].votes,
                    x.height = y.height, x.round = y.round,
                    x.block.root.version = y.block.root.version
             PROVE  x = y
  BY Zenon DEF VotesOnce
<1>4. CASE m # n
  BY <1>1, <1>4, Zenon DEF VotesOnce
<1>5. CASE m = n
  BY <1>1, <1>3, <1>5, Zenon DEF VotesOnce
<1> QED BY <1>4, <1>5, Zenon

(* maybeAutomateVote.                                                      *)
LEMMA VoteRound ==
    ASSUME RoundInv, NEW n \in Nodes, Vote(n)
    PROVE  RoundInv'
<1> DEFINE A == acked[n].votes
<1>1. PICK v : CastVote(n, v)
  BY VoteChoice, Zenon
<1> DEFINE next == VotedState(mem[n], v, n)
<1>2. /\ VoteAccepted(mem[n], v) /\ OwnVote(mem[n], n, v) /\ signed' = signed \cup {v}
      /\ Written(n, next) \/ WriteFails(n, next)
      /\ \/ /\ Written(n, next) /\ voted' = voted \cup {v}
            /\ acked' = [acked EXCEPT ![n].votes = @ \cup {v}]
         \/ voted' = voted /\ acked' = acked
  BY <1>1, Zenon DEF CastVote
<1>3. sent' = sent /\ fetched' = fetched /\ proposed' = proposed
  BY Zenon DEF Vote
<1>4. HolderOK(n) /\ BooksOK /\ MessagesOK /\ VotesOnce
  BY Zenon DEF RoundInv
<1>5. /\ NodeOK(mem[n], n, signed, A) /\ Remembers(mem[n], A) /\ Remembers(disk[n], A)
      /\ \A w \in A : w \in signed /\ w.voter = n
  BY <1>4, Zenon DEF HolderOK, NodeOK
<1>6. VoteOK(v) /\ v.voter = n
  BY <1>2, <1>5, OwnVoteNew, Zenon DEF NodeOK, OwnVote
<1>7. VotesOK(signed') /\ signed \subseteq signed' /\ v \in signed'
  BY <1>2, <1>4, <1>6, Zenon DEF MessagesOK, VotesOK
<1>8. MessagesOK'
  BY <1>2, <1>3, <1>4, <1>7 DEF MessagesOK
<1>9. NodeOK(mem[n], n, signed', A)
  BY <1>5, <1>7, NodeGrow, Zenon
<1>10. NodeOK(next, n, signed', A) /\ NodeOK(next, n, signed', A \cup {v})
  BY <1>2, <1>7, <1>9, NodeVotes, Zenon
<1> HIDE DEF next
<1>11. CASE /\ Written(n, next) /\ acked' = [acked EXCEPT ![n].votes = @ \cup {v}]
  <2>1. /\ BooksOK' /\ acked'[n].votes = A \cup {v}
        /\ \A m \in Nodes \ {n} : acked'[m].votes = acked[m].votes
    BY <1>3, <1>4, <1>11, Zenon DEF BooksOK, AckFields
  <2>2. VotesOnce'
    BY <1>2, <2>1, VoteOnce
  <2>3. \A w \in acked'[n].votes : w \in signed' /\ w.voter = n
    BY <1>5, <1>6, <1>7, <2>1, Zenon
  <2>4. NodeOK(next, n, signed', acked'[n].votes)
    BY <1>10, <2>1, Zenon
  <2> QED BY <1>3, <1>7, <1>8, <1>11, <2>1, <2>2, <2>3, <2>4, RoundWrite
<1>12. CASE acked' = acked
  <2>1. BooksOK' /\ VotesOnce'
    BY <1>3, <1>4, <1>12, Zenon DEF BooksOK, VotesOnce
  <2>2. \A w \in acked'[n].votes : w \in signed' /\ w.voter = n
    BY <1>5, <1>7, <1>12
  <2>3. /\ NodeOK(next, n, signed', acked'[n].votes)
        /\ Remembers(mem[n], acked'[n].votes) /\ Remembers(disk[n], acked'[n].votes)
    BY <1>5, <1>10, <1>12, Zenon
  <2> QED BY <1>2, <1>3, <1>7, <1>8, <1>12, <2>1, <2>2, <2>3, RoundWrite
<1> QED BY <1>2, <1>11, <1>12, Zenon

(* maybeRebroadcastProposal and maybeRebroadcastVote.                      *)
LEMMA RebroadcastRound ==
    ASSUME RoundInv, NEW n \in Nodes, Rebroadcast(n), signed' = signed
    PROVE  RoundInv'
<1>1. RecordsOK(mem[n], signed)
  BY NodeFacts, Zenon
<1>2. /\ mem' = mem /\ disk' = disk /\ sent' = sent /\ acked' = acked /\ fetched' = fetched
      /\ proposed' \subseteq proposed \cup LatestProposal(mem[n])
      /\ voted' \subseteq voted \cup LatestVote(mem[n], n)
  BY Zenon DEF Rebroadcast, quiet
<1>3. \A p \in LatestProposal(mem[n]) : ProposalOK(p)
  BY <1>1, LatestIn, Zenon DEF RecordsOK
<1>4. LatestVote(mem[n], n) \subseteq signed
  BY <1>1, LatestVoteIn DEF RecordsOK
<1>5. MessagesOK'
  BY <1>2, <1>3, <1>4, Zenon DEF RoundInv, MessagesOK
<1> QED BY <1>2, <1>5, NoWrite, Zenon

(* maybeAdvanceConsensusRound only decides.                                *)
LEMMA TimeOutRound ==
    ASSUME RoundInv, NEW n \in Nodes, TimeOut(n), signed' = signed
    PROVE  RoundInv'
<1>1. /\ mem' = mem /\ disk' = disk /\ sent' = sent /\ acked' = acked /\ fetched' = fetched
      /\ proposed' = proposed /\ voted' = voted
  BY Zenon DEF TimeOut, quiet
<1>2. MessagesOK'
  BY <1>1, Zenon DEF RoundInv, MessagesOK
<1> QED BY <1>1, <1>2, NoWrite, Zenon

(* proposalForProduction takes a recorded proposal.                        *)
LEMMA ReadyRecorded ==
    ASSUME NEW st, IsSeq(st.proposals), NEW at, CertifiedProposals(st, at) # << >>
    PROVE  LET ready == CertifiedProposals(st, at) IN ready[Len(ready)] \in Elements(st.proposals)
<1> DEFINE ready == CertifiedProposals(st, at)
           s == proposalsForHeight(st, Height(st) + 1)
<1>1. IsSeq(s) /\ Elements(s) \subseteq Elements(st.proposals)
  BY OnlyFacts, Zenon DEF proposalsForHeight
<1> HIDE DEF s
<1>2. \E T : ready = Only(s, T)
  BY Zenon DEF CertifiedProposals, s
<1> HIDE DEF ready
<1>3. IsSeq(ready) /\ Elements(ready) \subseteq Elements(s) /\ ready # << >>
  BY <1>1, <1>2, OnlyFacts DEF ready
<1>4. Len(ready) \in 1..Len(ready)
  BY <1>3 DEF IsSeq
<1>5. ready[Len(ready)] \in Elements(ready)
  BY <1>4, Zenon DEF Elements
<1> QED BY <1>1, <1>3, <1>5, Zenon DEF ready

(* maybeAutomateCommit.                                                    *)
LEMMA CommitRound ==
    ASSUME RoundInv, NEW n \in Nodes, Commit(n), signed' = signed
    PROVE  RoundInv'
<1> DEFINE st == mem[n]
           at == ProposalAt(st, NextHeight(n), st.round).block.at
           ready == CertifiedProposals(st, at)
           p == ready[Len(ready)]
           next == CommittedState(st, p)
<1>1. /\ ready # << >> /\ BlockCertified(st, p.block) /\ ImportVerdict(st, p.block) = "ok"
      /\ Written(n, next) \/ WriteFails(n, next)
      /\ sent' \subseteq sent \cup {p.block}
      /\ acked' = acked /\ fetched' = fetched /\ proposed' = proposed /\ voted' = voted
  BY Zenon DEF Commit, CommittedState
<1>2. /\ NodeOK(st, n, signed, acked[n].votes) /\ VotesOK(signed) /\ acked[n].votes \subseteq signed
      /\ IsSeq(st.proposals)
  BY NodeFacts, Zenon DEF RecordsOK
<1> HIDE DEF at
<1>3. p \in Elements(st.proposals)
  BY <1>1, <1>2, ReadyRecorded, Zenon
<1> HIDE DEF p
<1>4. NodeOK(next, n, signed, acked[n].votes) /\ p.block.height \in Nat
  BY <1>1, <1>2, <1>3, NodeCommits, Zenon
<1> HIDE DEF next
<1>5. BooksOK /\ MessagesOK
  BY Zenon DEF RoundInv
<1>6. AckKept
  BY <1>1, <1>5, Zenon DEF AckKept, BooksOK
<1>7. MessagesOK'
  BY <1>1, <1>4, <1>5, Zenon DEF MessagesOK
<1> QED BY <1>1, <1>4, <1>6, <1>7, QuietRoundWrite, Zenon

(* handleElection.                                                         *)
LEMMA ElectionRound ==
    ASSUME RoundInv, NEW n \in Nodes, SetValidators(n)
    PROVE  RoundInv'
<1> DEFINE st == mem[n]
           next == ElectedState(st)
<1>1. NodeOK(st, n, signed, acked[n].votes) /\ VotesOK(signed) /\ acked[n].votes \subseteq signed
  BY NodeFacts, Zenon
<1>2. Silent /\ (Written(n, next) \/ WriteFails(n, next))
  BY Zenon DEF SetValidators, quiet, Silent, ElectedState
<1>3. NodeOK(next, n, signed, acked[n].votes)
  BY <1>1, NodeElects, Zenon
<1> HIDE DEF next
<1> QED BY <1>2, <1>3, SilentWrite, Zenon

(* mergeCertifiedBlockEvidence joins fragments of one proposal.            *)
LEMMA EvidenceFacts ==
    ASSUME RoundInv, NEW peers \in SUBSET Nodes, NEW block, NEW evidence \in MergedEvidence(peers, block)
    PROVE  EvidenceOK(evidence, signed, block.height)
<1> DEFINE all == UNION {Fragments(mem[q], block.height) : q \in peers}
           p == evidence.proposal
<1>1. ASSUME NEW f \in all PROVE EvidenceOK(f, signed, block.height)
  <2>1. PICK q \in peers : f \in Fragments(mem[q], block.height)
    BY Zenon
  <2>2. RecordsOK(mem[q], signed)
    BY NodeFacts, Zenon
  <2> QED BY <2>1, <2>2, FragmentFacts, Zenon
<1>2. /\ \E f \in all : f.proposal = p
      /\ evidence.votes = UNION {f.votes : f \in {g \in all : g.proposal = p}}
  BY DEF MergedEvidence
<1> HIDE DEF all, p
<1>3. PICK f \in all : f.proposal = p
  BY <1>2, Zenon
<1>4. f.votes \subseteq evidence.votes
  BY <1>2, <1>3, Zenon
<1>5. f.votes # {} /\ ProposalOK(p) /\ p.height = block.height
  BY <1>1, <1>3, Zenon DEF EvidenceOK
<1>6. ASSUME NEW v \in evidence.votes
      PROVE  v \in signed /\ v.height = block.height /\ v.round = p.round
  <2>1. PICK g \in all : g.proposal = p /\ v \in g.votes
    BY <1>2, Zenon
  <2>2. EvidenceOK(g, signed, block.height)
    BY <1>1, Zenon
  <2> QED BY <2>1, <2>2, Zenon DEF EvidenceOK
<1> QED BY <1>4, <1>5, <1>6, Zenon DEF EvidenceOK, p

(* recoverCertifiedBlockFromPeers.                                         *)
LEMMA RecoverRound ==
    ASSUME RoundInv, NEW n \in Nodes, NEW q \in Nodes, RecoverBlock(n, q), signed' = signed
    PROVE  RoundInv'
<1> DEFINE st == mem[n]
           block == mem[q].chain[NextHeight(n)]
           next(evidence) == Imported(attachEvidence(st, evidence), block)
<1>1. NodeOK(st, n, signed, acked[n].votes) /\ VotesOK(signed) /\ acked[n].votes \subseteq signed
  BY NodeFacts, Zenon
<1>2. /\ ImportVerdict(st, block) = "ok" /\ Height(mem[q]) > Height(st)
      /\ Silent
      /\ \E peers \in SUBSET (Nodes \ {n}) :
            \E evidence \in MergedEvidence(peers, block) :
               /\ EvidenceAccepted(st, block, evidence)
               /\ Written(n, next(evidence)) \/ WriteFails(n, next(evidence))
  BY Zenon DEF RecoverBlock, quiet, Silent
<1>3. block.height \in Nat
  BY <1>2, PeerBlock, Zenon DEF NextHeight
<1> HIDE DEF block, next
<1>4. PICK peers \in SUBSET (Nodes \ {n}) :
         \E evidence \in MergedEvidence(peers, block) :
            /\ EvidenceAccepted(st, block, evidence)
            /\ Written(n, next(evidence)) \/ WriteFails(n, next(evidence))
  BY <1>2, Zenon
<1>5. PICK evidence \in MergedEvidence(peers, block) :
         /\ EvidenceAccepted(st, block, evidence)
         /\ Written(n, next(evidence)) \/ WriteFails(n, next(evidence))
  BY <1>4, Zenon
<1>6. EvidenceOK(evidence, signed, block.height)
  <2>1. peers \in SUBSET Nodes
    BY Zenon
  <2> QED BY <2>1, EvidenceFacts, Zenon
<1>7. NodeOK(next(evidence), n, signed, acked[n].votes)
  BY <1>1, <1>2, <1>3, <1>5, <1>6, NodeRecovers, Zenon DEF next
<1> QED BY <1>2, <1>5, <1>7, SilentWrite, Zenon

-----------------------------------------------------------------------------
(* The invariant is inductive and gives the properties.                    *)

(* Every step keeps the invariant.                                         *)
LEMMA RoundStep == RoundInv /\ RoundNext => RoundInv'
<1> SUFFICES ASSUME RoundInv, RoundNext PROVE RoundInv'
  BY Zenon
<1>1. PICK n \in Nodes :
         \/ Automation(n)
         \/ Peers(n) /\ signed' = signed
         \/ NodeStep(n) /\ proposed' = proposed /\ signed' = signed /\ voted' = voted
         \/ SetValidators(n)
         \/ Restart(n) /\ proposed' = proposed /\ signed' = signed /\ voted' = voted
  BY Zenon DEF RoundNext
<1>2. CASE Automation(n)
  <2>1. CASE Vote(n)
    BY <2>1, VoteRound, Zenon
  <2>2. CASE EnsureRoundStarted(n) /\ signed' = signed
    BY <2>2, EnsureRound, Zenon
  <2>3. CASE TimeOut(n) /\ signed' = signed
    BY <2>3, TimeOutRound, Zenon
  <2>4. CASE AdvanceRound(n) /\ signed' = signed
    BY <2>4, AdvanceRoundStep, Zenon
  <2>5. CASE Propose(n) /\ signed' = signed
    BY <2>5, ProposeRound, Zenon
  <2>6. CASE Rebroadcast(n) /\ signed' = signed
    BY <2>6, RebroadcastRound, Zenon
  <2>7. CASE Commit(n) /\ signed' = signed
    BY <2>7, CommitRound, Zenon
  <2> QED BY <1>2, <2>1, <2>2, <2>3, <2>4, <2>5, <2>6, <2>7 DEF Automation
<1>3. CASE Peers(n) /\ signed' = signed
  <2>1. CASE ReceiveProposal(n)
    BY <1>3, <2>1, ReceiveProposalRound, Zenon
  <2>2. CASE ReceiveVote(n)
    BY <1>3, <2>2, ReceiveVoteRound, Zenon
  <2>3. ASSUME NEW q \in Nodes, RecoverBlock(n, q) PROVE RoundInv'
    BY <1>3, <2>3, RecoverRound, Zenon
  <2> QED BY <1>3, <2>1, <2>2, <2>3 DEF Peers
<1>4. CASE NodeStep(n) /\ proposed' = proposed /\ signed' = signed /\ voted' = voted
  BY <1>4, NodeStepRound, Zenon
<1>5. CASE SetValidators(n)
  BY <1>5, ElectionRound, Zenon
<1>6. CASE Restart(n) /\ proposed' = proposed /\ signed' = signed /\ voted' = voted
  BY <1>6, RestartRound, Zenon
<1> QED BY <1>1, <1>2, <1>3, <1>4, <1>5, <1>6, Zenon

(* A new node has no records.                                              *)
LEMMA NewNode ==
    ASSUME NEW n
    PROVE  NodeOK(NewState(n), n, {}, {})
<1> DEFINE st == NewState(n)
<1>1. /\ DOMAIN st = StateFields /\ st.version = 1 /\ st.round = 0 /\ st.proposals = << >>
      /\ st.votes = {} /\ st.certs = {} /\ st.actions = << >> /\ st.chain = << >>
  BY Zenon DEF NewState, StateFields
<1>2. st.version \in Nat /\ st.round \in Nat
  BY <1>1
<1> HIDE DEF st
<1>3. IsSeq(<< >>) /\ Elements(<< >>) = {} /\ Len(<< >>) = 0
  BY EmptyFacts, Zenon
<1>4. Height(st) = 0
  BY <1>1, <1>3, Zenon DEF Height
<1>5. \A h \in 1..0 : st.chain[h].height = h
  OBVIOUS
<1>6. CommittedOK(st, {})
  BY <1>1, <1>2, <1>3, <1>4, <1>5, Zenon DEF CommittedOK
<1>7. RecordsOK(st, {}) /\ RoundCovers(st)
  BY <1>1, <1>2, <1>6, RecordsEmpty, Zenon
<1>8. PendingAbove(st.actions, Height(st))
  BY <1>1, <1>3, Zenon DEF PendingAbove, LogOK, PendingIn
<1>9. Logged(st, n)
  BY <1>1, <1>3, <1>8, LoggedFresh, Zenon
<1>10. NodeOK(st, n, {}, {})
  BY <1>7, <1>9, Zenon DEF NodeOK, Remembers
<1> QED BY <1>10, Zenon DEF st

(* The invariant holds initially.                                          *)
LEMMA RoundInvInit == RoundInit => RoundInv
<1> SUFFICES ASSUME RoundInit PROVE RoundInv
  BY Zenon
<1>1. /\ LedgerInit /\ sent = {} /\ proposed = {} /\ signed = {} /\ voted = {}
  BY Zenon DEF RoundInit, LedgerInit
<1>2. /\ mem = [n \in Nodes |-> NewState(n)] /\ disk = mem
      /\ acked = [n \in Nodes |-> NothingAcked] /\ fetched = [n \in Nodes |-> None]
  BY <1>1, Zenon DEF LedgerInit
<1>3. DOMAIN mem = Nodes /\ DOMAIN disk = Nodes /\ BooksOK
  BY <1>2, Zenon DEF BooksOK, NothingAcked, AckFields
<1>4. MessagesOK
  BY <1>1, Zenon DEF MessagesOK, VotesOK
<1>5. ASSUME NEW n \in Nodes PROVE HolderOK(n) /\ acked[n].votes = {}
  <2>1. mem[n] = NewState(n) /\ disk[n] = NewState(n) /\ acked[n].votes = {} /\ fetched[n] = None
    BY <1>2, Zenon DEF NothingAcked
  <2>2. NodeOK(NewState(n), n, {}, {})
    BY NewNode, Zenon
  <2> QED BY <1>1, <2>1, <2>2, Zenon DEF HolderOK
<1>6. VotesOnce
  BY <1>5, Zenon DEF VotesOnce
<1> QED BY <1>3, <1>4, <1>5, <1>6, Zenon DEF RoundInv

(* A step that changes nothing.                                            *)
LEMMA RoundStutter == RoundInv /\ UNCHANGED vars => RoundInv'
<1> SUFFICES ASSUME RoundInv, UNCHANGED vars PROVE RoundInv'
  BY Zenon
<1>1. /\ mem' = mem /\ disk' = disk /\ sent' = sent /\ acked' = acked /\ fetched' = fetched
      /\ proposed' = proposed /\ voted' = voted /\ signed' = signed
  BY Zenon DEF vars, ledgerVars
<1>2. MessagesOK'
  BY <1>1, Zenon DEF RoundInv, MessagesOK
<1> QED BY <1>1, <1>2, NoWrite, Zenon

(* The invariant gives the properties.                                     *)
LEMMA RoundInvMeans ==
    RoundInv => /\ VotesOnce /\ OwnWorkLogged
                /\ RequireCertificates => CommitHasQuorum
<1> SUFFICES ASSUME RoundInv PROVE /\ VotesOnce /\ OwnWorkLogged
                                   /\ RequireCertificates => CommitHasQuorum
  BY Zenon
<1>1. VotesOnce
  BY Zenon DEF RoundInv
<1>2. OwnWorkLogged
  <2> SUFFICES ASSUME NEW n \in Nodes, NEW st \in {mem[n], disk[n]}
               PROVE  /\ \A p \in LatestProposal(st) : p.proposer = n => HasAction(st.actions, "proposal", p, n)
                      /\ \A v \in LatestVote(st, n) : HasAction(st.actions, "vote", v, n)
                      /\ \A a \in PendingIn(st.actions) : a.type \in {"proposal", "vote"} => a.height > Height(st)
    BY Zenon DEF OwnWorkLogged, HasAction, PendingIn
  <2>1. NodeOK(st, n, signed, acked[n].votes)
    BY Zenon DEF RoundInv, HolderOK
  <2> QED BY <2>1, Zenon DEF NodeOK, Logged, PendingAbove
<1>3. ASSUME RequireCertificates PROVE CommitHasQuorum
  <2> SUFFICES ASSUME NEW n \in Nodes, NEW h \in 1..Height(mem[n])
               PROVE  \E r \in {v.round : v \in signed} :
                         PowerOf(votersForBlock(signed, h, r, mem[n].chain[h])) >= Quorum
    BY Zenon DEF CommitHasQuorum
  <2>1. CommittedOK(mem[n], signed)
    BY NodeFacts, Zenon
  <2>2. mem[n].chain[h] \in Elements(mem[n].chain) /\ mem[n].chain[h].height = h
    BY <2>1, Zenon DEF CommittedOK, Elements, Height
  <2>3. Backed(mem[n].chain[h], signed)
    BY <1>3, <2>1, <2>2, Zenon DEF CommittedOK, Admitted
  <2> QED BY <2>2, <2>3, Zenon DEF Backed
<1> QED BY <1>1, <1>2, <1>3, Zenon

-----------------------------------------------------------------------------
(* The theorems.                                                           *)

(* After every order of funding, proposals, votes, time-outs, commits,     *)
(* imports with and without evidence, snapshot restores, elections,        *)
(* failing writes and restarts, the records of every node are in order.    *)
THEOREM RoundInvariance == RoundSpec => []RoundInv
<1>1. RoundInv /\ [RoundNext]_vars => RoundInv'
  BY RoundStep, RoundStutter, Zenon
<1> QED BY <1>1, RoundInvInit, PTL DEF RoundSpec

(* A validator's written votes of one height, round and validator set are  *)
(* for one block, for any number of nodes, rounds, elections and failing   *)
(* writes.                                                                 *)
THEOREM VotesOnceHolds == RoundSpec => []VotesOnce
<1>1. RoundInv => VotesOnce
  BY RoundInvMeans, Zenon
<1> QED BY <1>1, RoundInvariance, PTL

(* Where certificates are required, every block of every chain has the     *)
(* votes of a quorum in one round, however the node came by it.            *)
THEOREM CommitHasQuorumHolds == RoundSpec => [](RequireCertificates => CommitHasQuorum)
<1>1. RoundInv => (RequireCertificates => CommitHasQuorum)
  BY RoundInvMeans, Zenon
<1> QED BY <1>1, RoundInvariance, PTL

(* The newest proposal and vote of a node's own have their pending action  *)
(* in memory and in the file, whatever the compaction of the log dropped.  *)
THEOREM OwnWorkLoggedHolds == RoundSpec => []OwnWorkLogged
<1>1. RoundInv => OwnWorkLogged
  BY RoundInvMeans, Zenon
<1> QED BY <1>1, RoundInvariance, PTL
=============================================================================
