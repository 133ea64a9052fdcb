-------------------------- MODULE ValidatorService --------------------------
(***************************************************************************)
(* The validators of Protocol v2 (internal/v2/node, Service) and their     *)
(* signing guard (internal/v2/consensus, DurableSigningGuard): transaction *)
(* pool, proposal, votes, certificate and commit, over a network that      *)
(* loses, delays and repeats messages, with crashes and restarts.          *)
(*                                                                         *)
(* A header is the sequence of the blocks from the first up to its own:    *)
(* its parent hash and its state roots determine, and are determined by,   *)
(* just that.  Its height is its length.  The chain of a validator is the  *)
(* header it committed last; module GlobalCommit is about how a commit     *)
(* survives a crash, so here it is one step and durable.                   *)
(*                                                                         *)
(* Some validators may be faulty: they propose and vote as they like, but  *)
(* sign for themselves only.  They run none of the handlers, so what the   *)
(* variables hold for them is their initial value.  The round is the       *)
(* constant 0, as in Propose.                                              *)
(***************************************************************************)
EXTENDS VotingPower, Sequences

CONSTANTS
    Txs,         \* transactions
    Input,       \* the object each one consumes
    Outbound,    \* the transactions whose output goes to the other shard
    Faulty,      \* the faulty validators
    Guarded,     \* NewProtectedService (TRUE) or NewService (FALSE)
    MaxHeight,   \* bound: heights
    MaxCopies,   \* bound: copies of one receipt in an import queue
    MaxFaults    \* bound: crashes, failed journal writes, faulty proposals

ASSUME ServiceAssumption ==
    /\ Outbound \subseteq Txs /\ Faulty \subseteq Validators
    /\ Guarded \in BOOLEAN
    /\ MaxHeight \in Nat /\ MaxCopies \in Nat /\ MaxFaults \in Nat

VARIABLES
    up,         \* the process runs
    chain,      \* Runtime: the last committed header
    pool,       \* Service.mempool
    imports,    \* Service.imports: the copies queued of each receipt
    votes,      \* Service.votes: the headers voted for
    journal,    \* the signing journal: the last header recorded
    poisoned,   \* DurableSigningGuard.poisoned
    torn,       \* the signing journal ends in a part of a record
    flight,     \* the Propose call in flight: its header and the votes it has
    proposals,  \* proposals ever sent
    commits,    \* commit messages ever sent
    cast,       \* all votes ever signed
    faults

service == <<up, pool, imports, votes, flight>>
guard == <<journal, poisoned, torn>>
network == <<proposals, commits>>
vars == <<service, chain, guard, network, cast, faults>>

-----------------------------------------------------------------------------
(* Blocks and headers.                                                     *)

Blocks == [txs : SUBSET Txs, imports : SUBSET Outbound]

None == [header |-> <<>>, votes |-> {}]

Executed(header) == UNION {header[h].txs : h \in 1 .. Len(header)}
Imported(header) == UNION {header[h].imports : h \in 1 .. Len(header)}

\* Engine.Execute: the witness proves that the input is not consumed yet.
Spendable(header, t) == \A u \in Executed(header) : Input[u] # Input[t]

\* BuildCandidate on the state behind header: no object is consumed twice,
\* only finalized receipts are imported, and none of them again.
Builds(header, b) ==
    /\ \A t \in b.txs : Spendable(header, t)
    /\ \A t, u \in b.txs : t # u => Input[t] # Input[u]
    /\ b.imports \subseteq (Executed(header) \cap Outbound) \ Imported(header)

Parent(header) == SubSeq(header, 1, Len(header) - 1)
Block(header) == header[Len(header)]

\* Mutant of IsNext: the block is not built here.
IsNextUnchecked(v, header) ==
    /\ Len(header) = Len(chain[v]) + 1
    /\ Parent(header) = chain[v]

\* The checks of both handlers: the next height, and the same header when
\* the block is built here.
IsNext(v, header) ==
    /\ Len(header) = Len(chain[v]) + 1
    /\ Parent(header) = chain[v]
    /\ Builds(chain[v], Block(header))

\* pendingBlockLocked.
Pending(v) ==
    [txs |-> pool[v], imports |-> {r \in Outbound : imports[v][r] > 0}]

\* A receipt that is queued twice is in the batch twice and does not build.
PendingBuilds(v) ==
    /\ \A r \in Outbound : imports[v][r] <= 1
    /\ Builds(chain[v], Pending(v))

-----------------------------------------------------------------------------
(* Signing.                                                                *)

Fault == faults < MaxFaults /\ faults' = faults + 1

\* Mutant of Authorizes: the target of the recorded height is not compared.
AuthorizesHeight(v, header) ==
    /\ ~poisoned[v]
    /\ Len(header) >= Len(journal[v])

\* Authorize: a later height, or the recorded intent again.
Authorizes(v, header) ==
    /\ ~poisoned[v]
    /\ Len(header) > Len(journal[v]) \/ header = journal[v]

\* signVoteLocked: a vote for the same slot decides, then the guard.
MayVote(v, header) ==
    /\ \A prior \in votes[v] : Len(prior) = Len(header) => prior = header
    /\ header \in votes[v] \/ (Guarded => Authorizes(v, header))

\* Mutant of RecordIntent: the record is not written.
RecordIntentNot(v, header) == UNCHANGED <<journal, poisoned, torn>>

\* Authorize syncs the record before the signature exists.
RecordIntent(v, header) ==
    /\ journal' = [journal EXCEPT ![v] = header]
    /\ UNCHANGED <<poisoned, torn>>

SignVote(v, header) ==
    /\ MayVote(v, header)
    /\ votes' = [votes EXCEPT ![v] = @ \cup {header}]
    /\ cast' = [cast EXCEPT ![v] = @ \cup {header}]

\* Authorize when the write or the sync fails: nothing, a part of the record
\* or all of it is in the file, and the guard signs no more.
PoisonGuard(v, header) ==
    /\ Guarded
    /\ Authorizes(v, header) /\ header # journal[v]
    /\ Fault
    /\ poisoned' = [poisoned EXCEPT ![v] = TRUE]
    /\ \/ UNCHANGED <<journal, torn>>
       \/ torn' = [torn EXCEPT ![v] = TRUE] /\ UNCHANGED journal
       \/ journal' = [journal EXCEPT ![v] = header] /\ UNCHANGED torn

-----------------------------------------------------------------------------
(* Handlers.                                                               *)

\* Submit.
Submit(v, t) ==
    /\ up[v]
    /\ Spendable(chain[v], t)
    /\ \A u \in pool[v] : u # t => Input[u] # Input[t]
    /\ pool' = [pool EXCEPT ![v] = @ \cup {t}]
    /\ UNCHANGED <<up, imports, votes, flight, chain, guard, network, cast, faults>>

\* QueueReceiptImport asks for the proof of finality only.
QueueReceiptImport(v, r) ==
    /\ up[v]
    /\ r \in Executed(chain[v])
    /\ imports[v][r] < MaxCopies
    /\ imports' = [imports EXCEPT ![v][r] = @ + 1]
    /\ UNCHANGED <<up, pool, votes, flight, chain, guard, network, cast, faults>>

\* Mutant of ClearPool: only what the block holds leaves the pool.
ClearPoolOfBlock(v, header) == pool' = [pool EXCEPT ![v] = @ \ Block(header).txs]

ClearPool(v, header) == pool' = [pool EXCEPT ![v] = {}]

\* Mutant of ClearImports: what the block imported leaves the queue.
ClearImportsOfBlock(v, header) ==
    imports' = [imports EXCEPT ![v] =
        [r \in Outbound |-> IF r \in Block(header).imports THEN @[r] - 1 ELSE @[r]]]

ClearImports(v, header) ==
    imports' = IF Block(header).imports = {} THEN imports
               ELSE [imports EXCEPT ![v] = [r \in Outbound |-> 0]]

\* Commit, then clearCommittedStateLocked: the pool is emptied, the queue of
\* a shard that imported is emptied, settled votes are forgotten.
CommitHeader(v, header) ==
    /\ chain' = [chain EXCEPT ![v] = header]
    /\ ClearPool(v, header)
    /\ ClearImports(v, header)
    /\ votes' = [votes EXCEPT ![v] = {w \in @ : Len(w) > Len(header)}]

\* Propose up to the unlock: the block, the guard, the proposal, the own vote.
StartPropose(v) ==
    LET header == Append(chain[v], Pending(v))
    IN  /\ up[v] /\ flight[v] = None
        /\ Len(header) <= MaxHeight
        /\ Proposer(Len(header), 0) = v
        /\ PendingBuilds(v)
        /\ \/ /\ Guarded => Authorizes(v, header)
              /\ IF Guarded THEN RecordIntent(v, header) ELSE UNCHANGED guard
              /\ SignVote(v, header)
              /\ flight' = [flight EXCEPT ![v] = [header |-> header, votes |-> {v}]]
              /\ proposals' = proposals \cup {header}
              /\ UNCHANGED <<up, pool, imports, chain, commits, faults>>
           \/ /\ PoisonGuard(v, header)
              /\ UNCHANGED <<service, chain, network, cast>>

\* handleProposalLocked.  The answer reaches the proposer, or is lost or late.
HandleProposal(v, header) ==
    LET p == Proposer(Len(header), 0)
    IN  /\ up[v] /\ v # p
        /\ IsNext(v, header)
        /\ \/ /\ SignVote(v, header)
              /\ IF Guarded /\ header \notin votes[v]
                 THEN RecordIntent(v, header) ELSE UNCHANGED guard
              /\ \/ /\ flight[p].header = header
                    /\ flight' = [flight EXCEPT ![p] = [header |-> header,
                                                        votes |-> @.votes \cup {v}]]
                 \/ UNCHANGED flight
              /\ UNCHANGED <<up, pool, imports, chain, network, faults>>
           \/ /\ header \notin votes[v]
              /\ \A prior \in votes[v] : Len(prior) # Len(header)
              /\ PoisonGuard(v, header)
              /\ UNCHANGED <<service, chain, network, cast>>

\* The rest of Propose: ErrNoQuorum, or Commit with its check of height and
\* parent, and the broadcast.
FinishPropose(v) ==
    LET f == flight[v]
    IN  /\ f # None
        /\ flight' = [flight EXCEPT ![v] = None]
        /\ IF IsQuorum(f.votes) /\ Parent(f.header) = chain[v]
           THEN CommitHeader(v, f.header) /\ commits' = commits \cup {f.header}
           ELSE UNCHANGED <<chain, pool, imports, votes, commits>>
        /\ UNCHANGED <<up, guard, proposals, cast, faults>>

\* handleCommitLocked.
HandleCommit(v, header) ==
    /\ up[v]
    /\ IsNext(v, header)
    /\ CommitHeader(v, header)
    /\ UNCHANGED <<up, flight, guard, network, cast, faults>>

Crash(v) ==
    /\ up[v]
    /\ Fault
    /\ up' = [up EXCEPT ![v] = FALSE]
    /\ pool' = [pool EXCEPT ![v] = {}]
    /\ imports' = [imports EXCEPT ![v] = [r \in Outbound |-> 0]]
    /\ votes' = [votes EXCEPT ![v] = {}]
    /\ flight' = [flight EXCEPT ![v] = None]
    /\ poisoned' = [poisoned EXCEPT ![v] = FALSE]
    /\ UNCHANGED <<chain, journal, torn, network, cast>>

\* OpenDurableSigningGuard refuses a torn journal.
Restart(v) ==
    /\ ~up[v]
    /\ ~torn[v]
    /\ up' = [up EXCEPT ![v] = TRUE]
    /\ UNCHANGED <<pool, imports, votes, flight, chain, guard, network, cast, faults>>

-----------------------------------------------------------------------------
(* Faulty validators.                                                      *)

\* A proposal for any block on top of any chain, whenever it is their turn.
FaultyPropose(w, b) ==
    LET header == Append(chain[w], b)
    IN  /\ Len(header) <= MaxHeight
        /\ Proposer(Len(header), 0) \in Faulty
        /\ Fault
        /\ proposals' = proposals \cup {header}
        /\ UNCHANGED <<service, chain, guard, commits, cast>>

\* The voters of a header, all the faulty ones included.
Voters(header) == Faulty \cup {w \in Validators : header \in cast[w]}

\* A certificate for a proposal of theirs.
FaultyCommit(header) ==
    /\ Proposer(Len(header), 0) \in Faulty
    /\ IsQuorum(Voters(header))
    /\ commits' = commits \cup {header}
    /\ UNCHANGED <<service, chain, guard, proposals, cast, faults>>

\* An answer to a proposal that is being voted on.
FaultyVote(w, v) ==
    /\ flight[v] # None
    /\ flight' = [flight EXCEPT ![v] = [header |-> @.header, votes |-> @.votes \cup {w}]]
    /\ UNCHANGED <<up, pool, imports, votes, chain, guard, network, cast, faults>>

-----------------------------------------------------------------------------
(* The specification.                                                      *)

Init ==
    /\ up = [v \in Validators |-> TRUE]
    /\ chain = [v \in Validators |-> <<>>]
    /\ pool = [v \in Validators |-> {}]
    /\ imports = [v \in Validators |-> [r \in Outbound |-> 0]]
    /\ votes = [v \in Validators |-> {}]
    /\ journal = [v \in Validators |-> <<>>]
    /\ poisoned = [v \in Validators |-> FALSE]
    /\ torn = [v \in Validators |-> FALSE]
    /\ flight = [v \in Validators |-> None]
    /\ proposals = {} /\ commits = {}
    /\ cast = [v \in Validators |-> {}]
    /\ faults = 0

Next ==
    \E v \in Validators \ Faulty :
        \/ \E t \in Txs : Submit(v, t)
        \/ \E r \in Outbound : QueueReceiptImport(v, r)
        \/ StartPropose(v)
        \/ \E header \in proposals : HandleProposal(v, header)
        \/ FinishPropose(v)
        \/ \E header \in commits : HandleCommit(v, header)
        \/ Crash(v)
        \/ Restart(v)
        \/ \E b \in Blocks : FaultyPropose(v, b)
        \/ \E header \in proposals : FaultyCommit(header)
        \/ \E w \in Faulty : FaultyVote(w, v)

Spec == Init /\ [][Next]_vars

-----------------------------------------------------------------------------
(* Properties.                                                             *)

Headers == Seq(Blocks)

\* The types.
TypeOK ==
    /\ up \in [Validators -> BOOLEAN]
    /\ chain \in [Validators -> Headers]
    /\ pool \in [Validators -> SUBSET Txs]
    /\ imports \in [Validators -> [Outbound -> Nat]]
    /\ votes \in [Validators -> SUBSET Headers]
    /\ journal \in [Validators -> Headers]
    /\ poisoned \in [Validators -> BOOLEAN] /\ torn \in [Validators -> BOOLEAN]
    /\ flight \in [Validators -> [header : Headers, votes : SUBSET Validators]]
    /\ proposals \subseteq Headers /\ commits \subseteq Headers
    /\ cast \in [Validators -> SUBSET Headers]
    /\ faults \in 0 .. MaxFaults

\* A signer's durable record is never behind its votes: every vote that left
\* the process is the recorded one, or for a lower height.
JournalCoversVotes ==
    Guarded => \A v \in Validators : \A w \in cast[v] :
        Len(w) < Len(journal[v]) \/ w = journal[v]

\* signVoteLocked and the guard together: no validator ever signs two votes
\* for different headers of one height, crashes and restarts included.
VoteOnce ==
    \A v \in Validators : \A x, y \in cast[v] : Len(x) = Len(y) => x = y

IsPrefixOf(x, y) == Len(x) <= Len(y) /\ x = SubSeq(y, 1, Len(x))

\* Propose, handleCommitLocked and VerifyCertificate: any two validators have
\* committed the same blocks, as far as both have got.
Agreement ==
    \A v, w \in Validators :
        IsPrefixOf(chain[v], chain[w]) \/ IsPrefixOf(chain[w], chain[v])

\* No committed chain consumes an object twice or imports a receipt twice,
\* or before the chain has exported it.
ChainIsValid ==
    \A v \in Validators : \A h \in 1 .. Len(chain[v]) :
        Builds(SubSeq(chain[v], 1, h - 1), chain[v][h])

\* Submit and clearCommittedStateLocked: the transactions of a pool can always
\* be built into the next block; a commit in between leaves no stale one.
PoolBuilds ==
    \A v \in Validators : Builds(chain[v], [txs |-> pool[v], imports |-> {}])
=============================================================================
