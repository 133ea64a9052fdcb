--------------------------- MODULE RoundConsensus ---------------------------
(***************************************************************************)
(* The certificate-gated v1 devnet: the consensus automation of            *)
(* internal/api/consensus_automation.go on top of the ledger of every      *)
(* node.  The scheduled proposer of a round proposes a block, the          *)
(* validators vote, a quorum of votes is a certificate, and the proposer   *)
(* commits the certified block, which the others import with the           *)
(* certificate they hold themselves or with evidence fetched from peers.   *)
(*                                                                         *)
(* The automation's sub-steps take the ledger's lock one by one and check  *)
(* again under it, so each is an action and the HTTP handlers fall between *)
(* them.  The exception is the round time-out: its checks are not repeated *)
(* when the round is advanced, so the two are separate actions.            *)
(* A message once sent may arrive at any time, any number of times or      *)
(* never.                                                                  *)
(***************************************************************************)
EXTENDS LedgerNode

CONSTANTS MaxRound,     \* bound on the round each node advances to by itself
          MaxElections  \* bound on elections

VARIABLES proposed,  \* proposals broadcast
          signed,    \* votes ever signed
          voted,     \* votes broadcast
          due,       \* the nodes whose automation is about to advance its round
          elections  \* elections so far

vars == <<ledgerVars, proposed, signed, voted, due, elections>>

RoundInit ==
    /\ LedgerInit
    /\ proposed = {}
    /\ signed = {}
    /\ voted = {}
    /\ due = {}
    /\ elections = 0

NextHeight(n) == Height(mem[n]) + 1

NextProposer(n) == proposerForHeightRound(NextHeight(n), mem[n].round)

quiet == UNCHANGED <<sent, acked, fetched>>

-----------------------------------------------------------------------------
(* EnsureRoundStarted.                                                     *)
EnsureRoundStarted(n) ==
    /\ ~ mem[n].started /\ NextHeight(n) <= MaxHeight
    /\ LET next == [mem[n] EXCEPT !.started = TRUE]
       IN  Written(n, next) \/ WriteFails(n, next)
    /\ quiet /\ UNCHANGED <<proposed, voted, due>>

(* maybeAdvanceConsensusRound up to its decision.  The round has lasted    *)
(* for the time-out, there is work, and no certificate for its proposal.   *)
TimeOut(n) ==
    /\ mem[n].started /\ n \notin due
    /\ mem[n].round < MaxRound[n]
    /\ \A p \in ProposalsAt(mem[n], NextHeight(n), mem[n].round) :
          ~ HasCertificate(mem[n], p.height, p.round, p.block)
    /\ mem[n].pool # << >> \/ proposalsForHeight(mem[n], NextHeight(n)) # << >>
    /\ due' = due \cup {n}
    /\ quiet /\ UNCHANGED <<mem, disk, faults, proposed, voted>>

(* AdvanceRound and the action it records.                                 *)
AdvanceRound(n) ==
    LET round == mem[n].round + 1
        note  == NewAction("round_advance", NextHeight(n), round, NoHash, n)
        next  == [alignRound(mem[n], round) EXCEPT
                    !.actions = recordAction(@, note)]
    IN  /\ n \in due
        /\ due' = due \ {n}
        /\ Written(n, next) \/ WriteFails(n, next)
        /\ quiet /\ UNCHANGED <<proposed, voted>>

(* maybeAutomateProposal: the newest proposal of an earlier round is       *)
(* proposed again, otherwise a block is built from the pool.               *)
Candidates(n) ==
    LET earlier == proposalsForHeight(mem[n], NextHeight(n))
    IN  IF earlier # << >> /\ earlier[Len(earlier)].round < mem[n].round
        THEN {earlier[Len(earlier)].block}
        ELSE {b \in {BuildBlock(mem[n], MaxTransactionsPerBlock, at) :
                       at \in Times[n]} : CanBuild(mem[n], MaxTransactionsPerBlock)}

Propose(n) ==
    /\ n \in Producers
    /\ NextProposer(n) = n
    /\ NextHeight(n) <= MaxHeight
    /\ ~ HasProposalAt(mem[n], NextHeight(n), mem[n].round)
    /\ \E block \in Candidates(n) :
          LET p    == [height |-> NextHeight(n), round |-> mem[n].round,
                       proposer |-> n, block |-> block]
              note == NewAction("proposal", p.height, p.round, block, n)
              next == [recordProposal(mem[n], p) EXCEPT
                         !.actions = recordAction(@, note)]
          IN  /\ ProposalAccepted(mem[n], p)
              /\ \/ Written(n, next) /\ proposed' = proposed \cup {p}
                 \/ WriteFails(n, next) /\ UNCHANGED proposed
    /\ quiet /\ UNCHANGED <<voted, due>>

(* maybeAutomateVote.                                                      *)
Vote(n) ==
    LET p    == ProposalAt(mem[n], NextHeight(n), mem[n].round)
        v    == [height |-> p.height, round |-> p.round, block |-> p.block,
                 voter |-> n]
        note == NewAction("vote", v.height, v.round, v.block, n)
        next == [recordVote(mem[n], v) EXCEPT !.actions = recordAction(@, note)]
    IN  /\ HasProposalAt(mem[n], NextHeight(n), mem[n].round)
        /\ ~ HasVote(mem[n], NextHeight(n), mem[n].round, n)
        /\ VoteAccepted(mem[n], v)
        /\ signed' = signed \cup {v}
        /\ \/ /\ Written(n, next)
              /\ voted' = voted \cup {v}
              /\ acked' = [acked EXCEPT ![n].votes = @ \cup {v}]
           \/ WriteFails(n, next) /\ UNCHANGED <<voted, acked>>
        /\ UNCHANGED <<sent, fetched, proposed, due>>

(* maybeRebroadcastProposal and maybeRebroadcastVote: the newest of the    *)
(* node's own, while it is not certified.                                  *)
LatestProposal(st) ==
    LET all == proposalsForHeight(st, Height(st) + 1)
    IN  IF all = << >> THEN {} ELSE {all[Len(all)]}

LatestVote(st, n) ==
    LET mine == {v \in st.votes : v.height = Height(st) + 1 /\ v.voter = n}
    IN  {v \in mine : \A w \in mine : w.round <= v.round}

Rebroadcast(n) ==
    LET uncertified(m) == ~ HasCertificate(mem[n], m.height, m.round, m.block)
    IN  /\ proposed' = proposed \cup {p \in LatestProposal(mem[n]) :
                                        p.proposer = n /\ uncertified(p)}
        /\ voted' = voted \cup {v \in LatestVote(mem[n], n) : uncertified(v)}
        /\ quiet /\ UNCHANGED <<mem, disk, faults, due>>

(* maybeAutomateCommit: the current proposer commits its certified block,  *)
(* with the action that records it in the same write.                      *)
Commit(n) ==
    LET p     == ProposalAt(mem[n], NextHeight(n), mem[n].round)
        ready == CertifiedProposals(mem[n], p.block.at)
        taken == ready[Len(ready)]
        note  == NewAction("block_commit", taken.height, taken.round,
                           taken.block, taken.proposer)
        built == AppendBlock(mem[n], taken.block)
        next  == [built EXCEPT
                    !.actions = recordAction(completeUpTo(@, taken.height), note)]
    IN  /\ n \in Producers /\ RequireCertificates
        /\ NextProposer(n) = n
        /\ HasProposalAt(mem[n], NextHeight(n), mem[n].round)
        /\ p.proposer = n
        /\ HasCertificate(mem[n], p.height, p.round, p.block)
        /\ ready # << >>
        /\ BlockCertified(mem[n], taken.block)
        /\ ImportVerdict(mem[n], taken.block) = "ok"
        /\ \/ Written(n, next) /\ sent' = sent \cup {taken.block}
           \/ WriteFails(n, next) /\ UNCHANGED sent
        /\ UNCHANGED <<acked, fetched, proposed, voted, due>>

(* handleConsensusProposal and handleConsensusVote, from a peer.           *)
ReceiveProposal(n) ==
    /\ \E p \in {q \in proposed : q.proposer # n} :
          /\ ProposalAccepted(mem[n], p)
          /\ LET next == recordProposal(mem[n], p)
             IN  Written(n, next) \/ WriteFails(n, next)
    /\ quiet /\ UNCHANGED <<proposed, voted, due>>

ReceiveVote(n) ==
    /\ \E v \in {w \in voted : w.voter # n} :
          /\ VoteAccepted(mem[n], v)
          /\ LET next == recordVote(mem[n], v)
             IN  Written(n, next) \/ WriteFails(n, next)
    /\ quiet /\ UNCHANGED <<proposed, voted, due>>

(* recoverCertifiedBlockFromPeers, after the import of the peer's block    *)
(* was refused for want of a certificate: the fragments of the peers that  *)
(* answer are merged proposal by proposal (mergeCertifiedBlockEvidence)    *)
(* and imported as soon as they make a quorum (ImportBlockWithEvidence).   *)
MergedEvidence(peers, block) ==
    LET all == UNION {Fragments(mem[q], block.height) : q \in peers}
    IN  {[proposal |-> p,
          votes |-> UNION {f.votes : f \in {g \in all : g.proposal = p}}] :
           p \in {f.proposal : f \in {g \in all : g.proposal.block = block}}}

RecoverBlock(n, q) ==
    LET block == mem[q].chain[NextHeight(n)]
    IN  /\ RequireCertificates
        /\ Height(mem[q]) > Height(mem[n])
        /\ ImportVerdict(mem[n], block) = "ok"
        /\ ~ BlockCertified(mem[n], block)
        /\ \E action \in Elements(mem[n].actions) :
              /\ action.type = "block_import" /\ Pending(action)
              /\ action.block = block
        /\ \E peers \in SUBSET (Nodes \ {n}) :
              \E evidence \in MergedEvidence(peers, block) :
                 LET next == Imported(attachEvidence(mem[n], evidence), block)
                 IN  /\ EvidenceAccepted(mem[n], block, evidence)
                     /\ Written(n, next) \/ WriteFails(n, next)
        /\ quiet /\ UNCHANGED <<proposed, voted, due>>

(* handleElection, electing the same validators again.                     *)
SetValidators(n) ==
    LET next == [mem[n] EXCEPT !.version = @ + 1, !.round = 0,
                               !.started = FALSE, !.proposals = << >>,
                               !.votes = {}, !.certs = {}, !.actions = << >>]
    IN  /\ elections < MaxElections
        /\ elections' = elections + 1
        /\ Written(n, next) \/ WriteFails(n, next)
        /\ quiet /\ UNCHANGED <<proposed, signed, voted, due>>

Automation(n) ==
    \/ Vote(n)
    \/ /\ \/ EnsureRoundStarted(n) \/ TimeOut(n) \/ AdvanceRound(n)
          \/ Propose(n) \/ Rebroadcast(n) \/ Commit(n)
       /\ UNCHANGED signed

Peers(n) ==
    \/ ReceiveProposal(n) \/ ReceiveVote(n)
    \/ n \in Syncing /\ \E q \in Nodes \ {n} : RecoverBlock(n, q)

RoundNext ==
    \E n \in Nodes :
       \/ Automation(n) /\ UNCHANGED elections
       \/ Peers(n) /\ UNCHANGED <<elections, signed>>
       \/ NodeStep(n) /\ UNCHANGED <<proposed, signed, voted, due, elections>>
       \/ SetValidators(n)
       \/ /\ Restart(n) /\ due' = due \ {n}
          /\ UNCHANGED <<proposed, signed, voted, elections>>

RoundSpec == RoundInit /\ [][RoundNext]_vars

-----------------------------------------------------------------------------
(* Properties.                                                             *)

(* Since it last restored a snapshot, a validator has written and sent a   *)
(* vote for one block at a height and round of one validator set: HasVote  *)
(* and ErrConflictingVote hold across time-outs, restarts and writes that  *)
(* fail before or after the file was replaced.                             *)
VotesOnce ==
    \A n \in Nodes : \A v, w \in acked[n].votes :
       (/\ v.height = w.height /\ v.round = w.round
        /\ v.block.root.version = w.block.root.version) => v = w

(* Every block of every chain was voted for by a quorum of the voting      *)
(* power in a single round, whether its node collected the certificate     *)
(* itself, imported it with peers' evidence or restored a snapshot.        *)
CommitHasQuorum ==
    \A n \in Nodes : \A h \in 1..Height(mem[n]) :
       LET block == mem[n].chain[h]
       IN  \E r \in {v.round : v \in signed} :
             PowerOf(votersForBlock(signed, h, r, block)) >= Quorum

(* What a restarted node must replay is in its file: the newest proposal   *)
(* and vote of its own at the next height have a pending action there and  *)
(* in memory, compaction included, and no proposal or vote stays pending   *)
(* for a height that is committed.                                         *)
OwnWorkLogged ==
    \A n \in Nodes : \A st \in {mem[n], disk[n]} :
       LET pending == {a \in Elements(st.actions) : Pending(a)}
           logged(type, m) ==
             \E a \in pending : /\ a.type = type /\ a.height = m.height
                                /\ a.round = m.round /\ a.block = m.block
                                /\ a.validator = n
       IN  /\ \A p \in LatestProposal(st) : p.proposer = n => logged("proposal", p)
           /\ \A v \in LatestVote(st, n) : logged("vote", v)
           /\ \A a \in pending : a.type \in {"proposal", "vote"}
                                   => a.height > Height(st)
=============================================================================
