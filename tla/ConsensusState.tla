--------------------------- MODULE ConsensusState ---------------------------
(***************************************************************************)
(* Proposals, votes and certificates in the persisted state of a v1 node   *)
(* (internal/ledger: consensus_state, consensus_lookup, certified_import,  *)
(* certified_production), as functions on that state.                      *)
(*                                                                         *)
(* A proposal is [height, round, proposer, block], a vote is [height,      *)
(* round, block, voter] and a certificate [height, round, block, voters].  *)
(* Signatures are taken to be valid: a message names the one who made it.  *)
(***************************************************************************)
EXTENDS LedgerState

PowerOf(voters) == SumPower(Only(Validators, voters))

Quorum == quorumVotingPower(SumPower(Validators))

(* VoteTally.QuorumReached.                                                *)
QuorumReached(voters) == PowerOf(voters) >= Quorum /\ Quorum > 0

votersForBlock(votes, height, round, block) ==
    {v.voter : v \in {w \in votes : /\ w.height = height /\ w.round = round
                                    /\ w.block = block}}

ProposalsAt(st, height, round) ==
    {p \in Elements(st.proposals) : p.height = height /\ p.round = round}

HasProposalAt(st, height, round) == ProposalsAt(st, height, round) # {}
ProposalAt(st, height, round) ==
    CHOOSE p \in ProposalsAt(st, height, round) : TRUE

proposalsForHeight(st, height) ==
    Only(st.proposals, {p \in Elements(st.proposals) : p.height = height})

HasCertificate(st, height, round, block) ==
    \E c \in st.certs : c.height = height /\ c.round = round /\ c.block = block

HasVote(st, height, round, voter) ==
    \E v \in st.votes : v.height = height /\ v.round = round /\ v.voter = voter

(* alignRoundStateWithProposal and -WithVote: a later round is joined.     *)
alignRound(st, round) == [st EXCEPT !.round = round, !.started = TRUE]

(* recordProposalIntoState.                                                *)
ProposalAccepted(st, p) ==
    /\ p.height = Height(st) + 1
    /\ p.block.prev = Tip(st)
    /\ p.round >= st.round
    /\ p.proposer = proposerForHeightRound(p.height, p.round)
    /\ Executes(st.accounts, p.block.txs)
    /\ p.block.root = stateRoot(st, Execute(st.accounts, p.block.txs).accounts)
    /\ \A q \in ProposalsAt(st, p.height, p.round) : q = p

recordProposal(st, p) ==
    LET aligned == alignRound(st, p.round)
    IN  IF p \in Elements(st.proposals) THEN aligned
        ELSE [aligned EXCEPT !.proposals = Append(@, p)]

(* recordVoteIntoState: the vote that completes a quorum makes the         *)
(* certificate.                                                            *)
VoteAccepted(st, v) ==
    /\ v.height = Height(st) + 1
    /\ v.round >= st.round
    /\ v.voter \in Elements(Validators)
    /\ \E p \in ProposalsAt(st, v.height, v.round) : p.block = v.block
    /\ \A w \in st.votes :
          w.height = v.height /\ w.round = v.round /\ w.voter = v.voter => w = v

(* Mutant: two thirds of the power make a certificate, not more than that. *)
recordVoteTwoThirds(st, v) ==
    LET aligned == alignRound(st, v.round)
        votes   == st.votes \cup {v}
        voters  == votersForBlock(votes, v.height, v.round, v.block)
        created == [height |-> v.height, round |-> v.round, block |-> v.block,
                    voters |-> voters]
        crossed == /\ v \notin st.votes
                   /\ PowerOf(voters) >= Quorum - 1
                   /\ ~ HasCertificate(st, v.height, v.round, v.block)
    IN  [aligned EXCEPT !.votes = votes,
                        !.certs = IF crossed THEN @ \cup {created} ELSE @]

recordVote(st, v) ==
    LET aligned == alignRound(st, v.round)
        votes   == st.votes \cup {v}
        voters  == votersForBlock(votes, v.height, v.round, v.block)
        created == [height |-> v.height, round |-> v.round, block |-> v.block,
                    voters |-> voters]
        crossed == /\ v \notin st.votes
                   /\ QuorumReached(voters)
                   /\ ~ HasCertificate(st, v.height, v.round, v.block)
    IN  [aligned EXCEPT !.votes = votes,
                        !.certs = IF crossed THEN @ \cup {created} ELSE @]

(* validateBlockConsensus with certificates required.                      *)
BlockCertified(st, block) ==
    /\ \E p \in Elements(st.proposals) :
          /\ p.block = block
          /\ p.proposer = proposerForHeightRound(block.height, p.round)
    /\ \E c \in st.certs : c.block = block

(* proposalForProduction: the newest certified proposal of that time.      *)
CertifiedProposals(st, at) ==
    Only(proposalsForHeight(st, Height(st) + 1),
         {p \in Elements(st.proposals) :
            /\ p.block.at = at
            /\ p.block.txs # << >>
            /\ HasCertificate(st, p.height, p.round, p.block)})

(* certifiedBlockEvidenceFragmentsFromState: what a peer serves.           *)
Fragments(st, height) ==
    {f \in {[proposal |-> p,
             votes |-> {v \in st.votes : /\ v.height = height
                                         /\ v.round = p.round
                                         /\ v.block = p.block}] :
               p \in Elements(proposalsForHeight(st, height))} : f.votes # {}}

(* attachCertifiedBlockEvidence: own votes for the proposal count too.     *)
EvidenceVoters(st, evidence) ==
    LET p == evidence.proposal
    IN  votersForBlock(st.votes \cup evidence.votes, p.height, p.round, p.block)

EvidenceAccepted(st, block, evidence) ==
    LET p == evidence.proposal
    IN  /\ p.block = block
        /\ p.proposer = proposerForHeightRound(block.height, p.round)
        /\ \A q \in ProposalsAt(st, p.height, p.round) :
              q.block = p.block /\ q.proposer = p.proposer
        /\ \A v \in evidence.votes, w \in st.votes :
              (w.height = v.height /\ w.round = v.round /\ w.voter = v.voter)
                 => w.block = v.block
        /\ QuorumReached(EvidenceVoters(st, evidence))

attachEvidence(st, evidence) ==
    LET p == evidence.proposal
        created == [height |-> p.height, round |-> p.round, block |-> p.block,
                    voters |-> EvidenceVoters(st, evidence)]
    IN  [st EXCEPT
           !.proposals = IF p \in Elements(@) THEN @ ELSE Append(@, p),
           !.votes     = @ \cup evidence.votes,
           !.certs     = IF HasCertificate(st, p.height, p.round, p.block)
                         THEN @ ELSE @ \cup {created}]

(* consensusContextForBlock: the round and proposer an import action of    *)
(* that block carries.                                                     *)
ContextOf(st, block) ==
    LET matching == Only(proposalsForHeight(st, block.height),
                         {p \in Elements(st.proposals) : p.block = block})
        rounds   == {c.round : c \in {d \in st.certs : d.block = block}}
    IN  IF matching # << >>
        THEN [round |-> matching[1].round, validator |-> matching[1].proposer]
        ELSE [round |-> IF rounds = {} THEN 0
                        ELSE CHOOSE r \in rounds : \A q \in rounds : q <= r,
              validator |-> ""]
=============================================================================
