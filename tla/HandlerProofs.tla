--------------------------- MODULE HandlerProofs ---------------------------
(***************************************************************************)
(* What the handlers of RoundConsensus make of the persisted state of one  *)
(* node.  NodeOK says what a state has to be like, the lemmas say that     *)
(* every state a handler computes from such a state is of that kind again. *)
(* RoundProofs makes an inductive invariant of the devnet from it.         *)
(***************************************************************************)
EXTENDS RoundConsensus, RecordProofs

-----------------------------------------------------------------------------
(* What the invariant is made of.                                          *)

(* A proposal, and a vote, name a block of their height.                   *)
ProposalOK(p) == p.height \in Nat /\ p.round \in Nat /\ p.block.height = p.height

VoteOK(v) ==
    /\ v.height \in Nat /\ v.round \in Nat
    /\ v.block.height = v.height /\ v.block.root.version \in Nat

VotesOK(S) == \A v \in S : VoteOK(v)

(* What a block must have where certificates are required.                 *)
Admitted(block, S) == RequireCertificates => Backed(block, S)

(* The committed part of a state, S being the votes ever signed: blocks    *)
(* numbered from 1, each with its quorum.                                  *)
CommittedOK(st, S) ==
    /\ DOMAIN st = StateFields /\ IsSeq(st.chain) /\ st.version \in Nat
    /\ \A h \in 1..Height(st) : st.chain[h].height = h
    /\ \A block \in Elements(st.chain) : Admitted(block, S)

(* Proposals, votes and certificates are of the next height or older,      *)
(* proposals of the next height commit to the current validator set, and   *)
(* certificates have the votes they stand for.                             *)
RecordsOK(st, S) ==
    /\ CommittedOK(st, S)
    /\ IsSeq(st.proposals) /\ st.round \in Nat
    /\ \A p \in Elements(st.proposals) :
          /\ ProposalOK(p) /\ p.height <= Height(st) + 1
          /\ p.height = Height(st) + 1 => p.block.root.version = st.version
    /\ st.votes \subseteq S
    /\ \A v \in st.votes : v.height <= Height(st) + 1
    /\ \A c \in st.certs : Backed(c.block, S)

(* No vote of the next height is of a later round.                         *)
RoundCovers(st) ==
    \A v \in st.votes : v.height = Height(st) + 1 => v.round <= st.round

(* A vote written is still there, or of a height or a validator set that   *)
(* the state has left behind.                                              *)
Remembers(st, A) ==
    \A v \in A : \/ v.height <= Height(st)
                 \/ v.block.root.version < st.version
                 \/ v.block.root.version = st.version /\ v \in st.votes

(* The log has a pending action of that type for a message of node n.      *)
HasAction(actions, type, m, n) ==
    \E a \in PendingIn(actions) : /\ a.type = type /\ a.height = m.height
                                  /\ a.round = m.round /\ a.block = m.block
                                  /\ a.validator = n

(* No proposal and no vote is pending for a height up to h.                *)
PendingAbove(actions, h) ==
    /\ LogOK(actions)
    /\ \A a \in PendingIn(actions) : a.type \in {"proposal", "vote"} => a.height > h

(* The log of node n has the node's newest proposal and vote.              *)
Logged(st, n) ==
    /\ PendingAbove(st.actions, Height(st))
    /\ \A p \in LatestProposal(st) : p.proposer = n => HasAction(st.actions, "proposal", p, n)
    /\ \A v \in LatestVote(st, n) : HasAction(st.actions, "vote", v, n)

(* One copy of the state of node n: A are the votes the node has written.  *)
NodeOK(st, n, S, A) ==
    RecordsOK(st, S) /\ RoundCovers(st) /\ Remembers(st, A) /\ Logged(st, n)

-----------------------------------------------------------------------------
(* What may stay the same.                                                 *)

SameRecords(next, st) ==
    /\ DOMAIN next = StateFields /\ next.chain = st.chain /\ next.version = st.version
    /\ next.proposals = st.proposals /\ next.votes = st.votes /\ next.certs = st.certs

(* The new log has the pending proposals and votes of heights above h, and *)
(* no others.                                                              *)
KeepsPending(old, new, h) ==
    /\ LogOK(new)
    /\ \A a \in PendingIn(old) :
          a.type \in {"proposal", "vote"} /\ a.height > h => a \in PendingIn(new)
    /\ \A a \in PendingIn(new) :
          a.type \in {"proposal", "vote"} => a \in PendingIn(old)

(* Another log, and nothing else.                                          *)
WithLog(st, actions) == [st EXCEPT !.actions = actions]

(* What stays of the state.                                                *)
LEMMA OtherLog ==
    ASSUME NEW st, DOMAIN st = StateFields, NEW actions
    PROVE  /\ SameRecords(WithLog(st, actions), st)
           /\ WithLog(st, actions).round = st.round /\ WithLog(st, actions).actions = actions
BY Zenon DEF SameRecords, StateFields, WithLog

(* The height is a number.                                                 *)
LEMMA HeightNat ==
    ASSUME NEW st, NEW S, CommittedOK(st, S)
    PROVE  Height(st) \in Nat
BY DEF CommittedOK, IsSeq, Height

(* What NodeOK says, taken apart.                                          *)
LEMMA NodeParts ==
    ASSUME NEW st, NEW n, NEW S, NEW A, NodeOK(st, n, S, A)
    PROVE  /\ RecordsOK(st, S) /\ RoundCovers(st) /\ Remembers(st, A) /\ Logged(st, n)
           /\ CommittedOK(st, S) /\ DOMAIN st = StateFields /\ IsSeq(st.chain)
           /\ IsSeq(st.proposals) /\ st.round \in Nat /\ LogOK(st.actions)
           /\ Height(st) \in Nat
<1>1. RecordsOK(st, S) /\ RoundCovers(st) /\ Remembers(st, A) /\ Logged(st, n)
  BY Zenon DEF NodeOK
<1>2. CommittedOK(st, S) /\ IsSeq(st.proposals) /\ st.round \in Nat
  BY <1>1, Zenon DEF RecordsOK
<1>3. DOMAIN st = StateFields /\ IsSeq(st.chain)
  BY <1>2, Zenon DEF CommittedOK
<1>4. LogOK(st.actions)
  BY <1>1, Zenon DEF Logged, PendingAbove
<1>5. Height(st) \in Nat
  BY <1>2, HeightNat, Zenon
<1> QED BY <1>1, <1>2, <1>3, <1>4, <1>5, Zenon

-----------------------------------------------------------------------------
(* The newest proposal and vote of a node, and the actions for them.       *)

(* maybeRebroadcastProposal takes a proposal of the next height.           *)
LEMMA LatestIn ==
    ASSUME NEW st, IsSeq(st.proposals), NEW p \in LatestProposal(st)
    PROVE  p \in Elements(st.proposals) /\ p.height = Height(st) + 1
<1> DEFINE h == Height(st) + 1
           all == proposalsForHeight(st, h)
<1>1. IsSeq(all) /\ Elements(all) = {q \in Elements(st.proposals) : q.height = h}
  BY OnlyFacts DEF proposalsForHeight
<1>2. all # << >> /\ p = all[Len(all)]
  BY Zenon DEF LatestProposal
<1> HIDE DEF all, h
<1>3. Len(all) \in 1..Len(all)
  BY <1>1, <1>2 DEF IsSeq
<1>4. p \in Elements(all)
  BY <1>2, <1>3, Zenon DEF Elements
<1> QED BY <1>1, <1>4, Zenon DEF h

(* A proposal of the next height just recorded is the newest.              *)
LEMMA LatestNew ==
    ASSUME NEW st, NEW s, IsSeq(s), NEW p, st.proposals = Append(s, p), p.height = Height(st) + 1
    PROVE  LatestProposal(st) = {p}
<1> DEFINE h == Height(st) + 1
           all == proposalsForHeight(st, h)
           S == {q \in Elements(st.proposals) : q.height = h}
<1>1. Elements(st.proposals) = Elements(s) \cup {p}
  BY AppendFacts, Zenon
<1>2. p \in S
  BY <1>1, Zenon
<1>3. all = Only(Append(s, p), S)
  BY Zenon DEF proposalsForHeight
<1> HIDE DEF S
<1>4. all = Append(Only(s, S), p)
  BY <1>2, <1>3, OnlyAppend, Zenon
<1>5. IsSeq(Only(s, S))
  BY OnlyFacts, Zenon
<1>6. /\ Len(Only(s, S)) \in Nat /\ Len(all) = Len(Only(s, S)) + 1
      /\ all[Len(Only(s, S)) + 1] = p
  BY <1>4, <1>5, AppendFacts
<1>7. all[Len(all)] = p /\ Len(all) # 0
  BY <1>6
<1>8. all # << >>
  BY <1>7, EmptyFacts, Zenon
<1> HIDE DEF all
<1>9. LatestProposal(st) = {all[Len(all)]}
  BY <1>8, Zenon DEF LatestProposal, all, h
<1> QED BY <1>7, <1>9, Zenon

(* The newest vote of a node is one of its votes of the next height.       *)
LEMMA LatestVoteIn ==
    ASSUME NEW st, NEW n, NEW v \in LatestVote(st, n)
    PROVE  /\ v \in st.votes /\ v.height = Height(st) + 1 /\ v.voter = n
           /\ \A w \in st.votes : w.height = Height(st) + 1 /\ w.voter = n => w.round <= v.round
BY Zenon DEF LatestVote

(* Only the chain and the records decide which proposal and vote is newest. *)
LEMMA LatestSame ==
    ASSUME NEW st, NEW next, next.chain = st.chain
    PROVE  /\ Height(next) = Height(st)
           /\ next.proposals = st.proposals => LatestProposal(next) = LatestProposal(st)
           /\ \A n : next.votes = st.votes => LatestVote(next, n) = LatestVote(st, n)
<1>1. Height(next) = Height(st)
  BY Zenon DEF Height
<1>2. next.proposals = st.proposals => LatestProposal(next) = LatestProposal(st)
  BY <1>1, Zenon DEF LatestProposal, proposalsForHeight
<1>3. \A n : next.votes = st.votes => LatestVote(next, n) = LatestVote(st, n)
  BY <1>1, Zenon DEF LatestVote
<1> QED BY <1>1, <1>2, <1>3, Zenon

(* The records are the same, and so are the pending proposals and votes of *)
(* the next heights.                                                       *)
LEMMA LoggedKeeps ==
    ASSUME NEW st, NEW n, Logged(st, n), NEW next, SameRecords(next, st),
           KeepsPending(st.actions, next.actions, Height(st))
    PROVE  Logged(next, n)
<1>1. /\ Height(next) = Height(st) /\ LatestProposal(next) = LatestProposal(st)
      /\ LatestVote(next, n) = LatestVote(st, n)
  BY LatestSame, Zenon DEF SameRecords
<1>2. ASSUME NEW type \in {"proposal", "vote"}, NEW m, HasAction(st.actions, type, m, n)
      PROVE  HasAction(next.actions, type, m, n)
  <2>1. PICK a \in PendingIn(st.actions) :
           /\ a.type = type /\ a.height = m.height /\ a.round = m.round
           /\ a.block = m.block /\ a.validator = n
    BY <1>2, Zenon DEF HasAction
  <2>2. a \in PendingIn(next.actions)
    BY <2>1, Zenon DEF Logged, PendingAbove, KeepsPending
  <2> QED BY <2>1, <2>2, Zenon DEF HasAction
<1>3. PendingAbove(next.actions, Height(next))
  BY <1>1, Zenon DEF Logged, PendingAbove, KeepsPending
<1> QED BY <1>1, <1>2, <1>3, Zenon DEF Logged

(* There is no record of the next height yet.                              *)
LEMMA LoggedFresh ==
    ASSUME NEW st, NEW n, IsSeq(st.proposals), PendingAbove(st.actions, Height(st)),
           \A p \in Elements(st.proposals) : p.height # Height(st) + 1,
           \A v \in st.votes : v.height # Height(st) + 1
    PROVE  Logged(st, n)
<1>1. LatestProposal(st) = {}
  BY LatestIn, Zenon
<1>2. LatestVote(st, n) = {}
  BY LatestVoteIn, Zenon
<1> QED BY <1>1, <1>2, Zenon DEF Logged

(* The default status of an action.                                        *)
LEMMA NewActionFacts ==
    ASSUME NEW type, NEW h, NEW r, NEW b, NEW v
    PROVE  LET a == NewAction(type, h, r, b, v)
           IN  /\ DOMAIN a = ActionFields /\ a.type = type /\ a.height = h /\ a.round = r
               /\ a.block = b /\ a.validator = v
               /\ type \in {"proposal", "vote"} => Pending(a)
BY Zenon DEF NewAction, ActionFields, Pending

(* An action of another type touches no pending proposal or vote.          *)
LEMMA NoteFacts ==
    ASSUME NEW actions, LogOK(actions), NEW type \in {"round_advance", "snapshot_sync", "block_commit", "block_import"},
           NEW h \in Nat, NEW r, NEW b, NEW v, NEW k
    PROVE  KeepsPending(actions, recordAction(actions, NewAction(type, h, r, b, v)), k)
<1> DEFINE note == NewAction(type, h, r, b, v)
           all == recordAction(actions, note)
<1>1. DOMAIN note = ActionFields /\ note.type = type /\ note.height = h
  BY NewActionFacts
<1> HIDE DEF note
<1>2. /\ LogOK(all)
      /\ \A a \in PendingIn(actions) : a.type # note.type => a \in PendingIn(all)
      /\ \A a \in PendingIn(all) : a \in PendingIn(actions) \/ ActionKey(a) = ActionKey(note)
  BY <1>1, RecordFacts, Zenon
<1> HIDE DEF all
<1>3. \A a : ActionKey(a) = ActionKey(note) => a.type = note.type
  BY Zenon DEF ActionKey
<1>4. KeepsPending(actions, all, k)
  BY <1>1, <1>2, <1>3, Zenon DEF KeepsPending
<1> QED BY <1>4, Zenon DEF all, note

(* Nothing new is pending.                                                 *)
LEMMA AboveKept ==
    ASSUME NEW old, NEW new, NEW k, NEW h, PendingAbove(old, h), KeepsPending(old, new, k)
    PROVE  PendingAbove(new, h)
BY Zenon DEF PendingAbove, KeepsPending

(* A log that keeps the pending actions of one kind has what it had.       *)
LEMMA HasActionKept ==
    ASSUME NEW old, NEW new, NEW kind, \A a \in PendingIn(old) : a.type = kind => a \in PendingIn(new),
           NEW x, NEW n, HasAction(old, kind, x, n)
    PROVE  HasAction(new, kind, x, n)
BY Zenon DEF HasAction

(* completeConsensusActionsForHeightInState.                               *)
LEMMA CompletedLog ==
    ASSUME NEW actions, LogOK(actions), NEW h \in Nat
    PROVE  /\ PendingAbove(completeUpTo(actions, h), h)
           /\ \A k \in Nat : h <= k => KeepsPending(actions, completeUpTo(actions, h), k)
<1> DEFINE new == completeUpTo(actions, h)
<1>1. LogOK(new) /\ PendingIn(new) = {a \in PendingIn(actions) : a.height > h}
  BY CompleteFacts, Zenon
<1> HIDE DEF new
<1>2. \A a \in PendingIn(actions) : a.height \in Nat
  BY Zenon DEF LogOK, PendingIn
<1>3. PendingAbove(new, h)
  BY <1>1, Zenon DEF PendingAbove
<1>4. ASSUME NEW k \in Nat, h <= k PROVE KeepsPending(actions, new, k)
  BY <1>1, <1>2, <1>4 DEF KeepsPending
<1> QED BY <1>3, <1>4, Zenon DEF new

(* maybeAutomateProposal logs the proposal it records.                     *)
LEMMA OwnProposalLogged ==
    ASSUME NEW st, NEW n, Logged(st, n), IsSeq(st.proposals), Height(st) \in Nat,
           NEW p, p.height = Height(st) + 1,
           NEW next, next.chain = st.chain, next.votes = st.votes,
           next.proposals = Append(st.proposals, p),
           next.actions = recordAction(st.actions, NewAction("proposal", p.height, p.round, p.block, n))
    PROVE  Logged(next, n)
<1> DEFINE note == NewAction("proposal", p.height, p.round, p.block, n)
<1>1. /\ DOMAIN note = ActionFields /\ note.type = "proposal" /\ note.height = p.height
      /\ note.round = p.round /\ note.block = p.block /\ note.validator = n /\ Pending(note)
  BY NewActionFacts
<1>2. Height(next) = Height(st) /\ LatestVote(next, n) = LatestVote(st, n)
  BY LatestSame, Zenon
<1>3. LatestProposal(next) = {p}
  BY <1>2, LatestNew
<1>4. next.actions = recordAction(st.actions, note) /\ LogOK(st.actions)
  BY Zenon DEF Logged, PendingAbove
<1> HIDE DEF note
<1>5. /\ LogOK(next.actions)
      /\ \E b \in PendingIn(next.actions) : ActionKey(b) = ActionKey(note)
      /\ \A a \in PendingIn(st.actions) : a.type # note.type => a \in PendingIn(next.actions)
      /\ \A b \in PendingIn(next.actions) : b \in PendingIn(st.actions) \/ ActionKey(b) = ActionKey(note)
  BY <1>1, <1>4, RecordFacts
<1>6. \A b : ActionKey(b) = ActionKey(note) =>
         /\ b.type = "proposal" /\ b.height = p.height /\ b.round = p.round
         /\ b.block = p.block /\ b.validator = n
  BY <1>1, Zenon DEF ActionKey
<1>7. HasAction(next.actions, "proposal", p, n)
  BY <1>5, <1>6, Zenon DEF HasAction
<1>8. \A v \in LatestVote(next, n) : HasAction(next.actions, "vote", v, n)
  <2>1. \A a \in PendingIn(st.actions) : a.type = "vote" => a \in PendingIn(next.actions)
    BY <1>1, <1>5, Zenon
  <2> QED BY <1>2, <2>1, HasActionKept, Zenon DEF Logged
<1>9. p.height > Height(st)
  OBVIOUS
<1>10. PendingAbove(next.actions, Height(next))
  BY <1>2, <1>5, <1>6, <1>9, Zenon DEF Logged, PendingAbove
<1> QED BY <1>3, <1>7, <1>8, <1>10, Zenon DEF Logged

(* maybeAutomateVote logs the vote it records.                             *)
LEMMA OwnVoteLogged ==
    ASSUME NEW st, NEW n, Logged(st, n), Height(st) \in Nat,
           NEW v, v.height = Height(st) + 1, v.voter = n, v.round \in Nat,
           \A w \in st.votes : w.height = Height(st) + 1 /\ w.voter = n => w.round \in Nat /\ w.round < v.round,
           NEW next, next.chain = st.chain, next.proposals = st.proposals,
           next.votes = st.votes \cup {v},
           next.actions = recordAction(st.actions, NewAction("vote", v.height, v.round, v.block, n))
    PROVE  Logged(next, n)
<1> DEFINE note == NewAction("vote", v.height, v.round, v.block, n)
<1>1. /\ DOMAIN note = ActionFields /\ note.type = "vote" /\ note.height = v.height
      /\ note.round = v.round /\ note.block = v.block /\ note.validator = n /\ Pending(note)
  BY NewActionFacts
<1>2. Height(next) = Height(st) /\ LatestProposal(next) = LatestProposal(st)
  BY LatestSame, Zenon
<1>3. ASSUME NEW w \in LatestVote(next, n) PROVE w = v
  <2>1. /\ w \in st.votes \cup {v} /\ w.height = Height(st) + 1 /\ w.voter = n
        /\ v.round <= w.round
    BY <1>2, LatestVoteIn
  <2>2. w \in st.votes => w.round \in Nat /\ w.round < v.round
    BY <2>1, Zenon
  <2>3. w \notin st.votes
    BY <2>1, <2>2
  <2> QED BY <2>1, <2>3, Zenon
<1>4. next.actions = recordAction(st.actions, note) /\ LogOK(st.actions)
  BY Zenon DEF Logged, PendingAbove
<1> HIDE DEF note
<1>5. /\ LogOK(next.actions)
      /\ \E b \in PendingIn(next.actions) : ActionKey(b) = ActionKey(note)
      /\ \A a \in PendingIn(st.actions) : a.type # note.type => a \in PendingIn(next.actions)
      /\ \A b \in PendingIn(next.actions) : b \in PendingIn(st.actions) \/ ActionKey(b) = ActionKey(note)
  BY <1>1, <1>4, RecordFacts
<1>6. \A b : ActionKey(b) = ActionKey(note) =>
         /\ b.type = "vote" /\ b.height = v.height /\ b.round = v.round
         /\ b.block = v.block /\ b.validator = n
  BY <1>1, Zenon DEF ActionKey
<1>7. HasAction(next.actions, "vote", v, n)
  BY <1>5, <1>6, Zenon DEF HasAction
<1>8. \A p \in LatestProposal(next) : p.proposer = n => HasAction(next.actions, "proposal", p, n)
  <2>1. \A a \in PendingIn(st.actions) : a.type = "proposal" => a \in PendingIn(next.actions)
    BY <1>1, <1>5, Zenon
  <2> QED BY <1>2, <2>1, HasActionKept, Zenon DEF Logged
<1>9. v.height > Height(st)
  OBVIOUS
<1>10. PendingAbove(next.actions, Height(next))
  BY <1>2, <1>5, <1>6, <1>9, Zenon DEF Logged, PendingAbove
<1> QED BY <1>3, <1>7, <1>8, <1>10, Zenon DEF Logged

-----------------------------------------------------------------------------
(* Records.                                                                *)

(* The votes signed may grow.                                              *)
LEMMA RecordsGrow ==
    ASSUME NEW st, NEW S, NEW T, S \subseteq T
    PROVE  /\ CommittedOK(st, S) => CommittedOK(st, T)
           /\ RecordsOK(st, S) => RecordsOK(st, T)
<1>1. CommittedOK(st, S) => CommittedOK(st, T)
  BY BackedMonotone, Zenon DEF CommittedOK, Admitted
<1>2. RecordsOK(st, S) => RecordsOK(st, T)
  BY <1>1, BackedMonotone, Zenon DEF RecordsOK
<1> QED BY <1>1, <1>2, Zenon

(* The same records under a round that is not earlier.                     *)
LEMMA RecordsSame ==
    ASSUME NEW st, NEW S, RecordsOK(st, S), VotesOK(S), NEW next, SameRecords(next, st),
           next.round \in Nat, st.round <= next.round
    PROVE  /\ RecordsOK(next, S)
           /\ RoundCovers(st) => RoundCovers(next)
           /\ \A A : Remembers(st, A) => Remembers(next, A)
<1>1. Height(next) = Height(st)
  BY Zenon DEF Height, SameRecords
<1>2. CommittedOK(next, S)
  BY <1>1, Zenon DEF RecordsOK, CommittedOK, SameRecords
<1>3. RecordsOK(next, S)
  BY <1>1, <1>2, Zenon DEF RecordsOK, SameRecords
<1>4. \A A : Remembers(st, A) => Remembers(next, A)
  BY <1>1, Zenon DEF Remembers, SameRecords
<1>5. \A v \in st.votes : v.round \in Nat /\ st.round \in Nat
  BY Zenon DEF RecordsOK, VotesOK, VoteOK
<1>6. RoundCovers(st) => RoundCovers(next)
  BY <1>1, <1>5 DEF RoundCovers, SameRecords
<1> QED BY <1>3, <1>4, <1>6, Zenon

(* A block more, the records as they are.                                  *)
Appended(next, st, block) ==
    /\ DOMAIN next = StateFields /\ next.chain = Append(st.chain, block)
    /\ next.version = st.version /\ next.round \in Nat
    /\ next.proposals = st.proposals /\ next.votes = st.votes /\ next.certs = st.certs

(* The records are of the next height or older.                            *)
LEMMA RecordsAppend ==
    ASSUME NEW st, NEW S, RecordsOK(st, S), VotesOK(S),
           NEW block, block.height = Height(st) + 1, Admitted(block, S),
           NEW next, Appended(next, st, block)
    PROVE  /\ RecordsOK(next, S) /\ RoundCovers(next) /\ Height(next) = Height(st) + 1
           /\ \A A : Remembers(st, A) /\ A \subseteq S => Remembers(next, A)
           /\ \A p \in Elements(next.proposals) : p.height # Height(next) + 1
           /\ \A v \in next.votes : v.height # Height(next) + 1
<1>1. CommittedOK(st, S) /\ IsSeq(st.chain) /\ Height(st) \in Nat
  BY HeightNat, Zenon DEF RecordsOK, CommittedOK
<1>2. /\ DOMAIN next = StateFields /\ next.chain = Append(st.chain, block)
      /\ next.version = st.version /\ next.round \in Nat
      /\ next.proposals = st.proposals /\ next.votes = st.votes /\ next.certs = st.certs
  BY Zenon DEF Appended
<1>3. /\ IsSeq(next.chain) /\ Height(next) = Height(st) + 1 /\ next.chain[Height(st) + 1] = block
      /\ \A h \in 1..Height(st) : next.chain[h] = st.chain[h]
      /\ Elements(next.chain) = Elements(st.chain) \cup {block}
  BY <1>1, <1>2, AppendFacts DEF Height
<1>4. \A h \in 1..Height(next) : next.chain[h].height = h
  BY <1>1, <1>3 DEF CommittedOK
<1>5. CommittedOK(next, S)
  BY <1>1, <1>3, <1>4, <1>2, Zenon DEF CommittedOK
<1>6. ASSUME NEW p \in Elements(next.proposals)
      PROVE  ProposalOK(p) /\ p.height <= Height(next) + 1 /\ p.height # Height(next) + 1
  <2>1. ProposalOK(p) /\ p.height <= Height(st) + 1 /\ p.height \in Nat
    BY <1>2, Zenon DEF RecordsOK, ProposalOK
  <2> QED BY <1>1, <1>3, <2>1
<1>7. ASSUME NEW v \in next.votes
      PROVE  v \in S /\ v.height <= Height(next) + 1 /\ v.height # Height(next) + 1
  <2>1. v \in S /\ v.height <= Height(st) + 1 /\ v.height \in Nat
    BY <1>2, Zenon DEF RecordsOK, VotesOK, VoteOK
  <2> QED BY <1>1, <1>3, <2>1
<1>8. RecordsOK(next, S)
  BY <1>5, <1>6, <1>7, <1>2, Zenon DEF RecordsOK
<1>9. RoundCovers(next)
  BY <1>7, Zenon DEF RoundCovers
<1>10. ASSUME NEW A, Remembers(st, A), A \subseteq S PROVE Remembers(next, A)
  <2>1. ASSUME NEW v \in A, v.height <= Height(st) PROVE v.height <= Height(next)
    <3>1. v.height \in Nat
      BY <1>10, Zenon DEF VotesOK, VoteOK
    <3> QED BY <1>1, <1>3, <2>1, <3>1
  <2> QED BY <1>10, <1>2, <2>1, Zenon DEF Remembers
<1> QED BY <1>3, <1>6, <1>7, <1>8, <1>9, <1>10, Zenon

(* No records at all.                                                      *)
LEMMA RecordsEmpty ==
    ASSUME NEW st, NEW S, CommittedOK(st, S), st.round \in Nat,
           st.proposals = << >>, st.votes = {}, st.certs = {}
    PROVE  RecordsOK(st, S) /\ RoundCovers(st)
<1>1. Elements(st.proposals) = {} /\ IsSeq(st.proposals)
  BY EmptyFacts, Zenon
<1> QED BY <1>1, Zenon DEF RecordsOK, RoundCovers

(* recordProposalIntoState, field by field.                                *)
ProposalEffect(st, p, next) ==
    /\ DOMAIN next = StateFields /\ next.chain = st.chain /\ next.version = st.version
    /\ next.votes = st.votes /\ next.certs = st.certs /\ next.actions = st.actions
    /\ next.round = p.round
    /\ next.proposals = IF p \in Elements(st.proposals) THEN st.proposals
                                                        ELSE Append(st.proposals, p)

(* recordProposal does what ProposalEffect says.                           *)
LEMMA ProposalFields ==
    ASSUME NEW st, DOMAIN st = StateFields, NEW p
    PROVE  ProposalEffect(st, p, recordProposal(st, p))
<1>1. CASE p \in Elements(st.proposals)
  BY <1>1, Zenon DEF recordProposal, alignRound, StateFields, ProposalEffect
<1>2. CASE p \notin Elements(st.proposals)
  BY <1>2, Zenon DEF recordProposal, alignRound, StateFields, ProposalEffect
<1> QED BY <1>1, <1>2, Zenon

(* recordVoteIntoState, field by field.                                    *)
VoteEffect(st, v, next) ==
    /\ DOMAIN next = StateFields /\ next.chain = st.chain /\ next.version = st.version
    /\ next.proposals = st.proposals /\ next.actions = st.actions
    /\ next.round = v.round /\ next.votes = st.votes \cup {v}
    /\ \/ next.certs = st.certs
       \/ /\ QuorumReached(votersForBlock(st.votes \cup {v}, v.height, v.round, v.block))
          /\ \E c : c.block = v.block /\ next.certs = st.certs \cup {c}

(* recordVote does what VoteEffect says.                                   *)
LEMMA VoteFields ==
    ASSUME NEW st, DOMAIN st = StateFields, NEW v
    PROVE  VoteEffect(st, v, recordVote(st, v))
<1> DEFINE voters  == votersForBlock(st.votes \cup {v}, v.height, v.round, v.block)
           created == [height |-> v.height, round |-> v.round, block |-> v.block, voters |-> voters]
           crossed == /\ v \notin st.votes
                      /\ QuorumReached(voters)
                      /\ ~ HasCertificate(st, v.height, v.round, v.block)
<1>1. recordVote(st, v) = [alignRound(st, v.round) EXCEPT
                             !.votes = st.votes \cup {v},
                             !.certs = IF crossed THEN @ \cup {created} ELSE @]
  BY Zenon DEF recordVote
<1>2. crossed => QuorumReached(voters)
  BY Zenon
<1>3. created.block = v.block
  BY Zenon
<1> HIDE DEF crossed, created
<1>4. CASE crossed
  <2>1. recordVote(st, v) = [alignRound(st, v.round) EXCEPT
                               !.votes = st.votes \cup {v}, !.certs = @ \cup {created}]
    BY <1>1, <1>4, Zenon
  <2> QED BY <1>2, <1>3, <1>4, <2>1, Zenon DEF alignRound, StateFields, VoteEffect
<1>5. CASE ~ crossed
  <2>1. recordVote(st, v) = [alignRound(st, v.round) EXCEPT
                               !.votes = st.votes \cup {v}, !.certs = @]
    BY <1>1, <1>5, Zenon
  <2> QED BY <2>1, Zenon DEF alignRound, StateFields, VoteEffect
<1> QED BY <1>4, <1>5, Zenon

(* recordProposalIntoState: the records stay in order.                     *)
LEMMA ProposalRecords ==
    ASSUME NEW st, NEW S, RecordsOK(st, S), VotesOK(S),
           NEW p, ProposalOK(p), ProposalAccepted(st, p), NEW next, ProposalEffect(st, p, next)
    PROVE  /\ RecordsOK(next, S)
           /\ RoundCovers(st) => RoundCovers(next)
           /\ \A A : Remembers(st, A) => Remembers(next, A)
<1>1. CommittedOK(st, S) /\ IsSeq(st.proposals) /\ Height(st) \in Nat /\ st.round \in Nat
  BY HeightNat, Zenon DEF RecordsOK
<1>2. IsSeq(next.proposals) /\ Elements(next.proposals) = Elements(st.proposals) \cup {p}
  BY <1>1, AppendFacts DEF ProposalEffect
<1>3. /\ p.height = Height(st) + 1 /\ p.round >= st.round
      /\ p.block.root = stateRoot(st, Execute(st.accounts, p.block.txs).accounts)
  BY Zenon DEF ProposalAccepted
<1>4. p.block.root.version = st.version
  BY <1>3 DEF stateRoot
<1>5. /\ Height(next) = Height(st) /\ next.version = st.version
      /\ next.votes = st.votes /\ next.certs = st.certs /\ next.round = p.round
  BY Zenon DEF Height, ProposalEffect
<1>6. CommittedOK(next, S)
  BY <1>1, <1>5, Zenon DEF CommittedOK, ProposalEffect
<1>7. \A q \in Elements(next.proposals) :
         /\ ProposalOK(q) /\ q.height <= Height(next) + 1
         /\ q.height = Height(next) + 1 => q.block.root.version = next.version
  BY <1>1, <1>2, <1>3, <1>4, <1>5 DEF RecordsOK
<1>8. p.round \in Nat
  BY Zenon DEF ProposalOK
<1>9. RecordsOK(next, S)
  BY <1>2, <1>5, <1>6, <1>7, <1>8, Zenon DEF RecordsOK
<1>10. \A v \in st.votes : v.round \in Nat
  BY Zenon DEF RecordsOK, VotesOK, VoteOK
<1>11. RoundCovers(st) => RoundCovers(next)
  BY <1>1, <1>3, <1>5, <1>8, <1>10 DEF RoundCovers
<1>12. \A A : Remembers(st, A) => Remembers(next, A)
  BY <1>5, Zenon DEF Remembers
<1> QED BY <1>9, <1>11, <1>12, Zenon

(* A quorum of votes for a block of their height.                          *)
LEMMA QuorumBacks ==
    ASSUME NEW S, NEW V, V \subseteq S, NEW v \in S, NEW block,
           QuorumReached(votersForBlock(V, block.height, v.round, block))
    PROVE  Backed(block, S)
<1>1. v.round \in {w.round : w \in S}
  BY Zenon
<1>2. votersForBlock(V, block.height, v.round, block) \subseteq votersForBlock(S, block.height, v.round, block)
  BY Zenon DEF votersForBlock
<1> QED BY <1>1, <1>2, QuorumGrows, Zenon DEF Backed, QuorumReached

(* recordVoteIntoState: a certificate has its votes.                       *)
LEMMA VoteRecords ==
    ASSUME NEW st, NEW S, RecordsOK(st, S), VotesOK(S),
           NEW v \in S, VoteAccepted(st, v), NEW next, VoteEffect(st, v, next)
    PROVE  /\ RecordsOK(next, S)
           /\ RoundCovers(st) => RoundCovers(next)
           /\ \A A : Remembers(st, A) => Remembers(next, A)
<1> DEFINE voters == votersForBlock(st.votes \cup {v}, v.height, v.round, v.block)
<1>1. CommittedOK(st, S) /\ Height(st) \in Nat /\ st.round \in Nat /\ st.votes \subseteq S
  BY HeightNat, Zenon DEF RecordsOK
<1>2. v.height = Height(st) + 1 /\ v.round >= st.round
  BY Zenon DEF VoteAccepted
<1>3. v.round \in Nat /\ v.block.height = v.height /\ v.height \in Nat
  BY Zenon DEF VotesOK, VoteOK
<1>4. /\ Height(next) = Height(st) /\ next.version = st.version /\ next.round = v.round
      /\ next.proposals = st.proposals /\ next.votes = st.votes \cup {v}
  BY Zenon DEF Height, VoteEffect
<1>5. CommittedOK(next, S)
  BY <1>1, <1>4, Zenon DEF CommittedOK, VoteEffect
<1>6. QuorumReached(voters) => Backed(v.block, S)
  <2> SUFFICES ASSUME QuorumReached(voters) PROVE Backed(v.block, S)
    BY Zenon
  <2>1. st.votes \cup {v} \subseteq S
    BY <1>1, Zenon
  <2> QED BY <1>3, <2>1, QuorumBacks, Zenon
<1> HIDE DEF voters
<1>7. \A c \in next.certs : Backed(c.block, S)
  BY <1>6, Zenon DEF RecordsOK, VoteEffect, voters
<1>8. next.votes \subseteq S /\ \A w \in next.votes : w.height <= Height(next) + 1
  BY <1>1, <1>2, <1>4 DEF RecordsOK
<1>9. RecordsOK(next, S)
  BY <1>3, <1>4, <1>5, <1>7, <1>8, Zenon DEF RecordsOK
<1>10. \A w \in st.votes : w.round \in Nat
  BY <1>1, Zenon DEF VotesOK, VoteOK
<1>11. RoundCovers(st) => RoundCovers(next)
  BY <1>1, <1>2, <1>3, <1>4, <1>10 DEF RoundCovers
<1>12. \A A : Remembers(st, A) => Remembers(next, A)
  BY <1>4, Zenon DEF Remembers
<1> QED BY <1>9, <1>11, <1>12, Zenon

(* A vote of the node's own at its round that it has no vote for yet.      *)
OwnVote(st, n, v) ==
    /\ v.height = Height(st) + 1 /\ v.round = st.round /\ v.voter = n
    /\ \E p \in Elements(st.proposals) :
          p.height = v.height /\ p.round = v.round /\ p.block = v.block
    /\ ~ HasVote(st, Height(st) + 1, st.round, n)

(* The vote is for a block of the current validator set, and none of the   *)
(* votes written before is for its height and round.                       *)
LEMMA OwnVoteNew ==
    ASSUME NEW st, NEW n, NEW S, NEW A, RecordsOK(st, S), Remembers(st, A), NEW v, OwnVote(st, n, v)
    PROVE  /\ VoteOK(v) /\ v.block.root.version = st.version
           /\ \A w \in A : ~(/\ w.voter = n /\ w.height = v.height /\ w.round = v.round
                             /\ w.block.root.version = v.block.root.version)
<1>1. CommittedOK(st, S) /\ Height(st) \in Nat /\ st.version \in Nat
  BY HeightNat, Zenon DEF RecordsOK, CommittedOK
<1>2. PICK p \in Elements(st.proposals) : p.height = v.height /\ p.round = v.round /\ p.block = v.block
  BY Zenon DEF OwnVote
<1>3. v.height = Height(st) + 1 /\ v.round = st.round /\ ~ HasVote(st, Height(st) + 1, st.round, n)
  BY Zenon DEF OwnVote
<1>4. ProposalOK(p) /\ p.block.root.version = st.version
  BY <1>2, <1>3, Zenon DEF RecordsOK
<1>5. VoteOK(v) /\ v.block.root.version = st.version
  BY <1>1, <1>2, <1>4, Zenon DEF VoteOK, ProposalOK
<1>6. ASSUME NEW w \in A, w.voter = n, w.height = v.height, w.round = v.round,
             w.block.root.version = v.block.root.version
      PROVE  FALSE
  <2>1. ~(w.height <= Height(st)) /\ ~(w.block.root.version < st.version)
    BY <1>1, <1>3, <1>5, <1>6
  <2>2. w \in st.votes
    BY <2>1, Zenon DEF Remembers
  <2> QED BY <1>3, <1>6, <2>2, Zenon DEF HasVote
<1> QED BY <1>5, <1>6, Zenon

-----------------------------------------------------------------------------
(* Evidence from the peers.                                                *)

(* A proposal, and votes of the set S for its height and round.            *)
EvidenceOK(evidence, S, h) ==
    /\ ProposalOK(evidence.proposal) /\ evidence.proposal.height = h
    /\ evidence.votes # {} /\ evidence.votes \subseteq S
    /\ \A v \in evidence.votes : v.height = h /\ v.round = evidence.proposal.round

(* A fragment a peer serves: a recorded proposal and recorded votes for it. *)
LEMMA FragmentFacts ==
    ASSUME NEW st, NEW S, RecordsOK(st, S), NEW h, NEW f \in Fragments(st, h)
    PROVE  EvidenceOK(f, S, h)
<1>1. PICK p \in Elements(proposalsForHeight(st, h)) :
         /\ f.proposal = p /\ f.votes # {}
         /\ f.votes = {v \in st.votes : v.height = h /\ v.round = p.round /\ v.block = p.block}
  BY DEF Fragments
<1>2. IsSeq(st.proposals)
  BY Zenon DEF RecordsOK
<1>3. p \in Elements(st.proposals) /\ p.height = h
  BY <1>2, OnlyFacts DEF proposalsForHeight
<1> QED BY <1>1, <1>3, Zenon DEF RecordsOK, EvidenceOK

(* attachCertifiedBlockEvidence, field by field.                           *)
AttachEffect(st, evidence, next) ==
    /\ DOMAIN next = StateFields /\ next.chain = st.chain /\ next.version = st.version
    /\ next.round = st.round /\ next.actions = st.actions
    /\ next.accounts = st.accounts /\ next.committed = st.committed /\ next.funded = st.funded
    /\ next.proposals = IF evidence.proposal \in Elements(st.proposals) THEN st.proposals
                        ELSE Append(st.proposals, evidence.proposal)
    /\ next.votes = st.votes \cup evidence.votes
    /\ \/ next.certs = st.certs
       \/ \E c : c.block = evidence.proposal.block /\ next.certs = st.certs \cup {c}

(* attachEvidence does what AttachEffect says.                             *)
LEMMA AttachFields ==
    ASSUME NEW st, DOMAIN st = StateFields, NEW evidence
    PROVE  AttachEffect(st, evidence, attachEvidence(st, evidence))
<1> DEFINE p == evidence.proposal
           c == [height |-> p.height, round |-> p.round, block |-> p.block,
                 voters |-> EvidenceVoters(st, evidence)]
           certs == IF HasCertificate(st, p.height, p.round, p.block) THEN st.certs ELSE st.certs \cup {c}
           proposals == IF p \in Elements(st.proposals) THEN st.proposals ELSE Append(st.proposals, p)
<1>1. attachEvidence(st, evidence) =
         [st EXCEPT !.proposals = proposals, !.votes = st.votes \cup evidence.votes, !.certs = certs]
  BY Zenon DEF attachEvidence
<1>2. certs = st.certs \/ \E d : d.block = p.block /\ certs = st.certs \cup {d}
  <2>1. c.block = p.block
    BY Zenon
  <2> HIDE DEF c
  <2> QED BY <2>1, Zenon
<1> HIDE DEF certs, proposals
<1>3. AttachEffect(st, evidence, [st EXCEPT !.proposals = proposals, !.votes = st.votes \cup evidence.votes,
                                            !.certs = certs])
  BY <1>2, Zenon DEF StateFields, AttachEffect, proposals
<1> QED BY <1>1, <1>3, Zenon

(* ImportBlockWithEvidence: the evidence is a quorum of signed votes.      *)
LEMMA EvidenceBacks ==
    ASSUME NEW st, NEW S, RecordsOK(st, S), NEW block, NEW evidence,
           EvidenceAccepted(st, block, evidence), EvidenceOK(evidence, S, block.height)
    PROVE  evidence.proposal.block = block /\ Backed(block, S)
<1> DEFINE p == evidence.proposal
<1>1. p.block = block /\ QuorumReached(votersForBlock(st.votes \cup evidence.votes, p.height, p.round, p.block))
  BY Zenon DEF EvidenceAccepted, EvidenceVoters
<1>2. PICK v \in evidence.votes : v \in S /\ v.round = p.round
  BY Zenon DEF EvidenceOK
<1>3. st.votes \cup evidence.votes \subseteq S /\ p.height = block.height
  BY Zenon DEF RecordsOK, EvidenceOK
<1>4. QuorumReached(votersForBlock(st.votes \cup evidence.votes, block.height, v.round, block))
  BY <1>1, <1>2, <1>3, Zenon
<1>5. Backed(block, S)
  BY <1>2, <1>3, <1>4, QuorumBacks, Zenon
<1> QED BY <1>1, <1>5, Zenon

(* The records stay in order.                                              *)
LEMMA AttachRecords ==
    ASSUME NEW st, NEW S, RecordsOK(st, S), NEW block, NEW evidence, EvidenceOK(evidence, S, block.height),
           evidence.proposal.block = block, Backed(block, S),
           block.height = Height(st) + 1, block.root.version = st.version,
           NEW next, AttachEffect(st, evidence, next)
    PROVE  RecordsOK(next, S) /\ \A A : Remembers(st, A) => Remembers(next, A)
<1> DEFINE p == evidence.proposal
<1>1. /\ CommittedOK(st, S) /\ IsSeq(st.proposals) /\ Height(st) \in Nat
      /\ st.votes \subseteq S /\ st.round \in Nat
  BY HeightNat, Zenon DEF RecordsOK
<1>2. /\ ProposalOK(p) /\ p.height = Height(st) + 1 /\ evidence.votes \subseteq S
      /\ \A v \in evidence.votes : v.height = Height(st) + 1
  BY Zenon DEF EvidenceOK
<1> HIDE DEF p
<1>3. IsSeq(next.proposals) /\ Elements(next.proposals) = Elements(st.proposals) \cup {p}
  BY <1>1, AppendFacts DEF AttachEffect, p
<1>4. /\ Height(next) = Height(st) /\ next.version = st.version /\ next.round = st.round
      /\ next.votes = st.votes \cup evidence.votes
  BY Zenon DEF Height, AttachEffect
<1>5. CommittedOK(next, S)
  BY <1>1, <1>4, Zenon DEF CommittedOK, AttachEffect
<1>6. \A q \in Elements(next.proposals) :
         /\ ProposalOK(q) /\ q.height <= Height(next) + 1
         /\ q.height = Height(next) + 1 => q.block.root.version = next.version
  BY <1>1, <1>2, <1>3, <1>4 DEF RecordsOK, p
<1>7. next.votes \subseteq S /\ \A v \in next.votes : v.height <= Height(next) + 1
  BY <1>1, <1>2, <1>4 DEF RecordsOK
<1>8. \A c \in next.certs : Backed(c.block, S)
  BY Zenon DEF RecordsOK, AttachEffect
<1>9. RecordsOK(next, S)
  BY <1>1, <1>3, <1>4, <1>5, <1>6, <1>7, <1>8, Zenon DEF RecordsOK
<1>10. \A A : Remembers(st, A) => Remembers(next, A)
  BY <1>4, Zenon DEF Remembers
<1> QED BY <1>9, <1>10, Zenon

-----------------------------------------------------------------------------
(* The states the handlers compute.                                        *)

(* The records are the same, the round is not earlier.                     *)
LEMMA NodeKeeps ==
    ASSUME NEW st, NEW n, NEW S, NEW A, NodeOK(st, n, S, A), VotesOK(S),
           NEW next, SameRecords(next, st), next.round \in Nat, st.round <= next.round,
           KeepsPending(st.actions, next.actions, Height(st))
    PROVE  NodeOK(next, n, S, A)
<1>1. RecordsOK(st, S) /\ RoundCovers(st) /\ Remembers(st, A) /\ Logged(st, n)
  BY Zenon DEF NodeOK
<1>2. RecordsOK(next, S) /\ RoundCovers(next) /\ Remembers(next, A)
  BY <1>1, RecordsSame, Zenon
<1>3. Logged(next, n)
  BY <1>1, LoggedKeeps, Zenon
<1> QED BY <1>2, <1>3, Zenon DEF NodeOK

(* Nothing of the records changes.                                         *)
LEMMA NodeSame ==
    ASSUME NEW st, NEW n, NEW S, NEW A, NodeOK(st, n, S, A), VotesOK(S),
           NEW next, SameRecords(next, st), next.round = st.round, next.actions = st.actions
    PROVE  NodeOK(next, n, S, A)
<1>1. LogOK(st.actions) /\ st.round \in Nat
  BY NodeParts, Zenon
<1>2. st.round <= next.round /\ next.round \in Nat
  BY <1>1
<1>3. KeepsPending(st.actions, next.actions, Height(st))
  BY <1>1, Zenon DEF KeepsPending
<1> QED BY <1>2, <1>3, NodeKeeps, Zenon

(* An action of another type is recorded.                                  *)
LEMMA NodeNotes ==
    ASSUME NEW st, NEW n, NEW S, NEW A, NodeOK(st, n, S, A), VotesOK(S),
           NEW type \in {"round_advance", "snapshot_sync", "block_commit", "block_import"},
           NEW h \in Nat, NEW r, NEW b, NEW v,
           NEW next, SameRecords(next, st), next.round \in Nat, st.round <= next.round,
           next.actions = recordAction(st.actions, NewAction(type, h, r, b, v))
    PROVE  NodeOK(next, n, S, A)
<1>1. LogOK(st.actions)
  BY NodeParts, Zenon
<1>2. KeepsPending(st.actions, next.actions, Height(st))
  BY <1>1, NoteFacts, Zenon
<1> QED BY <1>2, NodeKeeps, Zenon

(* A block is appended; what was pending for its height is completed.      *)
LEMMA NodeAppends ==
    ASSUME NEW st, NEW n, NEW S, NEW A, A \subseteq S, RecordsOK(st, S), Remembers(st, A), VotesOK(S),
           NEW block, block.height = Height(st) + 1, Admitted(block, S),
           NEW actions, PendingAbove(actions, Height(st) + 1)
    PROVE  NodeOK(WithLog(AppendBlock(st, block), actions), n, S, A)
<1> DEFINE built == AppendBlock(st, block)
           next == WithLog(built, actions)
<1>1. DOMAIN st = StateFields /\ IsSeq(st.proposals)
  BY Zenon DEF RecordsOK, CommittedOK
<1>2. /\ DOMAIN built = StateFields /\ built.chain = Append(st.chain, block)
      /\ built.version = st.version /\ built.round = 0 /\ built.proposals = st.proposals
      /\ built.votes = st.votes /\ built.certs = st.certs
  BY <1>1, AppendBlockFields, Zenon
<1> HIDE DEF built
<1>3. SameRecords(next, built) /\ next.round = built.round /\ next.actions = actions
  BY <1>2, OtherLog, Zenon
<1> HIDE DEF next
<1>4. Appended(next, st, block)
  BY <1>2, <1>3 DEF SameRecords, Appended
<1>5. /\ RecordsOK(next, S) /\ RoundCovers(next) /\ Height(next) = Height(st) + 1
      /\ \A B : Remembers(st, B) /\ B \subseteq S => Remembers(next, B)
      /\ \A p \in Elements(next.proposals) : p.height # Height(next) + 1
      /\ \A v \in next.votes : v.height # Height(next) + 1
  BY <1>4, RecordsAppend, Zenon
<1>6. Remembers(next, A) /\ IsSeq(next.proposals)
  BY <1>1, <1>4, <1>5, Zenon DEF Appended
<1>7. Logged(next, n)
  BY <1>3, <1>5, <1>6, LoggedFresh, Zenon
<1>8. NodeOK(next, n, S, A)
  BY <1>5, <1>6, <1>7, Zenon DEF NodeOK
<1> QED BY <1>8, Zenon DEF next, built

(* ImportBlockWithOptions, an accepted block with its certificate.         *)
LEMMA NodeImports ==
    ASSUME NEW st, NEW n, NEW S, NEW A, A \subseteq S, RecordsOK(st, S), Remembers(st, A), VotesOK(S),
           LogOK(st.actions), NEW block, block.height \in Nat, ImportVerdict(st, block) = "ok",
           Admitted(block, S)
    PROVE  NodeOK(Imported(st, block), n, S, A)
<1> DEFINE actions == completeUpTo(st.actions, block.height)
<1>1. DOMAIN st = StateFields /\ IsSeq(st.chain)
  BY Zenon DEF RecordsOK, CommittedOK
<1>2. block.height = Height(st) + 1
  BY <1>1, VerdictOk, Zenon
<1>3. PendingAbove(actions, Height(st) + 1)
  BY <1>2, CompletedLog, Zenon
<1>4. AppendBlock(st, block).actions = st.actions
  BY <1>1, AppendBlockFields, Zenon
<1>5. Imported(st, block) = WithLog(AppendBlock(st, block), actions)
  BY <1>4, Zenon DEF Imported, ImportBlock, WithLog
<1> HIDE DEF actions
<1> QED BY <1>2, <1>3, <1>5, NodeAppends, Zenon

(* A block imported again.                                                 *)
LEMMA NodeKnows ==
    ASSUME NEW st, NEW n, NEW S, NEW A, NodeOK(st, n, S, A), VotesOK(S),
           NEW block, block.height \in Nat, ImportVerdict(st, block) = "known"
    PROVE  NodeOK(Imported(st, block), n, S, A)
<1> DEFINE actions == completeUpTo(st.actions, block.height)
           next == WithLog(st, actions)
<1>1. DOMAIN st = StateFields /\ Height(st) \in Nat /\ st.round \in Nat /\ LogOK(st.actions)
  BY NodeParts, Zenon
<1>2. block.height <= Height(st)
  BY Zenon DEF ImportVerdict
<1>3. KeepsPending(st.actions, actions, Height(st))
  BY <1>1, <1>2, CompletedLog, Zenon
<1>4. Imported(st, block) = next
  BY Zenon DEF Imported, ImportBlock, WithLog
<1> HIDE DEF actions
<1>5. SameRecords(next, st) /\ next.round = st.round /\ next.actions = actions
  BY <1>1, OtherLog, Zenon
<1> HIDE DEF next
<1>6. next.round \in Nat /\ st.round <= next.round
  BY <1>1, <1>5
<1> QED BY <1>3, <1>4, <1>5, <1>6, NodeKeeps, Zenon

(* recordBlockImportFailure.                                               *)
LEMMA NodeRefuses ==
    ASSUME NEW st, NEW n, NEW S, NEW A, NodeOK(st, n, S, A), VotesOK(S),
           NEW block, block.height \in Nat
    PROVE  NodeOK(ImportFailed(st, block), n, S, A)
<1> DEFINE context == ContextOf(st, block)
           actions == recordAction(st.actions, NewAction("block_import", block.height,
                                     context.round, block, context.validator))
           next == WithLog(st, actions)
<1>1. DOMAIN st = StateFields /\ st.round \in Nat
  BY NodeParts, Zenon
<1>2. ImportFailed(st, block) = next
  BY Zenon DEF ImportFailed, WithLog
<1> HIDE DEF context
<1>3. SameRecords(next, st) /\ next.round = st.round /\ next.actions = actions
  <2> HIDE DEF actions
  <2> QED BY <1>1, OtherLog, Zenon
<1> HIDE DEF next
<1>4. next.round \in Nat /\ st.round <= next.round
  BY <1>1, <1>3
<1> QED BY <1>2, <1>3, <1>4, NodeNotes, Zenon

(* ImportBlockWithOptions: the block is certified, known or refused.       *)
LEMMA NodeDecides ==
    ASSUME NEW st, NEW n, NEW S, NEW A, A \subseteq S, NodeOK(st, n, S, A), VotesOK(S),
           NEW block, block.height \in Nat
    PROVE  /\ Importable(st, block) => NodeOK(Imported(st, block), n, S, A)
           /\ NodeOK(ImportFailed(st, block), n, S, A)
<1>1. RecordsOK(st, S) /\ Remembers(st, A) /\ LogOK(st.actions)
  BY NodeParts, Zenon
<1>2. ASSUME Importable(st, block) PROVE NodeOK(Imported(st, block), n, S, A)
  <2>1. /\ ImportVerdict(st, block) \in {"ok", "known"}
        /\ RequireCertificates => BlockCertified(st, block)
    BY <1>2, Zenon DEF Importable
  <2>2. Admitted(block, S)
    BY <1>1, <2>1, Zenon DEF Admitted, BlockCertified, RecordsOK
  <2>3. CASE ImportVerdict(st, block) = "ok"
    BY <1>1, <2>2, <2>3, NodeImports, Zenon
  <2>4. CASE ImportVerdict(st, block) = "known"
    BY <2>4, NodeKnows, Zenon
  <2> QED BY <2>1, <2>3, <2>4, Zenon
<1>3. NodeOK(ImportFailed(st, block), n, S, A)
  BY NodeRefuses, Zenon
<1> QED BY <1>2, <1>3, Zenon

(* What a restore from a snapshot writes.                                  *)
SnapshotState(st, snapshot, b, v) ==
    [RestoredState(st, snapshot) EXCEPT
       !.actions = recordAction(completeUpTo(@, Height(snapshot)),
                     NewAction("snapshot_sync", Height(snapshot), 0, b, v))]

(* RestoreQuorumSnapshot drops the records with what was acknowledged.     *)
LEMMA NodeRestores ==
    ASSUME NEW st, LogOK(st.actions), NEW n, NEW S, NEW snapshot, CommittedOK(snapshot, S),
           NEW b, NEW v
    PROVE  NodeOK(SnapshotState(st, snapshot, b, v), n, S, {})
<1> DEFINE h == Height(snapshot)
           restored == RestoredState(st, snapshot)
           done == completeUpTo(st.actions, h)
           actions == recordAction(done, NewAction("snapshot_sync", h, 0, b, v))
           next == WithLog(restored, actions)
<1>1. DOMAIN snapshot = StateFields /\ h \in Nat
  BY HeightNat, Zenon DEF CommittedOK
<1>2. /\ DOMAIN restored = StateFields /\ restored.chain = snapshot.chain
      /\ restored.version = snapshot.version /\ restored.round = 0
      /\ restored.proposals = << >> /\ restored.votes = {} /\ restored.certs = {}
      /\ restored.actions = st.actions
  BY <1>1, Zenon DEF RestoredState, StateFields
<1>3. SnapshotState(st, snapshot, b, v) = next
  BY <1>2, Zenon DEF SnapshotState, WithLog
<1> HIDE DEF restored
<1>4. PendingAbove(done, h)
  BY <1>1, CompletedLog, Zenon
<1>5. KeepsPending(done, actions, h)
  <2> HIDE DEF done, h
  <2> QED BY <1>1, <1>4, NoteFacts, Zenon DEF PendingAbove
<1> HIDE DEF actions, done
<1>6. PendingAbove(actions, h)
  BY <1>4, <1>5, AboveKept, Zenon
<1>7. SameRecords(next, restored) /\ next.round = restored.round /\ next.actions = actions
  BY <1>2, OtherLog, Zenon
<1> HIDE DEF next
<1>8. /\ DOMAIN next = StateFields /\ next.chain = snapshot.chain /\ next.version = snapshot.version
      /\ next.round \in Nat /\ next.proposals = << >> /\ next.votes = {} /\ next.certs = {}
  BY <1>2, <1>7 DEF SameRecords
<1>9. Height(next) = h
  BY <1>8, Zenon DEF Height
<1>10. CommittedOK(next, S)
  BY <1>8, <1>9, Zenon DEF CommittedOK
<1> HIDE DEF h
<1>11. RecordsOK(next, S) /\ RoundCovers(next)
  BY <1>8, <1>10, RecordsEmpty, Zenon
<1>12. Logged(next, n)
  BY <1>6, <1>7, <1>8, <1>9, EmptyFacts, LoggedFresh, Zenon
<1>13. NodeOK(next, n, S, {})
  BY <1>11, <1>12, Zenon DEF NodeOK, Remembers
<1> QED BY <1>3, <1>13, Zenon

(* What an election writes.                                                *)
ElectedState(st) ==
    [st EXCEPT !.version = @ + 1, !.round = 0, !.started = FALSE,
               !.proposals = << >>, !.votes = {}, !.certs = {}, !.actions = << >>]

(* handleElection: a new validator set, and no record of the old one.      *)
LEMMA NodeElects ==
    ASSUME NEW st, NEW n, NEW S, NEW A, A \subseteq S, NodeOK(st, n, S, A), VotesOK(S)
    PROVE  NodeOK(ElectedState(st), n, S, A)
<1> DEFINE next == ElectedState(st)
<1>1. CommittedOK(st, S) /\ DOMAIN st = StateFields /\ st.version \in Nat /\ Remembers(st, A)
  BY NodeParts, Zenon DEF CommittedOK
<1>2. /\ DOMAIN next = StateFields /\ next.chain = st.chain
      /\ next.version = st.version + 1 /\ next.round = 0 /\ next.proposals = << >>
      /\ next.votes = {} /\ next.certs = {} /\ next.actions = << >>
  BY <1>1, Zenon DEF StateFields, ElectedState
<1> HIDE DEF next
<1>3. next.version \in Nat /\ next.round \in Nat /\ Height(next) = Height(st)
  BY <1>1, <1>2 DEF Height
<1>4. CommittedOK(next, S)
  BY <1>1, <1>2, <1>3, Zenon DEF CommittedOK
<1>5. RecordsOK(next, S) /\ RoundCovers(next)
  BY <1>2, <1>3, <1>4, RecordsEmpty, Zenon
<1>6. Remembers(next, A)
  <2> SUFFICES ASSUME NEW v \in A
               PROVE  v.height <= Height(next) \/ v.block.root.version < next.version
    BY Zenon DEF Remembers
  <2>1. v.block.root.version \in Nat
    BY Zenon DEF VotesOK, VoteOK
  <2>2. v.height <= Height(st) \/ v.block.root.version <= st.version
    BY <1>1, <2>1 DEF Remembers
  <2> QED BY <1>1, <1>2, <1>3, <2>1, <2>2
<1>7. IsSeq(<< >>) /\ Elements(<< >>) = {}
  BY EmptyFacts, Zenon
<1>8. PendingAbove(next.actions, Height(next))
  BY <1>2, <1>7, Zenon DEF PendingAbove, LogOK, PendingIn
<1>9. Logged(next, n)
  BY <1>2, <1>7, <1>8, LoggedFresh, Zenon
<1>10. NodeOK(next, n, S, A)
  BY <1>5, <1>6, <1>9, Zenon DEF NodeOK
<1> QED BY <1>10, Zenon DEF next

(* What maybeAutomateProposal writes.                                      *)
ProposedState(st, p, n) ==
    [recordProposal(st, p) EXCEPT
       !.actions = recordAction(@, NewAction("proposal", p.height, p.round, p.block, n))]

(* maybeAutomateProposal.                                                  *)
LEMMA NodeProposes ==
    ASSUME NEW st, NEW n, NEW S, NEW A, NodeOK(st, n, S, A), VotesOK(S),
           NEW p, ProposalOK(p), ProposalAccepted(st, p), p \notin Elements(st.proposals)
    PROVE  NodeOK(ProposedState(st, p, n), n, S, A)
<1> DEFINE rec == recordProposal(st, p)
           actions == recordAction(st.actions, NewAction("proposal", p.height, p.round, p.block, n))
           next == WithLog(rec, actions)
<1>1. /\ RecordsOK(st, S) /\ RoundCovers(st) /\ Remembers(st, A) /\ Logged(st, n)
      /\ IsSeq(st.proposals) /\ DOMAIN st = StateFields /\ Height(st) \in Nat
  BY NodeParts, Zenon
<1>2. ProposalEffect(st, p, rec)
  BY <1>1, ProposalFields, Zenon
<1>3. rec.actions = st.actions /\ DOMAIN rec = StateFields
  BY <1>2, Zenon DEF ProposalEffect
<1>4. ProposedState(st, p, n) = next
  BY <1>3, Zenon DEF ProposedState, WithLog
<1> HIDE DEF rec
<1>5. RecordsOK(rec, S) /\ RoundCovers(rec) /\ Remembers(rec, A)
  BY <1>1, <1>2, ProposalRecords, Zenon
<1>6. SameRecords(next, rec) /\ next.round = rec.round /\ next.actions = actions
  <2> HIDE DEF actions
  <2> QED BY <1>3, OtherLog, Zenon
<1> HIDE DEF next
<1>7. rec.round \in Nat /\ rec.round <= rec.round
  BY <1>5 DEF RecordsOK
<1>8. RecordsOK(next, S) /\ RoundCovers(next) /\ Remembers(next, A)
  BY <1>5, <1>6, <1>7, RecordsSame, Zenon
<1>9. /\ next.chain = st.chain /\ next.votes = st.votes /\ next.proposals = Append(st.proposals, p)
  BY <1>2, <1>6, Zenon DEF ProposalEffect, SameRecords
<1>10. p.height = Height(st) + 1
  BY Zenon DEF ProposalAccepted
<1>11. Logged(next, n)
  BY <1>1, <1>6, <1>9, <1>10, OwnProposalLogged, Zenon
<1>12. NodeOK(next, n, S, A)
  BY <1>8, <1>11, Zenon DEF NodeOK
<1> QED BY <1>4, <1>12, Zenon

(* handleConsensusProposal.                                                *)
LEMMA NodeHearsProposal ==
    ASSUME NEW st, NEW n, NEW S, NEW A, NodeOK(st, n, S, A), VotesOK(S),
           NEW p, ProposalOK(p), ProposalAccepted(st, p), p.proposer # n
    PROVE  NodeOK(recordProposal(st, p), n, S, A)
<1> DEFINE next == recordProposal(st, p)
<1>1. /\ RecordsOK(st, S) /\ RoundCovers(st) /\ Remembers(st, A) /\ Logged(st, n)
      /\ IsSeq(st.proposals) /\ DOMAIN st = StateFields
  BY NodeParts, Zenon
<1>2. ProposalEffect(st, p, next)
  BY <1>1, ProposalFields, Zenon
<1> HIDE DEF next
<1>3. RecordsOK(next, S) /\ RoundCovers(next) /\ Remembers(next, A)
  BY <1>1, <1>2, ProposalRecords, Zenon
<1>4. /\ next.chain = st.chain /\ next.votes = st.votes /\ next.actions = st.actions
      /\ next.proposals = IF p \in Elements(st.proposals) THEN st.proposals
                                                          ELSE Append(st.proposals, p)
      /\ p.height = Height(st) + 1
  BY <1>2, Zenon DEF ProposalEffect, ProposalAccepted
<1>5. Height(next) = Height(st) /\ LatestVote(next, n) = LatestVote(st, n)
  BY <1>4, LatestSame, Zenon
<1>6. LatestProposal(next) = LatestProposal(st) \/ LatestProposal(next) = {p}
  <2>1. CASE p \in Elements(st.proposals)
    BY <1>4, <2>1, LatestSame
  <2>2. CASE p \notin Elements(st.proposals)
    BY <1>1, <1>4, <1>5, <2>2, LatestNew
  <2> QED BY <2>1, <2>2, Zenon
<1>7. Logged(next, n)
  BY <1>1, <1>4, <1>5, <1>6 DEF Logged
<1>8. NodeOK(next, n, S, A)
  BY <1>3, <1>7, Zenon DEF NodeOK
<1> QED BY <1>8, Zenon DEF next

(* handleConsensusVote.                                                    *)
LEMMA NodeHearsVote ==
    ASSUME NEW st, NEW n, NEW S, NEW A, NodeOK(st, n, S, A), VotesOK(S),
           NEW v \in S, VoteAccepted(st, v), v.voter # n
    PROVE  NodeOK(recordVote(st, v), n, S, A)
<1> DEFINE next == recordVote(st, v)
<1>1. /\ RecordsOK(st, S) /\ RoundCovers(st) /\ Remembers(st, A) /\ Logged(st, n)
      /\ DOMAIN st = StateFields
  BY NodeParts, Zenon
<1>2. VoteEffect(st, v, next)
  BY <1>1, VoteFields, Zenon
<1> HIDE DEF next
<1>3. RecordsOK(next, S) /\ RoundCovers(next) /\ Remembers(next, A)
  BY <1>1, <1>2, VoteRecords, Zenon
<1>4. /\ next.chain = st.chain /\ next.votes = st.votes \cup {v} /\ next.actions = st.actions
      /\ next.proposals = st.proposals
  BY <1>2, Zenon DEF VoteEffect
<1>5. Height(next) = Height(st) /\ LatestProposal(next) = LatestProposal(st)
  BY <1>4, LatestSame, Zenon
<1>6. LatestVote(next, n) = LatestVote(st, n)
  BY <1>4, <1>5, Zenon DEF LatestVote
<1>7. Logged(next, n)
  BY <1>1, <1>4, <1>5, <1>6, Zenon DEF Logged
<1>8. NodeOK(next, n, S, A)
  BY <1>3, <1>7, Zenon DEF NodeOK
<1> QED BY <1>8, Zenon DEF next

(* What maybeAutomateVote writes.                                          *)
VotedState(st, v, n) ==
    [recordVote(st, v) EXCEPT
       !.actions = recordAction(@, NewAction("vote", v.height, v.round, v.block, n))]

(* maybeAutomateVote: what HasVote rules out is what Remembers keeps.      *)
LEMMA NodeVotes ==
    ASSUME NEW st, NEW n, NEW S, NEW A, NodeOK(st, n, S, A), VotesOK(S),
           NEW v \in S, VoteAccepted(st, v), OwnVote(st, n, v)
    PROVE  /\ NodeOK(VotedState(st, v, n), n, S, A)
           /\ NodeOK(VotedState(st, v, n), n, S, A \cup {v})
<1> DEFINE rec == recordVote(st, v)
           actions == recordAction(st.actions, NewAction("vote", v.height, v.round, v.block, n))
           next == WithLog(rec, actions)
<1>1. /\ RecordsOK(st, S) /\ RoundCovers(st) /\ Remembers(st, A) /\ Logged(st, n)
      /\ Height(st) \in Nat /\ DOMAIN st = StateFields
  BY NodeParts, Zenon
<1>2. VoteEffect(st, v, rec)
  BY <1>1, VoteFields, Zenon
<1>3. rec.actions = st.actions /\ DOMAIN rec = StateFields
  BY <1>2, Zenon DEF VoteEffect
<1>4. VotedState(st, v, n) = next
  BY <1>3, Zenon DEF VotedState, WithLog
<1> HIDE DEF rec
<1>5. RecordsOK(rec, S) /\ RoundCovers(rec) /\ Remembers(rec, A)
  BY <1>1, <1>2, VoteRecords, Zenon
<1>6. SameRecords(next, rec) /\ next.round = rec.round /\ next.actions = actions
  <2> HIDE DEF actions
  <2> QED BY <1>3, OtherLog, Zenon
<1> HIDE DEF next
<1>7. rec.round \in Nat /\ rec.round <= rec.round
  BY <1>5 DEF RecordsOK
<1>8. RecordsOK(next, S) /\ RoundCovers(next) /\ Remembers(next, A)
  BY <1>5, <1>6, <1>7, RecordsSame, Zenon
<1>9. /\ next.chain = st.chain /\ next.proposals = st.proposals /\ next.votes = st.votes \cup {v}
      /\ next.version = st.version
  BY <1>2, <1>6, Zenon DEF VoteEffect, SameRecords
<1>10. VoteOK(v) /\ v.block.root.version = st.version
  BY <1>1, OwnVoteNew, Zenon
<1>11. Remembers(next, A \cup {v})
  BY <1>8, <1>9, <1>10, Zenon DEF Remembers
<1>12. v.height = Height(st) + 1 /\ v.round = st.round /\ v.voter = n /\ v.round \in Nat
  BY <1>10, Zenon DEF OwnVote, VoteOK
<1>13. ASSUME NEW w \in st.votes, w.height = Height(st) + 1, w.voter = n
       PROVE  w.round \in Nat /\ w.round < v.round
  <2>1. w.round \in Nat /\ w.round <= st.round
    BY <1>1, <1>13, Zenon DEF RecordsOK, VotesOK, VoteOK, RoundCovers
  <2>2. w.round # st.round
    BY <1>13, Zenon DEF OwnVote, HasVote
  <2> QED BY <1>12, <2>1, <2>2
<1>14. Logged(next, n)
  BY <1>1, <1>6, <1>9, <1>12, <1>13, OwnVoteLogged, Zenon
<1>15. NodeOK(next, n, S, A) /\ NodeOK(next, n, S, A \cup {v})
  BY <1>8, <1>11, <1>14, Zenon DEF NodeOK
<1> QED BY <1>4, <1>15, Zenon

(* What maybeAutomateCommit writes.                                        *)
CommittedState(st, p) ==
    [AppendBlock(st, p.block) EXCEPT
       !.actions = recordAction(completeUpTo(@, p.height),
                     NewAction("block_commit", p.height, p.round, p.block, p.proposer))]

(* maybeAutomateCommit.                                                    *)
LEMMA NodeCommits ==
    ASSUME NEW st, NEW n, NEW S, NEW A, A \subseteq S, NodeOK(st, n, S, A), VotesOK(S),
           NEW p \in Elements(st.proposals), BlockCertified(st, p.block),
           ImportVerdict(st, p.block) = "ok"
    PROVE  NodeOK(CommittedState(st, p), n, S, A) /\ p.block.height \in Nat
<1> DEFINE done == completeUpTo(st.actions, p.height)
           actions == recordAction(done, NewAction("block_commit", p.height, p.round, p.block, p.proposer))
<1>1. /\ RecordsOK(st, S) /\ Remembers(st, A) /\ LogOK(st.actions)
      /\ DOMAIN st = StateFields /\ IsSeq(st.chain)
  BY NodeParts, Zenon
<1>2. p.block.height = p.height /\ p.height \in Nat
  BY <1>1, Zenon DEF RecordsOK, ProposalOK
<1>3. p.block.height = Height(st) + 1
  BY <1>1, <1>2, VerdictOk, Zenon
<1>4. AppendBlock(st, p.block).actions = st.actions
  BY <1>1, AppendBlockFields, Zenon
<1>5. CommittedState(st, p) = WithLog(AppendBlock(st, p.block), actions)
  BY <1>4, Zenon DEF CommittedState, WithLog
<1>6. Admitted(p.block, S)
  BY <1>1, Zenon DEF Admitted, BlockCertified, RecordsOK
<1>7. PendingAbove(done, p.height)
  BY <1>1, <1>2, CompletedLog, Zenon
<1>8. KeepsPending(done, actions, p.height)
  <2> HIDE DEF done
  <2> QED BY <1>2, <1>7, NoteFacts, Zenon DEF PendingAbove
<1> HIDE DEF actions, done
<1>9. PendingAbove(actions, Height(st) + 1)
  BY <1>2, <1>3, <1>7, <1>8, AboveKept, Zenon
<1>10. NodeOK(CommittedState(st, p), n, S, A)
  BY <1>1, <1>3, <1>5, <1>6, <1>9, NodeAppends, Zenon
<1> QED BY <1>2, <1>10, Zenon

(* recoverCertifiedBlockFromPeers.                                         *)
LEMMA NodeRecovers ==
    ASSUME NEW st, NEW n, NEW S, NEW A, A \subseteq S, NodeOK(st, n, S, A), VotesOK(S),
           NEW block, block.height \in Nat, ImportVerdict(st, block) = "ok",
           NEW evidence, EvidenceAccepted(st, block, evidence), EvidenceOK(evidence, S, block.height)
    PROVE  NodeOK(Imported(attachEvidence(st, evidence), block), n, S, A)
<1> DEFINE attached == attachEvidence(st, evidence)
<1>1. /\ RecordsOK(st, S) /\ Remembers(st, A) /\ LogOK(st.actions)
      /\ DOMAIN st = StateFields /\ IsSeq(st.chain)
  BY NodeParts, Zenon
<1>2. /\ block.height = Height(st) + 1
      /\ block.root = stateRoot(st, Execute(st.accounts, block.txs).accounts)
  BY <1>1, VerdictOk, Zenon
<1>3. block.root.version = st.version
  BY <1>2 DEF stateRoot
<1>4. evidence.proposal.block = block /\ Backed(block, S)
  BY <1>1, EvidenceBacks, Zenon
<1>5. AttachEffect(st, evidence, attached)
  BY <1>1, AttachFields, Zenon
<1> HIDE DEF attached
<1>6. RecordsOK(attached, S) /\ Remembers(attached, A)
  BY <1>1, <1>2, <1>3, <1>4, <1>5, AttachRecords, Zenon
<1>7. ImportVerdict(attached, block) = "ok"
  <2>1. /\ attached.chain = st.chain /\ attached.accounts = st.accounts
        /\ attached.committed = st.committed /\ attached.funded = st.funded
        /\ attached.version = st.version
    BY <1>5, Zenon DEF AttachEffect
  <2>2. /\ Tip(attached) = Tip(st) /\ Height(attached) = Height(st)
        /\ \A accounts : stateRoot(attached, accounts) = stateRoot(st, accounts)
    BY <2>1, Zenon DEF Tip, stateRoot, Height
  <2>3. ImportVerdict(attached, block) = ImportVerdict(st, block)
    BY <2>1, <2>2, Zenon DEF ImportVerdict
  <2> QED BY <2>3, Zenon
<1>8. LogOK(attached.actions) /\ Admitted(block, S)
  BY <1>1, <1>4, <1>5, Zenon DEF AttachEffect, Admitted
<1>9. NodeOK(Imported(attached, block), n, S, A)
  BY <1>6, <1>7, <1>8, NodeImports, Zenon
<1> QED BY <1>9, Zenon DEF attached
=============================================================================
