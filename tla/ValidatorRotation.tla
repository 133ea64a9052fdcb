------------------------- MODULE ValidatorRotation -------------------------
(***************************************************************************)
(* Handing the chain from one validator set to the next: the candidate     *)
(* that names its successor set, the commit that advances the runtime's    *)
(* trust root, and the checkpoint chains that follow the certified headers *)
(* (internal/v2/node/validator_transition.go, internal/v2/checkpoint).     *)
(* A validator set stands for its root.  A header is its own hash.  The    *)
(* sets sign at most one header per height (ValidatorService); sets that   *)
(* have been replaced go on signing what their nodes build.                *)
(***************************************************************************)
EXTENDS Naturals, FiniteSets, Sequences

CONSTANTS
    Nodes,              \* the runtimes
    ValidatorSets,      \* the validator sets, by root
    GenesisSet,         \* the set genesis names
    Followers,          \* the checkpoint chains
    MaxRotationHeight,  \* bound: height of the chain
    MaxRestarts         \* bound: restarts of nodes

\* No root at all, the zero hash.
NoRoot == "none"

ASSUME RotationAssumption ==
    /\ GenesisSet \in ValidatorSets
    /\ NoRoot \notin ValidatorSets

VARIABLES
    runtime,    \* per node: tip, trust root, and the root still to be installed
    candidate,  \* the headers that have been built
    certified,  \* the headers that carry a quorum certificate of their set
    chain,      \* per follower: the checkpoint chain
    restarts    \* restarts so far

rotationVars == <<runtime, candidate, certified, chain, restarts>>

\* The parent of the first block, and the height of a tip.
Genesis == [height |-> 0]

RotationInit ==
    /\ runtime = [n \in Nodes |-> [tip |-> Genesis, root |-> GenesisSet, pending |-> NoRoot]]
    /\ candidate = {}
    /\ certified = {}
    /\ chain = [f \in Followers |->
         [root |-> GenesisSet, last |-> Genesis, entries |-> <<>>, sets |-> {GenesisSet}]]
    /\ restarts = 0

\* The header of BuildCandidate: the runtime's tip and trust root.
Header(n, next) ==
    [height |-> runtime[n].tip.height + 1, parent |-> runtime[n].tip,
     root   |-> runtime[n].root, next |-> next]

\* GlobalHeader.EffectiveNextValidatorRoot.
EffectiveNextValidatorRoot(h) == IF h.next = NoRoot THEN h.root ELSE h.next

\* BuildCandidate, after which ScheduleValidatorTransition may put another set in
\* place of the present one.  A candidate can be built while a commit has
\* released the lock and not yet installed the new root.
BuildCandidate(n, next) ==
    /\ runtime[n].tip.height < MaxRotationHeight
    /\ Header(n, next) \notin candidate
    /\ candidate' = candidate \cup {Header(n, next)}
    /\ UNCHANGED <<runtime, certified, chain, restarts>>

\* The set the header names certifies it (external): one header per height.
Certify(h) ==
    /\ h \notin certified
    /\ \A g \in certified : ~(g.height = h.height /\ g.root = h.root)
    /\ certified' = certified \cup {h}
    /\ UNCHANGED <<runtime, candidate, chain, restarts>>

\* CommitWithValidatorTransition up to the return of Commit: the certificate is
\* that of the runtime's own trust root.  One goroutine commits at a time.
CommitHeader(n, h) ==
    /\ runtime[n].pending = NoRoot
    /\ h.parent = runtime[n].tip
    /\ h.height = runtime[n].tip.height + 1
    /\ h.root = runtime[n].root
    /\ runtime' = [runtime EXCEPT ![n].tip = h,
                                  ![n].pending = EffectiveNextValidatorRoot(h)]
    /\ UNCHANGED <<candidate, certified, chain, restarts>>

\* Its second half: the lock is taken again and the next root installed.
InstallRoot(n) ==
    /\ runtime[n].pending # NoRoot
    /\ runtime' = [runtime EXCEPT ![n].root = runtime[n].pending, ![n].pending = NoRoot]
    /\ UNCHANGED <<candidate, certified, chain, restarts>>

\* A node restarts.  The trust root is not persisted: recovery accepts a runtime
\* only when it is configured with the root of the last journaled header, and
\* leaves that root in place, whatever set the header named as its successor.
RestartNode(n) ==
    /\ restarts < MaxRestarts
    /\ runtime[n].tip # Genesis
    /\ runtime' = [runtime EXCEPT ![n].root = runtime[n].tip.root, ![n].pending = NoRoot]
    /\ restarts' = restarts + 1
    /\ UNCHANGED <<candidate, certified, chain>>

\* A chain that takes the header's own word for the set that signs it.
AppendableTrusting(c, h, current, next) ==
    /\ h.height = c.last.height + 1
    /\ c.last.height > 0 => h.parent = c.last
    /\ h.root = current
    /\ h \in certified
    /\ next \in {NoRoot, EffectiveNextValidatorRoot(h)}

\* The checks of checkpoint.Chain.Append on a header, the set said to have signed
\* it and, when it hands over, the next set.
Appendable(c, h, current, next) ==
    /\ h.height = c.last.height + 1
    /\ c.last.height > 0 => h.parent = c.last
    /\ current = c.root
    /\ h.root = current
    /\ h \in certified
    /\ IF EffectiveNextValidatorRoot(h) # current
         THEN next = EffectiveNextValidatorRoot(h)
         ELSE next \in {NoRoot, current}

\* Chain.Append by a follower that receives certified headers in any order, any
\* number of times.
AppendCheckpoint(f, h, current, next) ==
    /\ Appendable(chain[f], h, current, next)
    /\ chain' = [chain EXCEPT ![f] =
         [root    |-> EffectiveNextValidatorRoot(h),
          last    |-> h,
          entries |-> Append(@.entries, h),
          sets    |-> @.sets \cup ({current, next} \ {NoRoot})]]
    /\ UNCHANGED <<runtime, candidate, certified, restarts>>

\* Chain.VerifyEntry: an entry is checked again against the set stored with it.
VerifyEntry(f, i) ==
    LET entry == chain[f].entries[i]
    IN  entry \in certified /\ entry.root \in chain[f].sets

RotationNext ==
    \/ \E n \in Nodes :
         \/ \E next \in ValidatorSets : BuildCandidate(n, next)
         \/ \E h \in certified : CommitHeader(n, h)
         \/ InstallRoot(n)
         \/ RestartNode(n)
    \/ \E h \in candidate : Certify(h)
    \/ \E f \in Followers, h \in certified, current \in ValidatorSets,
          next \in ValidatorSets \cup {NoRoot} : AppendCheckpoint(f, h, current, next)

RotationSpec == RotationInit /\ [][RotationNext]_rotationVars

\* Whatever order the certified headers reach them in, two checkpoint chains hold
\* the same header at every height they both have; each entry is certified by the
\* set the entry before it handed over to; and the set that may sign next is
\* known.  This holds though a node that built in the window of
\* validator_transition.go:33-40, or restarted after a hand-over, has its former
\* set certify a rival header.
CheckpointsAgree ==
    \A f \in Followers :
      LET entries == chain[f].entries
      IN  /\ chain[f].root \in chain[f].sets
          /\ \A i \in 1..Len(entries) :
               /\ VerifyEntry(f, i)
               /\ entries[i].height = i
               /\ entries[i].root = (IF i = 1 THEN GenesisSet
                                     ELSE EffectiveNextValidatorRoot(entries[i - 1]))
               /\ \A g \in Followers :
                    i <= Len(chain[g].entries) => chain[g].entries[i] = entries[i]
=============================================================================
