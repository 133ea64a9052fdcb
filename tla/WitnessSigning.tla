--------------------------- MODULE WitnessSigning ---------------------------
(***************************************************************************)
(* The guards a finality witness passes before its key may sign a          *)
(* checkpoint, and the bundles assembled from the signatures               *)
(* (internal/v2/node/witness_*.go).  A witness opens its intent journal    *)
(* with the tip its runtime has certified, reserves that tip durably, and  *)
(* then either signs, or first compares it with the bundle that publishers *)
(* serve, or first obtains a grant from a remote fencing authority.  The   *)
(* key and the authority are outside the repository.  Witnesses may be     *)
(* provisioned on rival branches, stop at any point and reopen, fail in    *)
(* the middle of a write, or have their journal restored from a backup.    *)
(***************************************************************************)
EXTENDS FinalityAnchor, FiniteSets

CONSTANTS
    Witnesses,        \* the pinned witness keys
    Deployments,      \* the deployments considered: see `deployment'
    Checkpoints       \* the checkpoints a runtime may have certified

ASSUME WitnessAssumption ==
    /\ IsFiniteSet(Witnesses)
    /\ Checkpoints \subseteq [height : Nat, hash : {cp.hash : cp \in Checkpoints}]

VARIABLES
    intents,    \* the intent journal file of each witness
    witness,    \* the process of each witness
    signed,     \* the checkpoints each key has signed
    authority,  \* the checkpoint the fencing authority granted last
    bundles,    \* the checkpoints of the assembled bundles
    mishaps,    \* failed writes so far, and the witnesses whose journal was restored
    deployment  \* fixed: the guards in use, and a bound on failed writes

witnessVars == <<intents, witness, signed, authority, bundles, mishaps, deployment>>

Down == [up |-> FALSE]

WitnessInit ==
    /\ intents = [w \in Witnesses |-> NoAnchor]
    /\ witness = [w \in Witnesses |-> Down]
    /\ signed = [w \in Witnesses |-> {}]
    /\ authority = NoCheckpoint
    /\ bundles = {}
    /\ mishaps = [writes |-> 0, restored |-> {}]
    /\ deployment \in Deployments

\* OpenWitnessSigningIntentJournal over the verifier of the runtime's certified
\* tip: the verifier is an immutable snapshot, so a new tip needs a new journal
\* object.
OpenJournal(w, cp) ==
    LET create == intents[w] = NoAnchor
    IN  /\ ~witness[w].up
        /\ CanOpenAnchor(intents[w], create)
        /\ intents' = [intents EXCEPT ![w] = OpenedFile(@, create)]
        /\ witness' = [witness EXCEPT ![w] =
             [up |-> TRUE, certified |-> cp, task |-> "idle",
              store |-> OpenFinalityAnchorStore(intents'[w])]]
        /\ UNCHANGED <<signed, authority, bundles, mishaps, deployment>>

\* RuntimeWitnessFinalityVerifier.VerifyFinalizedCheckpoint: only the certified
\* tip itself passes.
VerifyFinalizedCheckpoint(w, cp) == cp = witness[w].certified

\* The part the three guards share: the checkpoint is verified and then recorded
\* before anything else is asked.  `task' is what the caller goes on with:
\* "granted" for ReserveFinalizedIntent and ReserveRuntimeVerifiedWitnessTip,
\* "reconcile" for ReserveAndReconcileWitnessIntent, "fence" for
\* ReserveAndVerifyWitnessFence.
Reserve(w, cp, task) ==
    /\ witness[w].up
    /\ witness[w].task = "idle"
    /\ VerifyFinalizedCheckpoint(w, cp)
    /\ \E result \in advance(witness[w].store, intents[w], cp) :
         /\ result.store.poisoned /\ ~witness[w].store.poisoned
              => mishaps.writes < deployment.failures
         /\ intents' = [intents EXCEPT ![w] = result.file]
         /\ witness' = [witness EXCEPT
              ![w].store = result.store,
              ![w].task = IF result.ok /\ result.store.tip = cp THEN task ELSE "idle"]
         /\ mishaps' = [mishaps EXCEPT !.writes =
              IF result.store.poisoned /\ ~witness[w].store.poisoned THEN @ + 1 ELSE @]
    /\ UNCHANGED <<signed, authority, bundles, deployment>>

\* The end of ReserveAndReconcileWitnessIntent: the floor the publishers serve,
\* or no floor, arrives while the journal is locked.
Reconcile(w, floor) ==
    /\ witness[w].up
    /\ witness[w].task = "reconcile"
    /\ witness' = [witness EXCEPT ![w].task =
         IF floor = witness[w].certified /\ VerifyFinalizedCheckpoint(w, floor)
           THEN "granted" ELSE "idle"]
    /\ UNCHANGED <<intents, signed, authority, bundles, mishaps, deployment>>

\* ReconcileWitnessIntentWithExternalFloor: a reopened journal is compared with the floor
\* without a new reservation.
ReconcileExternalFloor(w, floor) ==
    LET local == witness[w].store.tip
    IN  /\ witness[w].up
        /\ witness[w].task = "idle"
        /\ ~witness[w].store.poisoned
        /\ local.height > 0
        /\ floor = local
        /\ VerifyFinalizedCheckpoint(w, floor)
        /\ witness' = [witness EXCEPT ![w].task = "granted"]
        /\ UNCHANGED <<intents, signed, authority, bundles, mishaps, deployment>>

\* The fencing authority (external): it records the checkpoint it grants and
\* grants nothing lower and no rival.  Its answer may be lost, after which the
\* call fails with the reservation in place on both sides.
ReserveWitnessFence(w, answered) ==
    LET cp == witness[w].certified
    IN  /\ witness[w].up
        /\ witness[w].task = "fence"
        /\ IF cp.height > authority.height \/ cp = authority
             THEN /\ authority' = cp
                  /\ witness' = [witness EXCEPT ![w].task =
                       IF answered THEN "granted" ELSE "idle"]
             ELSE /\ authority' = authority
                  /\ witness' = [witness EXCEPT ![w].task = "idle"]
        /\ UNCHANGED <<intents, signed, bundles, mishaps, deployment>>

\* The custodian of the key (external) signs what a guard has let through.
Sign(w) ==
    /\ witness[w].up
    /\ witness[w].task = "granted"
    /\ signed' = [signed EXCEPT ![w] = @ \cup {witness[w].certified}]
    /\ witness' = [witness EXCEPT ![w].task = "idle"]
    /\ UNCHANGED <<intents, authority, bundles, mishaps, deployment>>

\* The process stops, or the journal is closed.
StopWitness(w) ==
    /\ witness[w].up
    /\ witness' = [witness EXCEPT ![w] = Down]
    /\ UNCHANGED <<intents, signed, authority, bundles, mishaps, deployment>>

\* The number of signatures a bundle needs.
threshold == (2 * Cardinality(Witnesses)) \div 3 + 1

\* A parser that checks each signature against the checkpoint its signer sent.
ParseSignedWitnessCheckpointLoose(cp, signers) ==
    /\ ValidCheckpoint(cp)
    /\ signers \subseteq Witnesses
    /\ Cardinality(signers) >= threshold
    /\ \A w \in signers : signed[w] # {}

\* ParseSignedWitnessCheckpoint: enough distinct pinned keys, every signature
\* over this checkpoint.
ParseSignedWitnessCheckpoint(cp, signers) ==
    /\ ValidCheckpoint(cp)
    /\ signers \subseteq Witnesses
    /\ Cardinality(signers) >= threshold
    /\ \A w \in signers : cp \in signed[w]

\* AssembleSignedWitnessCheckpoint: the signatures at hand are sorted and the
\* bundle is parsed back before it is released.
Assemble(cp, signers) ==
    /\ cp \notin bundles
    /\ ParseSignedWitnessCheckpoint(cp, signers)
    /\ bundles' = bundles \cup {cp}
    /\ UNCHANGED <<intents, witness, signed, authority, mishaps, deployment>>

\* An operator restores the journal of a stopped witness from an older copy.
RestoreJournal(w, kept) ==
    /\ ~witness[w].up
    /\ intents[w] # NoAnchor
    /\ kept < Len(intents[w].records)
    /\ 2 * threshold - Cardinality(Witnesses) > Cardinality(mishaps.restored \cup {w})
    /\ intents' = [intents EXCEPT ![w] = AnchorFile(SubSeq(@.records, 1, kept), FALSE)]
    /\ mishaps' = [mishaps EXCEPT !.restored = @ \cup {w}]
    /\ UNCHANGED <<witness, signed, authority, bundles, deployment>>

WitnessNext ==
    \/ \E w \in Witnesses :
         \/ \E cp \in Checkpoints : OpenJournal(w, cp)
         \/ \E cp \in Checkpoints, task \in deployment.guards : Reserve(w, cp, task)
         \/ \E floor \in bundles \cup {NoCheckpoint} : Reconcile(w, floor)
         \/ \E floor \in bundles : ReconcileExternalFloor(w, floor)
         \/ \E answered \in BOOLEAN : ReserveWitnessFence(w, answered)
         \/ Sign(w)
         \/ StopWitness(w)
         \/ \E kept \in 0..AnchorLimit : RestoreJournal(w, kept)
    \/ \E cp \in Checkpoints, signers \in SUBSET Witnesses : Assemble(cp, signers)

WitnessSpec == WitnessInit /\ [][WitnessNext]_witnessVars

\* CheckWitnessQuorumConsistency of two bundles that parse.
CheckWitnessQuorumConsistency(c, d) == c.height = d.height => c.hash = d.hash

\* VerifyWitnessEvidenceSet accepts these bundles: some, at most 64, and no two of
\* them contradict each other.
VerifyWitnessEvidenceSet(claims) ==
    /\ claims # {}
    /\ Cardinality(claims) <= 64
    /\ \A c, d \in claims : CheckWitnessQuorumConsistency(c, d)

\* The bundles that get assembled never name two headers for one height, though
\* witnesses run on rival branches, stop between the reservation and the
\* signature, fail while writing it, and as many journals as the threshold leaves
\* room for are restored from a backup
\* (witness_signing_intent.go, witness_checkpoint.go); so the evidence check of a
\* recovery accepts any two of them.
BundlesAgree ==
    \A c, d \in bundles : CheckWitnessQuorumConsistency(c, d) /\ VerifyWitnessEvidenceSet({c, d})
=============================================================================
