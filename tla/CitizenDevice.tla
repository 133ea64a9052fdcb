--------------------------- MODULE CitizenDevice ---------------------------
(***************************************************************************)
(* A light client of the v2 chain: the mobile Citizen node, which follows  *)
(* the validator sets by a trust anchor without a height (mobile/          *)
(* citizen.go), and the challenges it puts to devices whose credentials    *)
(* are objects of the finalized state (internal/v2/citizen,                *)
(* internal/v2/devicecredential).  The chain registers, updates and        *)
(* revokes one owner's credential and hands over between validator sets;   *)
(* servers answer with bundles of any height, in any order, and with those *)
(* of another chain.  Merkle and signature checks are exact: a bundle that *)
(* does not verify is one whose header, set or object is not the one it    *)
(* claims.                                                                 *)
(***************************************************************************)
EXTENDS Naturals, FiniteSets, Sequences

CONSTANTS
    CommitteeSets,    \* the validator sets of the chain, by root
    FirstSet,         \* the set of genesis
    OtherSet,         \* the validator set of another chain
    CredentialSpecs,  \* what an owner may register: [key, capabilities, expires]
    Calls,            \* concurrent calls into the Citizen node
    MaxLightHeight,   \* bound: height of the chain
    MaxAnswers        \* bound: challenges answered

ASSUME LightAssumption ==
    /\ FirstSet \in CommitteeSets
    /\ OtherSet \notin CommitteeSets
    /\ MaxLightHeight \in Nat

VARIABLES
    ledger,    \* the finalized headers, with the credential object each commits
    citizen,   \* the trust anchor of the Citizen node: a validator root
    call,      \* per call: the anchor it has read, or NoCall
    answers,   \* the challenges devices have signed
    evidence   \* the evidence the verifier has accepted

lightVars == <<ledger, citizen, call, answers, evidence>>

NoCredential == [present |-> FALSE]
NoCall == "none"

LightInit ==
    /\ ledger = <<>>
    /\ citizen = FirstSet
    /\ call = [c \in Calls |-> NoCall]
    /\ answers = {}
    /\ evidence = {}

LastRoot == IF ledger = <<>> THEN FirstSet ELSE ledger[Len(ledger)].next
LastCredential == IF ledger = <<>> THEN NoCredential ELSE ledger[Len(ledger)].credential
LastObject ==
    Cardinality({i \in 1..Len(ledger) :
      ledger[i].credential.present /\ ledger[i].credential.sequence = 1
      /\ ledger[i].credential.issued = ledger[i].height})

\* Credential.Validate as far as heights go; an expiry of 0 is none.
ValidCredential(c) == c.expires = 0 \/ c.expires > c.issued

\* The credential object executeDeviceCredentialRegister creates in a block of
\* this height and, for a later sequence, executeDeviceCredentialUpdate.
Credential(object, sequence, height, spec) ==
    [present |-> TRUE, object |-> object, sequence |-> sequence, issued |-> height,
     key |-> spec.key, capabilities |-> spec.capabilities, expires |-> spec.expires]

\* What one block can do to the credential: nothing, a registration under a new
\* object, an update of the present one, or its revocation.
Successors(height) ==
    LET cur == LastCredential
        Issue(object, sequence) ==
          {c \in {Credential(object, sequence, height, spec) : spec \in CredentialSpecs} :
             ValidCredential(c)}
    IN  {cur} \cup (IF cur.present
                      THEN {NoCredential} \cup Issue(cur.object, cur.sequence + 1)
                      ELSE Issue(LastObject + 1, 1))

\* A block is finalized by the present set, which names the next one.
FinalizeBlock(next, credential) ==
    /\ Len(ledger) < MaxLightHeight
    /\ ledger' = Append(ledger, [height |-> Len(ledger) + 1, root |-> LastRoot,
                                 next |-> next, credential |-> credential])
    /\ UNCHANGED <<citizen, call, answers, evidence>>

\* What servers may send: the bundle of a finalized header, or one of another
\* chain that is certified by that chain's own set.
Bundles ==
    {ledger[i] : i \in 1..Len(ledger)}
      \cup {[height |-> 1, root |-> OtherSet, next |-> OtherSet, credential |-> NoCredential]}

\* VerifyObjectBundle: the header is certified by the set of the anchor, and the
\* object, or its absence, is proved against the header's state.
VerifyObjectBundle(bundle, anchor) == bundle.root = anchor

\* CitizenNode.VerifyObjectBundle reads the anchor under the lock ...
ReadAnchor(c) ==
    /\ call[c] = NoCall
    /\ call' = [call EXCEPT ![c] = citizen]
    /\ UNCHANGED <<ledger, citizen, answers, evidence>>

\* ... verifies without it, and takes it again to move the anchor to the set the
\* bundle's header hands over to.  Another call may have moved it in between.
MoveAnchor(c, bundle) ==
    /\ call[c] # NoCall
    /\ call' = [call EXCEPT ![c] = NoCall]
    /\ citizen' = IF VerifyObjectBundle(bundle, call[c]) THEN bundle.next ELSE citizen
    /\ UNCHANGED <<ledger, answers, evidence>>

\* Credential.ActiveAt.
ActiveAt(c, height) ==
    /\ ValidCredential(c)
    /\ height >= c.issued
    /\ c.expires = 0 \/ height < c.expires

\* ParseVerifiedDeviceCredential: a present, active credential object.
ParseVerifiedDeviceCredential(bundle) ==
    /\ bundle.credential.present
    /\ ActiveAt(bundle.credential, bundle.height)

\* DeviceChallenge: bound to one version of one credential at one height.
Challenges ==
    [object : 1..MaxLightHeight - 1, sequence : 1..MaxLightHeight,
     height : 1..MaxLightHeight, capabilities : {spec.capabilities : spec \in CredentialSpecs}]

\* A device (external) signs the ChallengeDigest of the challenge it is sent, for
\* the object and the sequence that the challenge names.
AnswerChallenge(key, challenge) ==
    /\ Cardinality(answers) < MaxAnswers
    /\ answers' = answers \cup
         {[key |-> key, sequence |-> challenge.sequence, challenge |-> challenge]}
    /\ UNCHANGED <<ledger, citizen, call, evidence>>

\* devicecredential.VerifyChallenge: the credential is active at the height, and
\* its key signed the digest for its sequence.
VerifyChallenge(c, answer) ==
    /\ ActiveAt(c, answer.challenge.height)
    /\ answer.key = c.key
    /\ answer.sequence = c.sequence

\* VerifyDeviceChallenge without the comparison of the heights.
VerifyDeviceChallengeAnyHeight(bundle, answer) ==
    LET challenge == answer.challenge
        current == bundle.credential
    IN  /\ ParseVerifiedDeviceCredential(bundle)
        /\ current.object = challenge.object
        /\ current.sequence = challenge.sequence
        /\ challenge.capabilities \subseteq current.capabilities
        /\ VerifyChallenge(current, answer)

\* VerifyDeviceChallenge of an answer against a verified bundle.
VerifyDeviceChallenge(bundle, answer) ==
    LET challenge == answer.challenge
        current == bundle.credential
    IN  /\ ParseVerifiedDeviceCredential(bundle)
        /\ current.object = challenge.object
        /\ bundle.height = challenge.height
        /\ current.sequence = challenge.sequence
        /\ challenge.capabilities \subseteq current.capabilities
        /\ VerifyChallenge(current, answer)

\* VerifyDeviceChallengeBundleJSON under the present anchor: the evidence names
\* what was verified.
AcceptEvidence(bundle, answer) ==
    /\ VerifyObjectBundle(bundle, citizen)
    /\ VerifyDeviceChallenge(bundle, answer)
    /\ evidence' = evidence \cup
         {[object |-> bundle.credential.object, sequence |-> bundle.credential.sequence,
           height |-> bundle.height, capabilities |-> answer.challenge.capabilities,
           challenge |-> answer.challenge]}
    /\ UNCHANGED <<ledger, citizen, call, answers>>

LightNext ==
    \/ \E next \in CommitteeSets, credential \in Successors(Len(ledger) + 1) :
         FinalizeBlock(next, credential)
    \/ \E c \in Calls :
         \/ ReadAnchor(c)
         \/ \E bundle \in Bundles : MoveAnchor(c, bundle)
    \/ \E spec \in CredentialSpecs, challenge \in Challenges :
         AnswerChallenge(spec.key, challenge)
    \/ \E bundle \in Bundles, answer \in answers : AcceptEvidence(bundle, answer)

LightSpec == LightInit /\ [][LightNext]_lightVars

\* The Citizen's anchor is always a set the finalized chain authorised, however
\* its calls overlap and whatever heights and chains the bundles are from; and
\* accepted evidence is true of the finalized block it names: the credential was
\* there in that version, neither revoked nor expired, with the capabilities, and
\* the device holding its key signed a challenge for exactly that version and
\* block (mobile/citizen.go:82-102, citizen/challenge.go:195-242).
CitizenSeesFinalized ==
    /\ \/ citizen = FirstSet
       \/ \E i \in 1..Len(ledger) : ledger[i].next = citizen
    /\ \A e \in evidence :
         /\ e.height \in 1..Len(ledger)
         /\ LET c == ledger[e.height].credential
            IN  /\ c.present
                /\ c.object = e.object
                /\ c.sequence = e.sequence
                /\ e.capabilities \subseteq c.capabilities
                /\ c.expires = 0 \/ e.height < c.expires
                /\ \E a \in answers :
                     /\ a.key = c.key
                     /\ a.challenge.object = e.object
                     /\ a.challenge.sequence = e.sequence
                     /\ a.challenge.height = e.height
=============================================================================
