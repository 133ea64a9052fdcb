---------------------------- MODULE WitnessFloor ----------------------------
(***************************************************************************)
(* Reading the floor that independent publishers serve                     *)
(* (internal/v2/node/witness_multi_source_floor.go and its wrappers).      *)
(* Calls of AuthenticatedWitnessFloor run concurrently.  Each asks the     *)
(* sources one after the other without the lock, and takes the lock only   *)
(* to compare what they agreed on with the last floor returned.            *)
(* Publishers are outside the repository: each may serve any bundle that   *)
(* has been published, an old one included, and nothing here assumes that  *)
(* the published bundles agree with each other.                            *)
(***************************************************************************)
EXTENDS FinalityAnchor, FiniteSets

CONSTANTS
    Readers,       \* concurrent calls
    Sources,       \* how many publishers the operator configured
    Floors,        \* the checkpoints that may get published
    MinimumFloor,  \* the checkpoint of CertifiedWitnessFloorMinimum
    MaxReturned    \* bound: floors returned in a process

ASSUME FloorAssumption ==
    /\ Sources \in Nat \ {0}
    /\ Floors \subseteq [height : Nat, hash : {cp.hash : cp \in Floors}]

VARIABLES
    published,  \* the bundles any publisher may serve
    reader,     \* per call: sources asked so far, and what they agreed on
    floor,      \* MultiSourceWitnessFloor.last, NoCheckpoint until observed
    returned    \* what the process has returned, in the order of the lock

floorVars == <<published, reader, floor, returned>>

Asking(asked, agreed) == [asked |-> asked, agreed |-> agreed]
Waiting == Asking(0, NoCheckpoint)

FloorInit ==
    /\ published = {}
    /\ reader = [r \in Readers |-> Waiting]
    /\ floor = NoCheckpoint
    /\ returned = <<>>

\* The witnesses publish a bundle (external; WitnessSigning).
Publish(cp) ==
    /\ cp \notin published
    /\ published' = published \cup {cp}
    /\ UNCHANGED <<reader, floor, returned>>

\* NewOperatorSeparatedWitnessFloor and NewMultiSourceWitnessFloor: two to eight
\* publishers.
SourceCount == Sources \in 2..8

\* The next source answers with a bundle that QuorumAuthenticatedWitnessFloor
\* has verified, or fails (an HTTP error, a bundle that does not verify): the
\* call ends on a failure and on the first disagreement.
AskSource(r, cp) ==
    LET call == reader[r]
    IN  /\ SourceCount
        /\ call.asked < Sources
        /\ reader' = [reader EXCEPT ![r] =
             IF /\ ValidCheckpoint(cp)
                /\ call.asked = 0 \/ cp = call.agreed
               THEN Asking(call.asked + 1, cp)
               ELSE Waiting]
        /\ UNCHANGED <<published, floor, returned>>

\* A comparison that looks at the height only.
NotLower(agreed, last) ==
    \/ last = NoCheckpoint
    \/ agreed.height >= last.height

\* What the comparison under the lock lets through.
NotBelow(agreed, last) ==
    \/ last = NoCheckpoint
    \/ agreed.height > last.height
    \/ agreed = last

\* CertifiedWitnessFloorMinimum: the floor returned is not below the configured
\* checkpoint and does not contradict it.
AboveMinimum(cp) ==
    /\ cp.height >= MinimumFloor.height
    /\ cp.height = MinimumFloor.height => cp.hash = MinimumFloor.hash

\* All sources agreed: the comparison with the last floor, the new last floor,
\* and the minimum that wraps the call.
ReturnFloor(r) ==
    LET agreed == reader[r].agreed
        passes == NotBelow(agreed, floor)
    IN  /\ reader[r].asked = Sources
        /\ Len(returned) < MaxReturned
        /\ reader' = [reader EXCEPT ![r] = Waiting]
        /\ floor' = IF passes THEN agreed ELSE floor
        /\ returned' = IF passes /\ AboveMinimum(agreed)
                         THEN Append(returned, agreed) ELSE returned
        /\ UNCHANGED published

\* The process restarts: the last floor was only in memory.
RestartFloor ==
    /\ reader' = [r \in Readers |-> Waiting]
    /\ floor' = NoCheckpoint
    /\ returned' = <<>>
    /\ UNCHANGED published

FloorNext ==
    \/ \E cp \in Floors : Publish(cp)
    \/ \E r \in Readers :
         \/ \E cp \in published \cup {NoCheckpoint} : AskSource(r, cp)
         \/ ReturnFloor(r)
    \/ RestartFloor

FloorSpec == FloorInit /\ [][FloorNext]_floorVars

\* In one process the floors returned never go back and never name two headers
\* for one height, though calls overlap and publishers fall back to older or
\* rival bundles between two questions (witness_multi_source_floor.go:45-83).
FloorMonotone ==
    \A i, j \in 1..Len(returned) :
      i < j => \/ returned[i].height < returned[j].height
               \/ returned[i] = returned[j]
=============================================================================
