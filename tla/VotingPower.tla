---------------------------- MODULE VotingPower ----------------------------
(***************************************************************************)
(* The weighted validator set (internal/v2/consensus, ValidatorSet).       *)
(*                                                                         *)
(* A validator is the rank of its identifier in the byte order that        *)
(* Proposer sorts by.  ValidatorSet.Validate refuses a set whose total     *)
(* power overflows a uint64, so a sum of powers is an integer sum; it is   *)
(* written as the number of units of power, which makes it countable.      *)
(***************************************************************************)
EXTENDS Integers, FiniteSets

CONSTANTS
    Validators,  \* the validators, by rank
    MaxPower,    \* bound: the power of one validator
    Power        \* the power of each

ASSUME PowerAssumption ==
    /\ Validators \subseteq Nat /\ IsFiniteSet(Validators) /\ Validators # {}
    /\ MaxPower \in Nat
    /\ Power \in [Validators -> 1 .. MaxPower]

Units(S) == {u \in S \X (1 .. MaxPower) : u[2] <= Power[u[1]]}

\* The power of a set of distinct voters.
PowerOf(S) == Cardinality(Units(S))

TotalPower == PowerOf(Validators)

\* Mutant of QuorumPower: half is enough.
QuorumPowerHalf(total) == (total + 1) \div 2

QuorumPower(total) ==
    LET q == total \div 3
        r == total % 3
    IN  IF total = 0 THEN 0 ELSE q * 2 + (r * 2) \div 3 + 1

\* VerifyCertificate: the votes of S, one per voter, carry enough power.
IsQuorum(S) == PowerOf(S) >= QuorumPower(TotalPower)

\* The first validator, in rank order, whose cumulative power passes the slot.
Proposer(height, round) ==
    LET slot == (((height - 1) % TotalPower) + (round % TotalPower)) % TotalPower
        upTo(v) == {w \in Validators : w <= v}
    IN  CHOOSE v \in Validators :
            /\ slot < PowerOf(upTo(v))
            /\ slot >= PowerOf(upTo(v) \ {v})
=============================================================================
