------------------------------ MODULE MCTrust ------------------------------
(***************************************************************************)
(* The parts that decide what a node, an observer, a witness or a light    *)
(* client trusts, on small instances.  They share no state, so a behaviour *)
(* is one of one part, chosen at the start; the others stand still.        *)
(***************************************************************************)
EXTENDS WitnessSigning, WitnessFloor, ObserverSession, ValidatorRotation, CitizenDevice, TLC

CONSTANTS w1, w2, w3, r1, r2, n1, n2, f1, f2, c1, c2

VARIABLE part

ThreeWitnesses == {w1, w2, w3}
TwoReaders == {r1, r2}
TwoNodes == {n1, n2}
TwoFollowers == {f1, f2}
TwoCalls == {c1, c2}

\* Rival headers of one height, and later ones for the published floors.
RivalCheckpoints == {[height |-> 1, hash |-> "a"], [height |-> 1, hash |-> "b"]}
PublishedFloors == RivalCheckpoints \cup {[height |-> 2, hash |-> "a"], [height |-> 2, hash |-> "b"]}
GenesisFloor == [height |-> 1, hash |-> "a"]

\* Signing on the journal, with or without comparing the publishers' floor; and
\* behind the fencing authority, with one failing write.
TwoDeployments ==
    {[guards |-> {"granted", "reconcile"}, failures |-> 0],
     [guards |-> {"fence"}, failures |-> 1]}

TwoSpecs ==
    {[key |-> "k1", capabilities |-> {"relay"}, expires |-> 0],
     [key |-> "k2", capabilities |-> {"relay", "sample"}, expires |-> 3]}

Parts == {"witness", "floor", "observer", "rotation", "light"}

MCVars == <<part, witnessVars, floorVars, observerVars, rotationVars, lightVars>>

MCInit ==
    /\ part \in Parts
    /\ WitnessInit /\ FloorInit /\ ObserverInit /\ RotationInit /\ LightInit
    /\ part # "witness" => deployment.guards = {"fence"}

MCNext ==
    /\ UNCHANGED part
    /\ \/ /\ part = "witness" /\ WitnessNext
          /\ UNCHANGED <<floorVars, observerVars, rotationVars, lightVars>>
       \/ /\ part = "floor" /\ FloorNext
          /\ UNCHANGED <<witnessVars, observerVars, rotationVars, lightVars>>
       \/ /\ part = "observer" /\ ObserverNext
          /\ UNCHANGED <<witnessVars, floorVars, rotationVars, lightVars>>
       \/ /\ part = "rotation" /\ RotationNext
          /\ UNCHANGED <<witnessVars, floorVars, observerVars, lightVars>>
       \/ /\ part = "light" /\ LightNext
          /\ UNCHANGED <<witnessVars, floorVars, observerVars, rotationVars>>

MCSpec == MCInit /\ [][MCNext]_MCVars
=============================================================================
