SPECIFICATION MCSpec
CONSTANTS
    w1 = w1
    w2 = w2
    w3 = w3
    r1 = r1
    r2 = r2
    n1 = n1
    n2 = n2
    f1 = f1
    f2 = f2
    c1 = c1
    c2 = c2
    AnchorLimit = 3
    Witnesses <- ThreeWitnesses
    Deployments <- TwoDeployments
    Checkpoints <- RivalCheckpoints
    Readers <- TwoReaders
    Sources = 3
    Floors <- PublishedFloors
    MinimumFloor <- GenesisFloor
    MaxReturned = 4
    ObserverShards = {0, 1}
    MaxSessionHeight = 4
    MaxRepairs = 2
    Nodes <- TwoNodes
    ValidatorSets = {"A", "B"}
    GenesisSet = "A"
    Followers <- TwoFollowers
    MaxRotationHeight = 2
    MaxRestarts = 1
    CommitteeSets = {"A", "B"}
    FirstSet = "A"
    OtherSet = "X"
    CredentialSpecs <- TwoSpecs
    Calls <- TwoCalls
    MaxLightHeight = 3
    MaxAnswers = 1
CHECK_DEADLOCK FALSE
INVARIANTS
    BundlesAgree
    FloorMonotone
    NeverServesOlder
    
    CitizenSeesFinalized
