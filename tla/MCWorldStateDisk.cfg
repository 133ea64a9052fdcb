SPECIFICATION Spec
CONSTANTS
    a = a
    b = b
    c = c
    Objects = {a, b, c}
    Deltas <- MCDeltas
    MaxSeq = 5
    MaxFaults = 4
INVARIANTS
    TypeOK
    AlwaysReadable
    

    
