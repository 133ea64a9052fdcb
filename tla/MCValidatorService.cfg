CONSTANTS
    t = t
    u = u
    x = x
    Validators = {0, 1, 2}
    MaxPower = 2
    Power <- MCPower
    Txs = {t, u}
    Input <- MCInput
    Outbound = {u}
    Faulty = {0}
    Guarded = TRUE
    MaxHeight = 3
    MaxCopies = 2
    MaxFaults = 3
SPECIFICATION Spec
INVARIANTS
    TypeOK
    
    
    
    
    PoolBuilds
CHECK_DEADLOCK FALSE
