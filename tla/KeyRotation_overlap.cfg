CONSTANTS
    w1 = w1
    w2 = w2
    w3 = w3
    r1 = r1
    r2 = r2
    gateway = gateway
    consolidate = consolidate
    cli1 = cli1
    cli2 = cli2
    ep = ep
    ep0 = ep0
    sum = sum
    fact = fact
    ent = ent
    Writers = {w1, w3}
    Correctors = {w3}
    Rotators = {r1, r2}
    Procs = {gateway, consolidate, cli1, cli2}
    Home <- MCHome
    Rows = {ent}
    TableOf <- MCTableOf
    ParentOf <- MCParentOf
    SeedRows = {ent}
    Provisioned = {TRUE, FALSE}
    Pruning = FALSE
    BatchSize = 1
    MaxBatchSize = 2
    MaxVersion = 3
    MaxCrashes = 0
    Genesis = Genesis
    NoDEK = NoDEK
    Nobody = Nobody
SPECIFICATION Spec
SYMMETRY MCRuns
CHECK_DEADLOCK FALSE
INVARIANTS
    OneDEKPerVersion
PROPERTIES
    OnlyOvertakenGoBack
