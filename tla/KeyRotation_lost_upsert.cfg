CONSTANTS
    w1 = w1
    w2 = w2
    w3 = w3
    r1 = r1
    r2 = r2
    gateway = gateway
    consolidate = consolidate
    cli1 = cli1
    cli2 = cli2
    ep = ep
    ep0 = ep0
    sum = sum
    fact = fact
    ent = ent
    Writers = {w3}
    Correctors = {}
    Rotators = {r1}
    Procs = {gateway, consolidate, cli1, cli2}
    Home <- MCHome
    Rows = {ent}
    TableOf <- MCTableOf
    ParentOf <- MCParentOf
    SeedRows = {ent}
    Provisioned = {TRUE}
    Pruning = FALSE
    BatchSize = 1
    MaxBatchSize = 2
    MaxVersion = 2
    MaxCrashes = 0
    Genesis = Genesis
    NoDEK = NoDEK
    Nobody = Nobody
SPECIFICATION Spec
CHECK_DEADLOCK FALSE
INVARIANTS
    NoLostWrite
