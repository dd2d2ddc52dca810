CONSTANTS
    w1 = w1
    w2 = w2
    w3 = w3
    r1 = r1
    r2 = r2
    gateway = gateway
    consolidate = consolidate
    cli1 = cli1
    cli2 = cli2
    ep = ep
    ep0 = ep0
    sum = sum
    fact = fact
    ent = ent
    Writers = {w1, w3}
    Correctors = {}
    Rotators = {r1}
    Procs = {gateway, consolidate, cli1, cli2}
    Home <- MCHome
    Rows = {ep, ep0, sum, fact}
    TableOf <- MCTableOf
    ParentOf <- MCParentOf
    SeedRows = {ep0}
    Provisioned = {TRUE}
    Pruning = TRUE
    BatchSize = 0
    MaxBatchSize = 2
    MaxVersion = 3
    MaxCrashes = 1
    Genesis = Genesis
    NoDEK = NoDEK
    Nobody = Nobody
SPECIFICATION FairSpec
CHECK_DEADLOCK FALSE
INVARIANTS
    TypeOK UnreadableOnlyIfLate MigrationComplete FactsInLockstep NoLostWrite
PROPERTIES
    NewestKeyKept RotationFinishes
