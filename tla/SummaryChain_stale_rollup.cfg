CONSTANTS
    d1 = d1
    d2 = d2
    w = w
    m = m
    e1 = e1
    e2 = e2
    e3 = e3
    Consolidators = {c1}
    Operators = {}
    Days = {d1}
    Rollups = {w}
    SourcesOf <- MCSourcesOf
    Episodes = {e1, e3}
    DayOf <- MCDayOf
    SeedPeriods = {}
    MaxStores = 3
    MaxFailures = 0
    Nobody = Nobody
SPECIFICATION Spec
CHECK_DEADLOCK FALSE
INVARIANTS
    RollupReflectsSources
