CONSTANTS
    d1 = d1
    d2 = d2
    w = w
    m = m
    e1 = e1
    e2 = e2
    e3 = e3
    Consolidators = {c1, c2}
    Operators = {o1}
    Days = {d1, d2}
    Rollups = {w, m}
    SourcesOf <- MCSourcesOf
    Episodes = {e1, e2}
    DayOf <- MCDayOf
    SeedPeriods = {d1, w}
    MaxStores = 3
    MaxFailures = 1
    Nobody = Nobody
SPECIFICATION Spec
SYMMETRY Symmetry
CHECK_DEADLOCK FALSE
INVARIANTS
    TypeOK RollupMissesNoDay NoFork CorrectionKept RollupNeverRollsBack
