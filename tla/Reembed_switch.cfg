CONSTANTS
    s1 = s1
    s2 = s2
    f1 = f1
    ada2 = ada2
    ada1 = ada1
    Summaries = {s1, s2}
    Episodes = {ep}
    Entities = {e1}
    Facts = {f1}
    FactsOf <- MCFactsOf
    SeedRows = {s1, f1, e1, ep}
    Patches = {p1}
    SeedText = {}
    Consolidators = {c1}
    Rotators = {q1}
    ModelOf <- MCModelOf
    NewModel = ada2
    OldModel = ada1
    NoModel = none
    BatchSize = 2
    MaxVersion = 2
    MaxStores = 1
    MaxFailures = 1
    MaxRuns = 1
SPECIFICATION Spec
CHECK_DEADLOCK FALSE
INVARIANTS
    TypeOK OneRotationIsSurvived DoneMeansDone LabelIsTruthful
PROPERTIES
    RunEnds
