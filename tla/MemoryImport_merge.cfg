CONSTANTS
    SourceLog <- MCSourceLog
    LocalLog <- MCLocalLog
    Periods = {p1}
    Entities = {e1}
    SameDatabase = {TRUE, FALSE}
    MaxVersions = 2
    MaxExports = 2
    MaxImports = 2
    MaxFailures = 1
SPECIFICATION Spec
CHECK_DEADLOCK FALSE
INVARIANTS
    TypeOK HistoryWhole EpisodesArrive
