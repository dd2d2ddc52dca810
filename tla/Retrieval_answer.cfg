CONSTANTS
    s1 = s1
    s2 = s2
    w = w
    t1 = t1
    e1 = e1
    e2 = e2
    Self = Self
    Absent = Absent
    Summaries = {s1, s2, w}
    Episodes = {t1}
    Entities = {e1, e2}
    Seed = {s1, w, t1, e1, e2, Self}
    Supersedes <- MCSupersedes
    WithFacts = {s1, s2}
    Span <- MCSpan
    Questions <- MCQuestions
    GraphWalk = TRUE
    MaxResults = 2
    MaxWalk = 1
    BatchSize = 3
    MaxBatches = 1
    MaxKeys = 2
SPECIFICATION Spec
CHECK_DEADLOCK FALSE
INVARIANTS
    TypeOK AnswersFromCurrent CitedOnce HalfRotationUnnoticed
