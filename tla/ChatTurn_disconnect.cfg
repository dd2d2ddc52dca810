CONSTANTS
    t1 = t1
    Turns = {t1}
    MaxRetries = 5
    MaxChunks = 3
SPECIFICATION Spec
CHECK_DEADLOCK FALSE
INVARIANTS
    PartialTurnKept
